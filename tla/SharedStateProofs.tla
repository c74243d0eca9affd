-------------------------- MODULE SharedStateProofs --------------------------
(***************************************************************************)
(* SplitExact and MergeExact of SharedState, for strings and buffers of    *)
(* any length.                                                             *)
(*                                                                         *)
(* The first part says what the functions on strings compute; where they   *)
(* recur, by induction over the length.  The scan of regex_replace, from   *)
(* the left and with "\r\n" as one match, removes what a filter removes     *)
(* byte by byte (RemoveBreaksIs).  In the second part, Conserved follows   *)
(* each byte through the shell, the pipe and the buffer.                   *)
(***************************************************************************)
EXTENDS SharedState, Induction, SequenceTheorems

USE BufSizeAssumption, StringsAssumption

\* What strings are made of.
Byte == STRING \cup {"n"}

-----------------------------------------------------------------------------
(***************************************************************************)
(* What the functions on strings compute, for every string.                *)
(***************************************************************************)

\* Find(s) is the place of the first newline, or 0 if there is none.
LEMMA FindIs ==
  ASSUME NEW s \in Seq(Byte)
  PROVE  /\ Find(s) \in 0..Len(s)
         /\ Find(s) # 0 => s[Find(s)] = "n"
         /\ Find(s) # 0 => \A i \in 1..Find(s) - 1 : s[i] # "n"
         /\ Find(s) = 0 => \A i \in 1..Len(s) : s[i] # "n"
<1> DEFINE nl == {i \in 1..Len(s) : s[i] = "n"}
<1>1. Find(s) = IF nl # {} THEN Min(nl) ELSE 0
  BY DEF Find, SelectInSeq
<1>2. CASE nl = {}
  BY <1>1, <1>2
<1>3. CASE nl # {}
  <2>1. nl \subseteq Nat
    OBVIOUS
  <2>2. Min(nl) \in nl /\ \A y \in nl : Min(nl) <= y
    <3> HIDE DEF nl
    <3>1. \E x \in nl : \A y \in nl : x <= y
      BY <1>3, <2>1, LeastNat
    <3> QED
      BY <3>1 DEF Min
  <2>3. Find(s) \in nl /\ \A y \in nl : Find(s) <= y
    <3> HIDE DEF nl
    <3> QED
      BY <1>1, <1>3, <2>2
  <2> QED
    BY <2>3
<1> QED
  BY <1>2, <1>3

\* The function that Unbroken defines by recursion.
Upto(s) ==
  CHOOSE upto : upto = [i \in 0..Len(s) |->
    IF i = 0 THEN <<>>
    ELSE IF s[i] \in {"r", "n"} THEN upto[i - 1]
    ELSE Append(upto[i - 1], s[i])]

\* It exists: it is built up from 0.
LEMMA UptoRecursive ==
  ASSUME NEW s \in Seq(Byte)
  PROVE  /\ Upto(s)[0] = <<>>
         /\ \A i \in 1..Len(s) :
              Upto(s)[i] = IF s[i] \in {"r", "n"} THEN Upto(s)[i - 1]
                           ELSE Append(Upto(s)[i - 1], s[i])
<1> DEFINE Next1(f, i) == IF i = 0 THEN <<>>
                          ELSE IF s[i] \in {"r", "n"} THEN f[i - 1]
                          ELSE Append(f[i - 1], s[i])
           T == {n \in Nat : \E f : f = [i \in 0..n |-> Next1(f, i)]}
<1>1. 0 \in T
  <2>1. [i \in {0} |-> <<>>] = [i \in 0..0 |-> Next1([j \in {0} |-> <<>>], i)]
    OBVIOUS
  <2> QED
    BY <2>1
<1>2. ASSUME NEW n \in Nat, n \in T PROVE n + 1 \in T
  <2>1. PICK h : h = [i \in 0..n |-> Next1(h, i)]
    BY <1>2
  <2> DEFINE g == [i \in 0..n + 1 |-> IF i = n + 1 THEN Next1(h, n + 1) ELSE h[i]]
  <2>2. \A i \in 0..n : h[i] = Next1(h, i)
    BY <2>1
  <2>3. \A i \in 0..n : g[i] = h[i]
    OBVIOUS
  <2>4. ASSUME NEW i \in 0..n + 1 PROVE g[i] = Next1(g, i)
    <3>1. CASE i = 0
      BY <2>2, <2>3, <3>1
    <3>2. CASE i # 0
      <4>1. i - 1 \in 0..n /\ g[i - 1] = h[i - 1]
        BY <3>2
      <4>2. Next1(g, i) = Next1(h, i)
        BY <4>1
      <4>3. g[i] = Next1(h, i)
        BY <2>2
      <4> QED
        BY <4>2, <4>3
    <3> QED
      BY <3>1, <3>2
  <2>5. g = [i \in 0..n + 1 |-> Next1(g, i)]
    <3> HIDE DEF Next1
    <3> QED
      BY <2>4
  <2> HIDE DEF g
  <2>6. \E f : f = [i \in 0..n + 1 |-> Next1(f, i)]
    <3> HIDE DEF Next1
    <3> QED
      BY <2>5, Zenon
  <2>7. n + 1 \in Nat
    OBVIOUS
  <2> QED
    BY <2>6, <2>7, Zenon
<1>3. \A n \in Nat : n \in T
  <2> HIDE DEF T
  <2> QED
    BY <1>1, <1>2, SimpleInduction
<1>4. \E f : f = [i \in 0..Len(s) |-> Next1(f, i)]
  <2>1. Len(s) \in Nat
    OBVIOUS
  <2>2. Len(s) \in T
    BY <1>3, <2>1, Zenon
  <2> HIDE DEF Next1
  <2> QED
    BY <2>2, Zenon
<1>5. Upto(s) = [i \in 0..Len(s) |-> Next1(Upto(s), i)]
  BY <1>4 DEF Upto
<1>6. \A i \in 0..Len(s) : Upto(s)[i] = Next1(Upto(s), i)
  BY <1>5
<1> QED
  BY <1>6

\* What the filter keeps are bytes.
LEMMA UptoType ==
  ASSUME NEW s \in Seq(Byte)
  PROVE  \A i \in 0..Len(s) : Upto(s)[i] \in Seq(Byte)
<1> DEFINE T == {n \in Nat : n <= Len(s) => Upto(s)[n] \in Seq(Byte)}
<1>1. 0 \in T
  <2>1. Upto(s)[0] \in Seq(Byte)
    BY UptoRecursive, EmptySeq
  <2> QED
    BY <2>1
<1>2. ASSUME NEW n \in Nat, n \in T PROVE n + 1 \in T
  <2> SUFFICES ASSUME n + 1 <= Len(s) PROVE Upto(s)[n + 1] \in Seq(Byte)
    OBVIOUS
  <2>1. Upto(s)[n] \in Seq(Byte) /\ n + 1 \in 1..Len(s) /\ (n + 1) - 1 = n
    BY <1>2
  <2>2. s[n + 1] \in Byte
    BY <2>1
  <2>3. Upto(s)[n + 1] = Upto(s)[n] \/ Upto(s)[n + 1] = Append(Upto(s)[n], s[n + 1])
    BY <2>1, UptoRecursive
  <2>4. Append(Upto(s)[n], s[n + 1]) \in Seq(Byte)
    BY <2>1, <2>2
  <2> HIDE DEF T
  <2> QED
    BY <2>1, <2>3, <2>4
<1>3. \A n \in Nat : n \in T
  <2> HIDE DEF T
  <2> QED
    BY <1>1, <1>2, SimpleInduction
<1> QED
  BY <1>3

\* Unbroken(s) is the last value of its recursive function.
LEMMA UnbrokenIs ==
  ASSUME NEW s \in Seq(Byte)
  PROVE  Unbroken(s) = Upto(s)[Len(s)] /\ Unbroken(s) \in Seq(Byte)
<1>1. Unbroken(s) = Upto(s)[Len(s)]
  BY DEF Unbroken, Upto
<1> QED
  BY <1>1, UptoType

\* What follows does not matter.
LEMMA UptoLocal ==
  ASSUME NEW s \in Seq(Byte), NEW t \in Seq(Byte)
  PROVE  \A i \in 0..Len(s) : Upto(s \o t)[i] = Upto(s)[i]
<1> DEFINE T == {n \in Nat : n <= Len(s) => Upto(s \o t)[n] = Upto(s)[n]}
<1>0. s \o t \in Seq(Byte) /\ Len(s \o t) = Len(s) + Len(t)
  OBVIOUS
<1>1. 0 \in T
  BY <1>0, UptoRecursive
<1>2. ASSUME NEW n \in Nat, n \in T PROVE n + 1 \in T
  <2> SUFFICES ASSUME n + 1 <= Len(s) PROVE Upto(s \o t)[n + 1] = Upto(s)[n + 1]
    OBVIOUS
  <2>1. /\ Upto(s \o t)[n] = Upto(s)[n] /\ n + 1 \in 1..Len(s) /\ (n + 1) - 1 = n
        /\ n + 1 \in 1..Len(s \o t) /\ (s \o t)[n + 1] = s[n + 1]
    BY <1>0, <1>2
  <2>2. Upto(s)[n + 1] = IF s[n + 1] \in {"r", "n"} THEN Upto(s)[n]
                         ELSE Append(Upto(s)[n], s[n + 1])
    BY <2>1, UptoRecursive
  <2>3. Upto(s \o t)[n + 1] = IF (s \o t)[n + 1] \in {"r", "n"} THEN Upto(s \o t)[n]
                              ELSE Append(Upto(s \o t)[n], (s \o t)[n + 1])
    BY <1>0, <2>1, UptoRecursive
  <2> QED
    BY <2>1, <2>2, <2>3
<1>3. \A n \in Nat : n \in T
  <2> HIDE DEF T
  <2> QED
    BY <1>1, <1>2, SimpleInduction
<1> QED
  BY <1>3

\* The filtered string only grows.
LEMMA UptoGrows ==
  ASSUME NEW s \in Seq(Byte), NEW i \in 0..Len(s)
  PROVE  IsPrefix(Upto(s)[i], Upto(s)[Len(s)])
<1> DEFINE T == {n \in Nat : i + n <= Len(s) => IsPrefix(Upto(s)[i], Upto(s)[i + n])}
<1>0. \A k \in 0..Len(s) : Upto(s)[k] \in Seq(Byte)
  BY UptoType
<1>1. 0 \in T
  <2>1. Upto(s)[i] \in Seq(Byte) /\ i + 0 = i
    BY <1>0
  <2>2. ASSUME NEW p \in Seq(Byte) PROVE IsPrefix(p, p)
    BY DEF IsPrefix
  <2> QED
    BY <2>1, <2>2
<1>2. ASSUME NEW n \in Nat, n \in T PROVE n + 1 \in T
  <2> SUFFICES ASSUME i + (n + 1) <= Len(s)
               PROVE  IsPrefix(Upto(s)[i], Upto(s)[i + (n + 1)])
    OBVIOUS
  <2>1. /\ IsPrefix(Upto(s)[i], Upto(s)[i + n])
        /\ i + (n + 1) \in 1..Len(s) /\ (i + (n + 1)) - 1 = i + n
        /\ Upto(s)[i + n] \in Seq(Byte) /\ Upto(s)[i] \in Seq(Byte)
    BY <1>0, <1>2
  <2>2. s[i + (n + 1)] \in Byte
    BY <2>1
  <2>3. Upto(s)[i + (n + 1)] \in {Upto(s)[i + n], Append(Upto(s)[i + n], s[i + (n + 1)])}
    BY <2>1, UptoRecursive
  <2>4. ASSUME NEW p \in Seq(Byte), NEW q \in Seq(Byte), NEW b \in Byte, IsPrefix(p, q)
        PROVE  IsPrefix(p, Append(q, b))
    BY <2>4 DEF IsPrefix
  <2> HIDE DEF T
  <2> QED
    BY <2>1, <2>2, <2>3, <2>4
<1>3. \A n \in Nat : n \in T
  <2> HIDE DEF T
  <2> QED
    BY <1>1, <1>2, SimpleInduction
<1>4. Len(s) - i \in Nat /\ i + (Len(s) - i) = Len(s) /\ i + (Len(s) - i) <= Len(s)
  OBVIOUS
<1>5. Len(s) - i \in T
  BY <1>3, <1>4, Zenon
<1>6. IsPrefix(Upto(s)[i], Upto(s)[i + (Len(s) - i)])
  BY <1>4, <1>5, Zenon
<1> QED
  BY <1>4, <1>6

\* A beginning of a string without its breaks is a beginning of the string
\* without its breaks.
LEMMA UnbrokenPrefix ==
  ASSUME NEW s \in Seq(Byte), NEW t \in Seq(Byte)
  PROVE  IsPrefix(Unbroken(s), Unbroken(s \o t))
<1>1. s \o t \in Seq(Byte) /\ Len(s) \in 0..Len(s \o t)
  OBVIOUS
<1>2. IsPrefix(Upto(s \o t)[Len(s)], Upto(s \o t)[Len(s \o t)])
  BY <1>1, UptoGrows
<1>3. Upto(s \o t)[Len(s)] = Upto(s)[Len(s)]
  BY UptoLocal
<1>4. Unbroken(s) = Upto(s)[Len(s)]
  BY UnbrokenIs
<1>5. Unbroken(s \o t) = Upto(s \o t)[Len(s \o t)]
  BY <1>1, UnbrokenIs
<1> QED
  BY <1>2, <1>3, <1>4, <1>5, Zenon

\* The newline that echo adds is removed with the others.
LEMMA UnbrokenNewline ==
  ASSUME NEW s \in Seq(Byte)
  PROVE  Unbroken(s \o <<"n">>) = Unbroken(s)
<1>1. ASSUME NEW t \in Seq(Byte), Len(t) = 1, t[1] = "n"
      PROVE  Unbroken(s \o t) = Unbroken(s)
  <2>1. /\ s \o t \in Seq(Byte) /\ Len(s \o t) = Len(s) + 1
        /\ (s \o t)[Len(s) + 1] = "n"
        /\ Len(s) + 1 \in 1..Len(s \o t) /\ (Len(s) + 1) - 1 = Len(s)
    <3>1. Len(s) \in Nat /\ Len(s) + 1 > Len(s) /\ (Len(s) + 1) - Len(s) = 1
      OBVIOUS
    <3>2. s \o t \in Seq(Byte) /\ Len(s \o t) = Len(s) + 1
      BY <1>1, ConcatProperties
    <3>3. Len(s) + 1 \in 1..Len(s) + Len(t) /\ ~ (Len(s) + 1 <= Len(s))
      BY <1>1, <3>1
    <3>4. (s \o t)[Len(s) + 1] = t[(Len(s) + 1) - Len(s)]
      BY <3>3, ConcatProperties
    <3> QED
      BY <1>1, <3>1, <3>2, <3>3, <3>4
  <2>2. Upto(s \o t)[Len(s)] = Upto(s)[Len(s)]
    BY UptoLocal
  <2>3. Upto(s \o t)[Len(s) + 1] = Upto(s \o t)[Len(s)]
    BY <2>1, UptoRecursive
  <2>4. Unbroken(s \o t) = Upto(s \o t)[Len(s) + 1] /\ Unbroken(s) = Upto(s)[Len(s)]
    BY <2>1, UnbrokenIs
  <2> QED
    BY <2>2, <2>3, <2>4
<1>2. <<"n">> \in Seq(Byte) /\ Len(<<"n">>) = 1 /\ <<"n">>[1] = "n"
  BY DEF Byte
<1> QED
  BY <1>1, <1>2, Zenon

\* The function that RemoveBreaks defines by recursion.
From(s) ==
  CHOOSE from : from = [i \in 1..Len(s) + 1 |->
    IF i > Len(s) THEN <<>>
    ELSE IF s[i] = "r" /\ i < Len(s) /\ s[i + 1] = "n" THEN from[i + 2]
    ELSE IF s[i] \in {"r", "n"} THEN from[i + 1]
    ELSE <<s[i]>> \o from[i + 1]]

\* It exists: it is built down from the end of the string.
LEMMA FromRecursive ==
  ASSUME NEW s \in Seq(Byte)
  PROVE  /\ From(s)[Len(s) + 1] = <<>>
         /\ \A i \in 1..Len(s) :
              From(s)[i] =
                IF s[i] = "r" /\ i < Len(s) /\ s[i + 1] = "n" THEN From(s)[i + 2]
                ELSE IF s[i] \in {"r", "n"} THEN From(s)[i + 1]
                ELSE <<s[i]>> \o From(s)[i + 1]
<1> DEFINE N == Len(s) + 1
           Next1(f, i) ==
             IF i > Len(s) THEN <<>>
             ELSE IF s[i] = "r" /\ i < Len(s) /\ s[i + 1] = "n" THEN f[i + 2]
             ELSE IF s[i] \in {"r", "n"} THEN f[i + 1]
             ELSE <<s[i]>> \o f[i + 1]
           T == {n \in Nat : n <= Len(s) => \E f : f = [i \in N - n..N |-> Next1(f, i)]}
<1>0. N \in Nat /\ N - 0 = N
  OBVIOUS
<1>1. 0 \in T
  <2>0. N - 0..N = {N} /\ N > Len(s)
    OBVIOUS
  <2>1. [i \in {N} |-> <<>>] = [i \in N - 0..N |-> Next1([j \in {N} |-> <<>>], i)]
    <3> HIDE DEF N
    <3> QED
      BY <2>0
  <2> HIDE DEF Next1, N
  <2> QED
    BY <2>1
<1>2. ASSUME NEW n \in Nat, n \in T PROVE n + 1 \in T
  <2> SUFFICES ASSUME n + 1 <= Len(s)
               PROVE  \E f : f = [i \in N - (n + 1)..N |-> Next1(f, i)]
    <3>1. n + 1 \in Nat
      OBVIOUS
    <3> HIDE DEF Next1, N
    <3> QED
      BY <3>1
  <2>0. n <= Len(s)
    OBVIOUS
  <2>1. PICK h : h = [i \in N - n..N |-> Next1(h, i)]
    BY <1>2, <2>0
  <2> DEFINE k == N - (n + 1)
             g == [i \in k..N |-> IF i = k THEN Next1(h, k) ELSE h[i]]
  <2>2. k \in 1..Len(s) /\ N - n = k + 1
    BY <1>0
  <2>3. \A i \in k + 1..N : h[i] = Next1(h, i)
    <3> HIDE DEF Next1
    <3> QED
      BY <2>1, <2>2
  <2>4. \A i \in k + 1..N : g[i] = h[i]
    BY <2>2
  <2>5. ASSUME NEW i \in k..N PROVE g[i] = Next1(g, i)
    <3>1. i \in Nat /\ i <= N /\ i >= k
      BY <2>2
    <3>2. g[i] = Next1(h, i)
      <4> HIDE DEF Next1
      <4>1. CASE i = k
        BY <4>1
      <4>2. CASE i # k
        <5>1. i \in k + 1..N
          BY <2>2, <3>1, <4>2
        <5> QED
          BY <2>3, <2>4, <5>1
      <4> QED
        BY <4>1, <4>2
    <3>3. i <= Len(s) => g[i + 1] = h[i + 1]
      BY <2>4, <3>1
    <3>4. i < Len(s) => g[i + 2] = h[i + 2]
      BY <2>4, <3>1
    <3>5. Next1(g, i) = Next1(h, i)
      <4> HIDE DEF g, k
      <4> QED
        BY <3>1, <3>3, <3>4
    <3> QED
      BY <3>2, <3>5
  <2>6. g = [i \in k..N |-> Next1(g, i)]
    <3> HIDE DEF Next1
    <3> QED
      BY <2>5
  <2> HIDE DEF g, Next1
  <2> QED
    BY <2>6, Zenon
<1>3. \A n \in Nat : n \in T
  <2> HIDE DEF T
  <2> QED
    BY <1>1, <1>2, SimpleInduction
<1>4. \E f : f = [i \in 1..N |-> Next1(f, i)]
  <2>1. Len(s) \in Nat /\ Len(s) <= Len(s) /\ N - Len(s) = 1
    OBVIOUS
  <2>2. Len(s) \in T
    BY <1>3, <2>1
  <2>3. \E f : f = [i \in N - Len(s)..N |-> Next1(f, i)]
    <3> HIDE DEF N, Next1
    <3> QED
      BY <2>1, <2>2, Zenon
  <2> HIDE DEF N, Next1
  <2> QED
    BY <2>1, <2>3
<1>5. From(s) = [i \in 1..N |-> Next1(From(s), i)]
  BY <1>4 DEF From
<1>6. \A i \in 1..N : From(s)[i] = Next1(From(s), i)
  <2> HIDE DEF Next1, N
  <2> QED
    BY <1>5
<1>7. From(s)[N] = <<>>
  <2>1. N \in 1..N /\ N > Len(s)
    OBVIOUS
  <2>2. From(s)[N] = Next1(From(s), N)
    BY <1>6, <2>1
  <2> HIDE DEF N
  <2> QED
    BY <2>1, <2>2
<1>8. \A i \in 1..Len(s) : i \in 1..N /\ ~ (i > Len(s))
  OBVIOUS
<1> QED
  BY <1>6, <1>7, <1>8

\* A byte that is kept belongs to what comes before it or to what comes after.
LEMMA ShiftByte ==
  ASSUME NEW p \in Seq(Byte), NEW b \in Byte, NEW q \in Seq(Byte)
  PROVE  <<b>> \o q \in Seq(Byte) /\ p \o (<<b>> \o q) = Append(p, b) \o q
<1>1. <<b>> \in Seq(Byte)
  OBVIOUS
<1>2. Append(p, b) = p \o <<b>>
  BY AppendIsConcat
<1> QED
  BY <1>1, <1>2, ConcatAssociative, ConcatProperties

\* regex_replace scans from the left and takes "\r\n" for one match; together
\* with what the filter kept of the bytes before it, it makes the filtered string.
LEMMA ScanIs ==
  ASSUME NEW s \in Seq(Byte)
  PROVE  \A i \in 1..Len(s) + 1 :
           /\ From(s)[i] \in Seq(Byte)
           /\ Upto(s)[i - 1] \o From(s)[i] = Upto(s)[Len(s)]
<1> DEFINE N == Len(s) + 1
           P(i) == /\ From(s)[i] \in Seq(Byte)
                   /\ Upto(s)[i - 1] \o From(s)[i] = Upto(s)[Len(s)]
           T == {d \in Nat : d <= Len(s) => P(N - d)}
<1>1. \A i \in 0..Len(s) : Upto(s)[i] \in Seq(Byte)
  BY UptoType
<1>2. P(N)
  <2>1. From(s)[N] = <<>> /\ N - 1 = Len(s) /\ Upto(s)[Len(s)] \in Seq(Byte)
    BY <1>1, FromRecursive
  <2> HIDE DEF N
  <2> QED
    BY <2>1, ConcatEmptySeq, EmptySeq
<1>3. ASSUME NEW i \in 1..Len(s), P(i + 1), i < Len(s) => P(i + 2) PROVE P(i)
  <2> DEFINE u == Upto(s)[i - 1]
             f == From(s)[i + 1]
  <2>1. /\ u \in Seq(Byte) /\ f \in Seq(Byte) /\ s[i] \in Byte /\ (i + 1) - 1 = i
        /\ Upto(s)[i] \o f = Upto(s)[Len(s)]
    <3>1. i \in 1..Len(s) /\ i - 1 \in 0..Len(s) /\ (i + 1) - 1 = i
      OBVIOUS
    <3>2. s[i] \in Byte
      BY <3>1, ElementOfSeq
    <3> QED
      BY <1>1, <1>3, <3>1, <3>2, Zenon
  <2>2. Upto(s)[i] = IF s[i] \in {"r", "n"} THEN u ELSE Append(u, s[i])
    BY UptoRecursive
  <2>3. CASE s[i] = "r" /\ i < Len(s) /\ s[i + 1] = "n"
    <3>1. From(s)[i] = From(s)[i + 2]
      BY <2>3, FromRecursive
    <3>2. i + 1 \in 1..Len(s) /\ (i + 1) - 1 = i /\ (i + 2) - 1 = i + 1
      BY <2>3
    <3>3. Upto(s)[i + 1] = Upto(s)[i]
      BY <2>3, <3>2, UptoRecursive
    <3>4. Upto(s)[i] = u
      BY <2>2, <2>3
    <3> QED
      BY <1>3, <2>3, <3>1, <3>2, <3>3, <3>4
  <2>4. CASE s[i] \in {"r", "n"} /\ ~ (s[i] = "r" /\ i < Len(s) /\ s[i + 1] = "n")
    <3>1. From(s)[i] = f
      BY <2>4, FromRecursive
    <3> QED
      BY <2>1, <2>2, <2>4, <3>1
  <2>5. CASE s[i] \notin {"r", "n"}
    <3>1. From(s)[i] = <<s[i]>> \o f
      <4>1. s[i] # "r"
        BY <2>5
      <4> QED
        BY <2>5, <4>1, FromRecursive
    <3>2. Upto(s)[i] = Append(u, s[i])
      BY <2>2, <2>5
    <3> HIDE DEF u, f
    <3>3. <<s[i]>> \o f \in Seq(Byte) /\ u \o (<<s[i]>> \o f) = Append(u, s[i]) \o f
      BY <2>1, ShiftByte
    <3> USE DEF u
    <3> QED
      BY <2>1, <3>1, <3>2, <3>3, Zenon
  <2> QED
    BY <2>3, <2>4, <2>5
<1>4. ASSUME NEW d \in Nat, \A e \in Nat : e < d => e \in T PROVE d \in T
  <2> SUFFICES ASSUME d <= Len(s) PROVE P(N - d)
    OBVIOUS
  <2> HIDE DEF P
  <2>1. CASE d = 0
    BY <1>2, <2>1
  <2>2. CASE d # 0
    <3>1. N - d \in 1..Len(s) /\ d - 1 \in Nat /\ d - 1 < d /\ d - 1 <= Len(s)
      BY <2>2
    <3>2. P(N - (d - 1)) /\ N - (d - 1) = (N - d) + 1
      BY <1>4, <3>1
    <3>3. ASSUME N - d < Len(s) PROVE P((N - d) + 2)
      <4>1. d - 2 \in Nat /\ d - 2 < d /\ d - 2 <= Len(s) /\ N - (d - 2) = (N - d) + 2
        BY <2>2, <3>3
      <4>2. P(N - (d - 2))
        BY <1>4, <4>1
      <4> QED
        BY <4>1, <4>2
    <3>4. P((N - d) + 1)
      BY <3>2
    <3> QED
      BY <1>3, <3>1, <3>3, <3>4
  <2> QED
    BY <2>1, <2>2
<1>5. \A d \in Nat : d \in T
  <2> HIDE DEF T
  <2> QED
    BY <1>4, StrongInduction
<1>6. ASSUME NEW i \in 1..N PROVE P(i)
  <2>1. N - i \in Nat /\ N - i <= Len(s) /\ N - (N - i) = i
    OBVIOUS
  <2>2. N - i \in T
    BY <1>5, <2>1, Zenon
  <2> HIDE DEF P
  <2>3. P(N - (N - i))
    BY <2>1, <2>2
  <2> QED
    BY <2>1, <2>3
<1> QED
  BY <1>6

\* RemoveBreaks removes the line breaks and nothing else.
LEMMA RemoveBreaksIs ==
  ASSUME NEW s \in Seq(Byte)
  PROVE  RemoveBreaks(s) = Unbroken(s)
<1>1. RemoveBreaks(s) = From(s)[1]
  BY DEF RemoveBreaks, From
<1>2. 1 \in 1..Len(s) + 1 /\ 1 - 1 = 0
  OBVIOUS
<1>3. From(s)[1] \in Seq(Byte) /\ Upto(s)[0] \o From(s)[1] = Upto(s)[Len(s)]
  BY <1>2, ScanIs
<1>4. Upto(s)[0] = <<>>
  BY UptoRecursive
<1>5. <<>> \o From(s)[1] = From(s)[1]
  BY <1>3, ConcatEmptySeq
<1> QED
  BY <1>1, <1>3, <1>4, <1>5, UnbrokenIs

-----------------------------------------------------------------------------
(***************************************************************************)
(* The invariants of a call.                                               *)
(***************************************************************************)

Typed ==
  /\ fn \in Extracts \cup Merges
  /\ pc \in {"call", "read", "pclose", "done", "threw"}
  /\ arg \in Input
  /\ arg \in Seq(Byte) /\ before \in Seq(Byte)
  /\ pipe \in Seq(Byte) /\ unwritten \in Seq(Byte)
  /\ pc \in {"call", "read", "pclose"} => result \in Seq(Byte)

\* What was read, what is in the pipe and what echo has not written make the
\* state and its newline, if the shell did run echo on it.
Conserved ==
  pc \in {"read", "pclose"} =>
    /\ fn \in Merges
    /\ Quotable(arg) => result \o (pipe \o unwritten) = (before \o arg) \o <<"n">>

\* The loops end with an empty pipe, and echo with nothing to write.
Drained ==
  /\ pc \in {"call", "pclose"} => pipe = <<>>
  /\ pc = "call" => rc = Running
  /\ rc = Exit0 => unwritten = <<>>

SInv == Typed /\ Conserved /\ Drained /\ SplitExact /\ MergeExact

\* s is its first k bytes and the others.
LEMMA Cut ==
  ASSUME NEW s \in Seq(Byte), NEW k \in 0..Len(s)
  PROVE  /\ SubSeq(s, 1, k) \in Seq(Byte) /\ Len(SubSeq(s, 1, k)) = k
         /\ SubSeq(s, k + 1, Len(s)) \in Seq(Byte)
         /\ Len(SubSeq(s, k + 1, Len(s))) = Len(s) - k
         /\ s = SubSeq(s, 1, k) \o SubSeq(s, k + 1, Len(s))
<1>1. /\ 1 \in 1..Len(s) + 1 /\ k \in 1 - 1..Len(s) /\ Len(s) \in k..Len(s)
      /\ Len(s) \in Nat
  OBVIOUS
<1>2. SubSeq(s, 1, k) \o SubSeq(s, k + 1, Len(s)) = SubSeq(s, 1, Len(s))
  BY <1>1, ConcatAdjacentSubSeq
<1>3. SubSeq(s, 1, Len(s)) = s
  BY SubSeqFull
<1>4. SubSeq(s, 1, k) \in Seq(Byte) /\ Len(SubSeq(s, 1, k)) = k
  OBVIOUS
<1>5. /\ SubSeq(s, k + 1, Len(s)) \in Seq(Byte)
      /\ Len(SubSeq(s, k + 1, Len(s))) = Len(s) - k
  OBVIOUS
<1> QED
  BY <1>2, <1>3, <1>4, <1>5

\* fread and fgets take a beginning of the pipe, and the loops end only when it
\* was all of it.
LEMMA PieceIs ==
  ASSUME pipe \in Seq(Byte), NEW n \in Nat, n > 0, NEW line \in BOOLEAN
  PROVE  LET s == Piece(n, line) IN
         /\ Len(s) \in 0..Len(pipe)
         /\ s = SubSeq(pipe, 1, Len(s))
         /\ LoopEnds(s, n, line) => Len(s) = Len(pipe)
<1> DEFINE k == IF Len(pipe) < n THEN Len(pipe) ELSE n
           t == SubSeq(pipe, 1, k)
           p == Find(t)
           s == Piece(n, line)
<1>1. s = IF line /\ p # 0 THEN SubSeq(t, 1, p) ELSE t
  BY DEF Piece
<1>2. k \in 0..Len(pipe) /\ t \in Seq(Byte) /\ Len(t) = k
  <2>1. k \in 0..Len(pipe)
    OBVIOUS
  <2> HIDE DEF k
  <2> QED
    BY <2>1, Cut
<1>3. p \in 0..k /\ (p # 0 => t[p] = "n") /\ (p = 0 => \A i \in 1..k : t[i] # "n")
  <2> HIDE DEF t, k
  <2> QED
    BY <1>2, FindIs
<1>4. CASE line /\ p # 0
  <2>1. s = SubSeq(t, 1, p) /\ p \in 1..k
    BY <1>1, <1>3, <1>4
  <2>2. SubSeq(t, 1, p) = SubSeq(pipe, 1, p) /\ Len(SubSeq(t, 1, p)) = p
    <3> HIDE DEF p, k
    <3> QED
      BY <1>2, <2>1
  <2>3. s \in Seq(Byte) /\ Len(s) = p /\ s[p] = "n"
    <3> HIDE DEF p, k, t
    <3> QED
      BY <1>2, <1>3, <2>1
  <2>4. Find(s) # 0
    <3> HIDE DEF s, p, k, t
    <3>1. p \in 1..Len(s)
      BY <2>1, <2>3
    <3> QED
      BY <2>3, <3>1, FindIs
  <2>5. ~ LoopEnds(s, n, line)
    BY <1>4, <2>4 DEF LoopEnds
  <2> HIDE DEF s, p, k, t
  <2> QED
    BY <1>2, <2>1, <2>2, <2>3, <2>5 DEF s
<1>5. CASE ~ (line /\ p # 0)
  <2>1. s = t /\ Len(s) = k
    BY <1>1, <1>2, <1>5
  <2>2. LoopEnds(s, n, line) => Len(s) < n
    <3> HIDE DEF s, t, p, k
    <3>1. s = <<>> => Len(s) = 0
      OBVIOUS
    <3> QED
      BY <3>1 DEF LoopEnds
  <2>3. k < n => k = Len(pipe)
    OBVIOUS
  <2>4. t = SubSeq(pipe, 1, k)
    OBVIOUS
  <2> HIDE DEF s, t, p, k
  <2> QED
    BY <1>2, <2>1, <2>2, <2>3, <2>4 DEF s
<1> QED
  BY <1>4, <1>5

-----------------------------------------------------------------------------

\* Concatenation is associative, ...
LEMMA Assoc ==
  \A x, y, z \in Seq(Byte) : (x \o y) \o z = x \o (y \o z)
BY ConcatAssociative, SMT

\* ... so bytes may move from the pipe to the buffer.
LEMMA Regroup ==
  ASSUME NEW x \in Seq(Byte), NEW y \in Seq(Byte), NEW z \in Seq(Byte), NEW w \in Seq(Byte)
  PROVE  (x \o y) \o (z \o w) = x \o ((y \o z) \o w)
<1>1. z \o w \in Seq(Byte)
  BY ConcatProperties, SMT
<1>2. (x \o y) \o (z \o w) = x \o (y \o (z \o w))
  <2>0. \A t, v \in Seq(Byte) : (x \o t) \o v = x \o (t \o v)
    BY Assoc, Zenon
  <2>1. \A v \in Seq(Byte) : (x \o y) \o v = x \o (y \o v)
    BY <2>0, Zenon
  <2> QED
    BY <1>1, <2>1, Zenon
<1>3. (y \o z) \o w = y \o (z \o w)
  <2>1. \A t, v \in Seq(Byte) : (y \o t) \o v = y \o (t \o v)
    BY Assoc, Zenon
  <2>2. \A v \in Seq(Byte) : (y \o z) \o v = y \o (z \o v)
    BY <2>1, Zenon
  <2> QED
    BY <2>2, Zenon
<1> QED
  BY <1>2, <1>3, Zenon

\* A call begins with an empty pipe and nothing read.
LEMMA InitInv == Init => SInv
<1> SUFFICES ASSUME Init PROVE SInv
  OBVIOUS
<1>1. arg \in Seq(STRING) /\ before \in Seq(STRING)
  <2>1. before \in Before \/ before = <<>>
    BY DEF Init
  <2>2. <<>> \in Seq(STRING)
    BY EmptySeq
  <2>3. arg \in Input
    BY DEF Init
  <2> QED
    BY <2>1, <2>2, <2>3
<1>2. arg \in Seq(Byte) /\ before \in Seq(Byte) /\ <<>> \in Seq(Byte)
  BY <1>1, SeqMonotonic, EmptySeq DEF Byte
<1>3. Running # Exit0
  BY DEF Running, Exit0
<1> QED
  BY <1>2, <1>3
  DEF Init, SInv, Typed, Conserved, Drained, SplitExact, MergeExact

\* extractCommand cuts at the first newline.
LEMMA ExtractCommandInv == SInv /\ ExtractCommand => SInv'
<1> SUFFICES ASSUME SInv, ExtractCommand PROVE SInv'
  OBVIOUS
<1> DEFINE pos == Find(arg)
<1>1. arg \in Seq(Byte)
  BY DEF SInv, Typed
<1>2. /\ pos \in 0..Len(arg)
      /\ pos # 0 => arg[pos] = "n"
      /\ pos # 0 => \A i \in 1..pos - 1 : arg[i] # "n"
      /\ pos = 0 => \A i \in 1..Len(arg) : arg[i] # "n"
  BY <1>1, FindIs
<1>3. /\ command' = IF pos # 0 THEN SubSeq(arg, 1, pos - 1)
                    ELSE IF fn = "extractCommand" THEN <<>> ELSE NoCommand
      /\ rest' = IF pos # 0 THEN SubSeq(arg, pos + 1, Len(arg)) ELSE arg
      /\ pc' = "done" /\ fn' = fn /\ arg' = arg /\ fn \in Extracts
  BY DEF ExtractCommand, Erase
<1> HIDE DEF pos
<1>4. SplitExact'
  <2>1. CASE pos = 0
    BY <1>2, <1>3, <2>1 DEF SplitExact
  <2>2. CASE pos # 0
    <3> DEFINE c == SubSeq(arg, 1, pos - 1)
               r == SubSeq(arg, pos + 1, Len(arg))
    <3>1. pos \in 1..Len(arg) /\ pos - 1 \in 0..Len(arg) /\ (pos - 1) + 1 = pos
      BY <1>2, <2>2
    <3>2. c \in Seq(Byte) /\ Len(c) = pos - 1
      BY <1>1, <3>1, Cut
    <3>3. \A i \in 1..Len(c) : c[i] # "n"
      <4>1. \A i \in 1..pos - 1 : c[i] = arg[i]
        BY <1>1, <3>1
      <4> HIDE DEF c
      <4> QED
        BY <1>2, <2>2, <3>2, <4>1
    <3>4. arg = c \o SubSeq(arg, pos, Len(arg))
      BY <1>1, <3>1, Cut
    <3>5. SubSeq(arg, pos, Len(arg)) = <<"n">> \o r
      <4>1. Len(arg) \in pos..Len(arg)
        BY <1>1, <3>1
      <4>2. SubSeq(arg, pos, Len(arg)) = <<arg[pos]>> \o r
        BY <1>1, <3>1, <4>1, SubSeqRecursiveFirst
      <4> QED
        BY <1>2, <2>2, <4>2
    <3>6. r \in Seq(Byte) /\ <<"n">> \in Seq(Byte)
      <4>1. "n" \in Byte
        BY DEF Byte
      <4>2. r \in Seq(Byte)
        BY <1>1, <3>1, Cut
      <4> QED
        BY <4>1, <4>2
    <3>7. c \o (<<"n">> \o r) = c \o <<"n">> \o r
      <4> HIDE DEF c, r
      <4> QED
        BY <3>2, <3>6, Assoc, Zenon
    <3>8. arg = c \o <<"n">> \o r
      BY <3>4, <3>5, <3>7, Zenon
    <3>9. arg' = arg /\ command' = c /\ rest' = r
      BY <1>3, <2>2
    <3> HIDE DEF c, r
    <3> QED
      BY <3>3, <3>8, <3>9, <1>2, <2>2, <3>1 DEF SplitExact
  <2> QED
    BY <2>1, <2>2
<1>5. MergeExact'
  BY <1>3 DEF MergeExact, Merges, Extracts
<1>6. Typed' /\ Conserved' /\ Drained'
  BY <1>3 DEF SInv, Typed, Conserved, Drained, ExtractCommand
<1> QED
  BY <1>4, <1>5, <1>6 DEF SInv

\* popen(): all that the command will write is unwritten.
LEMMA PopenInv == SInv /\ Popen => SInv'
<1> SUFFICES ASSUME SInv, Popen PROVE SInv'
  OBVIOUS
<1>1. arg \in Seq(Byte) /\ before \in Seq(Byte) /\ "n" \in Byte /\ pipe = <<>>
  BY DEF SInv, Typed, Drained, Popen, Byte
<1>2. Append(arg, "n") \in Seq(Byte) /\ <<"n">> \in Seq(Byte)
  BY <1>1
<1>3. Append(arg, "n") = arg \o <<"n">>
  BY <1>1, AppendIsConcat
<1>4. before \o (<<>> \o Append(arg, "n")) = (before \o arg) \o <<"n">>
  <2>1. <<>> \o Append(arg, "n") = Append(arg, "n")
    BY <1>2, ConcatEmptySeq
  <2> QED
    BY <1>1, <1>2, <1>3, <2>1, ConcatAssociative
<1>5. Typed'
  <2>1. arg \in Input /\ unwritten' \in EchoOutput[arg]
    BY DEF SInv, Typed, Popen
  <2>2. unwritten' \in Seq(STRING)
    BY <2>1, EchoAssumption
  <2>3. unwritten' \in Seq(Byte)
    BY <2>2, SeqMonotonic DEF Byte
  <2> QED
    BY <1>1, <2>3 DEF SInv, Typed, Popen
<1>6. Conserved'
  <2>1. arg \in Input /\ unwritten' \in EchoOutput[arg]
    BY DEF SInv, Typed, Popen
  <2>2. Quotable(arg) => unwritten' = Append(arg, "n")
    BY <2>1, EchoAssumption
  <2>3. /\ result' = before /\ pipe' = <<>> /\ arg' = arg /\ before' = before
        /\ fn' = fn /\ fn \in Merges
    BY <1>1 DEF Popen
  <2>4. Quotable(arg)' = Quotable(arg)
    BY <2>3 DEF Quotable
  <2> QED
    BY <1>4, <2>2, <2>3, <2>4, Zenon DEF Conserved
<1>7. Drained'
  BY <1>1 DEF Drained, Popen, Running, Exit0
<1> QED
  BY <1>5, <1>6, <1>7 DEF SInv, SplitExact, MergeExact, Popen

\* A failing popen() gives no value, or an exception.
LEMMA PopenFailsInv == SInv /\ PopenFails => SInv'
<1> SUFFICES ASSUME SInv, PopenFails PROVE SInv'
  OBVIOUS
<1>1. rc' = Running /\ Running # Exit0 /\ (pc' = "done" => result' = NoValue)
  BY DEF SInv, Drained, PopenFails, Running, Exit0
<1>2. pc' \in {"done", "threw"} /\ fn' = fn /\ fn \in Merges
  BY DEF PopenFails
<1>3. MergeExact' /\ SplitExact'
  BY <1>1, <1>2 DEF MergeExact, SplitExact, Merges, Extracts
<1>4. Typed' /\ Conserved' /\ Drained'
  BY <1>1, <1>2 DEF SInv, Typed, Conserved, Drained, PopenFails
<1> QED
  BY <1>3, <1>4 DEF SInv

\* fread and fgets move bytes from the pipe to the buffer.
LEMMA ReadInv == SInv /\ Read => SInv'
<1> SUFFICES ASSUME SInv, Read PROVE SInv'
  OBVIOUS
<1> DEFINE line == fn # "mergestate/2"
           n    == IF line THEN BufSize - 1 ELSE BufSize
           s    == Piece(n, line)
           r    == SubSeq(pipe, Len(s) + 1, Len(pipe))
<1>1. n \in Nat /\ n > 0 /\ line \in BOOLEAN
  OBVIOUS
<1>2. /\ pipe \in Seq(Byte) /\ unwritten \in Seq(Byte) /\ result \in Seq(Byte)
      /\ pc = "read" /\ fn \in Merges
      /\ Quotable(arg) => result \o (pipe \o unwritten) = (before \o arg) \o <<"n">>
  BY DEF SInv, Typed, Conserved, Read
<1>3. /\ result' = result \o s /\ pipe' = r
      /\ pc' = IF LoopEnds(s, n, line) THEN "pclose" ELSE "read"
      /\ UNCHANGED <<fn, arg, before, rest, command, unwritten, rc>>
  BY DEF Read
<1>4. /\ Len(s) \in 0..Len(pipe) /\ s = SubSeq(pipe, 1, Len(s))
      /\ LoopEnds(s, n, line) => Len(s) = Len(pipe)
  <2> HIDE DEF line, n
  <2> QED
    BY <1>1, <1>2, PieceIs
<1> HIDE DEF line, n, s
<1>5. /\ s \in Seq(Byte) /\ r \in Seq(Byte) /\ Len(r) = Len(pipe) - Len(s)
      /\ pipe = s \o r
  BY <1>2, <1>4, Cut
<1>6. LoopEnds(s, n, line) => r = <<>>
  <2> SUFFICES ASSUME LoopEnds(s, n, line) PROVE r = <<>>
    OBVIOUS
  <2>1. Len(r) = 0
    BY <1>2, <1>4, <1>5
  <2> HIDE DEF r
  <2> QED
    BY <1>5, <2>1, EmptySeq
<1> HIDE DEF r
<1>7. (result \o s) \o (r \o unwritten) = result \o (pipe \o unwritten)
  <2>1. (result \o s) \o (r \o unwritten) = result \o ((s \o r) \o unwritten)
    <3>1. result \in Seq(Byte) /\ unwritten \in Seq(Byte) /\ s \in Seq(Byte) /\ r \in Seq(Byte)
      BY <1>2, <1>5
    <3>2. \A y, z, w \in Seq(Byte) :
            (result \o y) \o (z \o w) = result \o ((y \o z) \o w)
      BY <3>1, Regroup, Zenon
    <3>3. \A z, w \in Seq(Byte) : (result \o s) \o (z \o w) = result \o ((s \o z) \o w)
      BY <3>1, <3>2, Zenon
    <3>4. \A w \in Seq(Byte) : (result \o s) \o (r \o w) = result \o ((s \o r) \o w)
      BY <3>1, <3>3, Zenon
    <3> QED
      BY <3>1, <3>4, Zenon
  <2> QED
    BY <1>5, <2>1
<1>8. Typed'
  <2>1. result \o s \in Seq(Byte)
    BY <1>2, <1>5
  <2> QED
    BY <1>3, <1>5, <2>1 DEF SInv, Typed
<1>9. Conserved'
  BY <1>2, <1>3, <1>7 DEF Conserved, Quotable
<1>10. Drained'
  BY <1>3, <1>6 DEF SInv, Drained
<1>11. SplitExact' /\ MergeExact'
  BY <1>3 DEF SplitExact, MergeExact
<1> QED
  BY <1>8, <1>9, <1>10, <1>11 DEF SInv

\* After pclose() the line breaks are removed, the added newline with them.
LEMMA PcloseInv == SInv /\ Pclose => SInv'
<1> SUFFICES ASSUME SInv, Pclose PROVE SInv'
  OBVIOUS
<1> DEFINE B == before \o arg
<1>1. /\ result \in Seq(Byte) /\ unwritten \in Seq(Byte) /\ B \in Seq(Byte)
      /\ fn \in Merges /\ pipe = <<>>
      /\ rc = Exit0 => unwritten = <<>>
      /\ Quotable(arg) => result \o (<<>> \o unwritten) = B \o <<"n">>
  <2>1. result \in Seq(Byte) /\ unwritten \in Seq(Byte) /\ B \in Seq(Byte) /\ fn \in Merges
    <3>1. before \in Seq(Byte) /\ arg \in Seq(Byte)
      BY DEF SInv, Typed
    <3>2. before \o arg \in Seq(Byte)
      BY <3>1, ConcatProperties, SMT
    <3>3. pc = "pclose" /\ fn \in Merges
      BY DEF SInv, Conserved, Pclose
    <3>4. result \in Seq(Byte) /\ unwritten \in Seq(Byte)
      BY <3>3 DEF SInv, Typed
    <3> QED
      BY <3>2, <3>3, <3>4
  <2>2. pipe = <<>> /\ (rc = Exit0 => unwritten = <<>>)
    BY DEF SInv, Drained, Pclose
  <2>3. Quotable(arg) => result \o (pipe \o unwritten) = B \o <<"n">>
    BY <2>1 DEF SInv, Conserved, Pclose
  <2> QED
    BY <2>1, <2>2, <2>3
<1> HIDE DEF B
<1>2. Quotable(arg) => result \o unwritten = B \o <<"n">>
  <2>1. <<>> \o unwritten = unwritten
    BY <1>1, ConcatEmptySeq
  <2> QED
    BY <1>1, <2>1
<1>3. Unbroken(B \o <<"n">>) = Unbroken(B)
  BY <1>1, UnbrokenNewline
<1>4. RemoveBreaks(result) = Unbroken(result)
  BY <1>1, RemoveBreaksIs
<1>5. Quotable(arg) => IsPrefix(Unbroken(result), Unbroken(B))
  <2>1. IsPrefix(Unbroken(result), Unbroken(result \o unwritten))
    BY <1>1, UnbrokenPrefix
  <2> QED
    BY <1>2, <1>3, <2>1
<1>6. rc = Exit0 /\ Quotable(arg) => Unbroken(result) = Unbroken(B)
  <2> SUFFICES ASSUME rc = Exit0, Quotable(arg) PROVE Unbroken(result) = Unbroken(B)
    OBVIOUS
  <2>1. result \o <<>> = result
    BY <1>1, ConcatEmptySeq
  <2>2. result = B \o <<"n">>
    BY <1>1, <1>2, <2>1
  <2> QED
    BY <1>3, <2>2
<1>7. /\ pc' = "done" /\ fn' = fn /\ rc' = rc /\ arg' = arg /\ before' = before
      /\ result' = NoValue \/ result' = Unbroken(result)
      /\ rc # EXIT_FAILURE => result' = Unbroken(result)
  BY <1>4 DEF Pclose
<1>8. MergeExact'
  <2>1. (before \o arg)' = B
    BY <1>7 DEF B
  <2>2. Exit0 # EXIT_FAILURE
    BY DEF Exit0, EXIT_FAILURE
  <2>3. Quotable(arg)' = Quotable(arg)
    BY <1>7 DEF Quotable
  <2> QED
    BY <1>5, <1>6, <1>7, <2>1, <2>2, <2>3 DEF MergeExact
<1>9. SplitExact'
  BY <1>1, <1>7 DEF SplitExact, Extracts, Merges
<1>10. Typed' /\ Conserved' /\ Drained'
  BY <1>7 DEF SInv, Typed, Conserved, Drained, Pclose
<1> QED
  BY <1>8, <1>9, <1>10 DEF SInv

\* echo moves bytes to the pipe.
LEMMA WriteInv == SInv /\ Write => SInv'
<1> SUFFICES ASSUME SInv, Write PROVE SInv'
  OBVIOUS
<1>1. PICK n \in 1..Len(unwritten) :
        /\ pipe' = pipe \o SubSeq(unwritten, 1, n)
        /\ unwritten' = SubSeq(unwritten, n + 1, Len(unwritten))
  BY DEF Write
<1> DEFINE w == SubSeq(unwritten, 1, n)
           u == SubSeq(unwritten, n + 1, Len(unwritten))
<1>2. /\ pipe \in Seq(Byte) /\ unwritten \in Seq(Byte) /\ pc = "read" /\ rc = Running
      /\ UNCHANGED <<fn, arg, before, pc, rest, command, result, rc>>
  BY DEF SInv, Typed, Write
<1>3. w \in Seq(Byte) /\ u \in Seq(Byte) /\ unwritten = w \o u
  <2>1. n \in 0..Len(unwritten)
    BY <1>2
  <2> QED
    BY <1>2, <2>1, Cut
<1> HIDE DEF w, u
<1>4. (pipe \o w) \o u = pipe \o unwritten
  BY <1>2, <1>3, ConcatAssociative
<1>5. pipe' = pipe \o w /\ unwritten' = u
  BY <1>1 DEF w, u
<1>6. Typed'
  BY <1>2, <1>3, <1>5 DEF SInv, Typed
<1>7. Conserved'
  BY <1>2, <1>4, <1>5 DEF SInv, Conserved, Quotable
<1>8. Drained'
  BY <1>2 DEF Drained, Running, Exit0
<1>9. SplitExact' /\ MergeExact'
  BY <1>2 DEF SplitExact, MergeExact
<1> QED
  BY <1>6, <1>7, <1>8, <1>9 DEF SInv

\* The shell succeeds only when echo has written everything.
LEMMA ExitInv == SInv /\ Exit => SInv'
<1> SUFFICES ASSUME SInv, Exit PROVE SInv'
  OBVIOUS
<1>1. /\ pc = "read" /\ (rc' = Exit0 => unwritten = <<>>)
      /\ UNCHANGED <<fn, arg, before, pc, rest, command, result, unwritten, pipe>>
  BY DEF Exit
<1> QED
  BY <1>1 DEF SInv, Typed, Conserved, Drained, SplitExact, MergeExact

\* Every step keeps the invariant.
LEMMA NextInv == SInv /\ [Next]_vars => SInv'
<1>1. SInv /\ UNCHANGED vars => SInv'
  BY DEF vars, SInv, Typed, Conserved, Drained, SplitExact, MergeExact
<1> QED
  BY <1>1, ExtractCommandInv, PopenInv, PopenFailsInv, ReadInv, PcloseInv, WriteInv, ExitInv
  DEF Next, Caller, Shell, Returned

\* The invariant SInv holds in every state of a call.
THEOREM Invariance == Spec => []SInv
BY InitInv, NextInv, PTL DEF Spec

\* extractCommand (both overloads) loses nothing but the newline, for strings of
\* any length.
THEOREM SplitsExactly == Spec => []SplitExact
<1>1. SInv => SplitExact
  BY DEF SInv
<1> QED
  BY <1>1, Invariance, PTL

\* mergestate and optMergeState return a state that can be quoted without its
\* line breaks, for strings and buffers of any length and however the shell cuts
\* its output up; if the shell fails or dies, a beginning of it.
THEOREM MergesExactly == Spec => []MergeExact
<1>1. SInv => MergeExact
  BY DEF SInv
<1> QED
  BY <1>1, Invariance, PTL
==============================================================================
