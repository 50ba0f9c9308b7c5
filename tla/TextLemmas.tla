----------------------------- MODULE TextLemmas -----------------------------
(***************************************************************************)
(* Lemmas about Text and the recursive FlattenSeq below it, for sequences  *)
(* of any length.  Induction is by a set that holds 0, or the empty        *)
(* sequence, and is closed under the successor, or under Append.           *)
(***************************************************************************)
EXTENDS Text, SequenceTheorems, WellFoundedInduction, TLAPS

-----------------------------------------------------------------------------
(***************************************************************************)
(* Induction.                                                              *)
(***************************************************************************)

(* A set of natural numbers that is not empty has a least one.              *)
LEMMA Smallest ==
    ASSUME NEW S \in SUBSET Nat, S # {}
    PROVE  \E x \in S : \A y \in S : x <= y
<1>1. PICK x \in S : \A y \in S : ~ (<<y, x>> \in OpToRel(<, Nat))
  BY NatLessThanWellFounded, WFMin, Zenon
<1>2. \A y \in S : ~ (y < x)
  BY <1>1, Zenon DEF OpToRel
<1> QED BY <1>2

(* What holds of 0 and of the successor of each of its members is Nat.      *)
LEMMA Induction ==
    ASSUME NEW S \in SUBSET Nat, 0 \in S, \A n \in S : n + 1 \in S
    PROVE  S = Nat
<1> SUFFICES ASSUME Nat \ S # {} PROVE FALSE
  OBVIOUS
<1>1. PICK x \in Nat \ S : \A y \in Nat \ S : x <= y
  BY Smallest
<1>2. x - 1 \in Nat /\ ~ (x <= x - 1) /\ (x - 1) + 1 = x
  OBVIOUS
<1>3. x - 1 \in S
  BY <1>1, <1>2
<1> QED BY <1>2, <1>3

(* A set of sequences with the empty one and with whatever appending to a   *)
(* member gives holds them all.                                             *)
LEMMA SeqInduction ==
    ASSUME NEW T, NEW P \in SUBSET Seq(T), <<>> \in P,
           \A s \in P, e \in T : Append(s, e) \in P
    PROVE  P = Seq(T)
<1> DEFINE S == {n \in Nat : \A s \in Seq(T) : Len(s) = n => s \in P}
<1>1. 0 \in S
  OBVIOUS
<1>2. ASSUME NEW n \in S PROVE n + 1 \in S
  <2> SUFFICES ASSUME NEW s \in Seq(T), Len(s) = n + 1 PROVE s \in P
    OBVIOUS
  <2>1. s # <<>>
    OBVIOUS
  <2>2. PICK r \in Seq(T), e \in T : s = Append(r, e)
    BY <2>1, SequenceEmptyOrAppend, Zenon
  <2>3. Len(r) = n
    BY <2>2
  <2>4. r \in P
    BY <2>3
  <2> QED BY <2>2, <2>4
<1>3. S = Nat
  <2> HIDE DEF S
  <2>1. S \in SUBSET Nat
    BY DEF S
  <2> QED BY <1>1, <1>2, <2>1, Induction
<1>4. ASSUME NEW s \in Seq(T) PROVE s \in P
  <2>1. Len(s) \in S
    BY <1>3
  <2> QED BY <2>1
<1> QED BY <1>4

(* The largest and the smallest position of a set of positions.             *)
LEMMA MaxIn ==
    ASSUME NEW n \in Nat, NEW S \in SUBSET (1..n), S # {}
    PROVE  Max(S) \in S /\ \A y \in S : y <= Max(S)
<1> DEFINE Above == {u \in Nat : \A y \in S : y <= u}
<1>1. n \in Above
  OBVIOUS
<1>2. PICK u \in Above : \A v \in Above : u <= v
  BY <1>1, Smallest
<1>3. u \in S
  <2> SUFFICES ASSUME u \notin S PROVE FALSE
    OBVIOUS
  <2>0. PICK w \in S : TRUE
    OBVIOUS
  <2>1. u \in Nat /\ \A y \in S : y <= u /\ y # u /\ y \in Nat /\ y >= 1
    OBVIOUS
  <2>2. u - 1 \in Nat /\ \A y \in S : y <= u - 1
    BY <2>0, <2>1
  <2>3. u - 1 \in Above /\ ~ (u <= u - 1)
    BY <2>1, <2>2
  <2> QED BY <1>2, <2>3
<1>4. \E x \in S : \A y \in S : x >= y
  BY <1>3
<1>5. Max(S) \in S /\ \A y \in S : Max(S) >= y
  BY <1>4, Zenon DEF Max
<1> QED BY <1>5

(* The least element of a set of positions.                                 *)
LEMMA MinIn ==
    ASSUME NEW n \in Nat, NEW S \in SUBSET (1..n), S # {}
    PROVE  Min(S) \in S /\ \A y \in S : Min(S) <= y
<1>1. \E x \in S : \A y \in S : x <= y
  <2>1. S \in SUBSET Nat
    OBVIOUS
  <2> QED BY <2>1, Smallest
<1> QED BY <1>1, Zenon DEF Min

-----------------------------------------------------------------------------
(***************************************************************************)
(* FlattenSeq.                                                             *)
(***************************************************************************)

\* f is the function that FlattenSeq defines by recursion, up to n.
Flattens(seqs, n, f) ==
    f = [i \in 1..n |-> IF i = 1 THEN seqs[i] ELSE f[i - 1] \o seqs[i]]

(* The defining equation, at one position.                                  *)
LEMMA FlattensAt ==
    ASSUME NEW seqs, NEW n, NEW f, Flattens(seqs, n, f), NEW i \in 1..n
    PROVE  f[i] = IF i = 1 THEN seqs[i] ELSE f[i - 1] \o seqs[i]
<1> DEFINE g == [j \in 1..n |-> IF j = 1 THEN seqs[j] ELSE f[j - 1] \o seqs[j]]
<1>1. f = g
  BY DEF Flattens
<1>2. g[i] = IF i = 1 THEN seqs[i] ELSE f[i - 1] \o seqs[i]
  OBVIOUS
<1> HIDE DEF g
<1> QED BY <1>1, <1>2

(* There is such a function for every length.                               *)
LEMMA FlattensExists == \A seqs : \A n \in Nat : \E f : Flattens(seqs, n, f)
<1> SUFFICES ASSUME NEW seqs PROVE \A n \in Nat : \E f : Flattens(seqs, n, f)
  OBVIOUS
<1> DEFINE S == {n \in Nat : \E f : Flattens(seqs, n, f)}
<1>1. 0 \in S
  <2>1. Flattens(seqs, 0, <<>>)
    BY DEF Flattens
  <2> QED BY <2>1
<1>2. ASSUME NEW n \in S PROVE n + 1 \in S
  <2>1. PICK f : Flattens(seqs, n, f)
    OBVIOUS
  <2> DEFINE g == [i \in 1..n + 1 |-> IF i = 1 THEN seqs[i] ELSE f[i - 1] \o seqs[i]]
  <2>2. \A i \in 1..n : g[i] = f[i]
    BY <2>1, FlattensAt
  <2>3. \A i \in 1..n + 1 : i # 1 => i - 1 \in 1..n
    OBVIOUS
  <2>4. g = [i \in 1..n + 1 |-> IF i = 1 THEN seqs[i] ELSE g[i - 1] \o seqs[i]]
    BY <2>2, <2>3
  <2>5. Flattens(seqs, n + 1, g)
    BY <2>4 DEF Flattens
  <2> QED BY <2>5
<1>3. S = Nat
  <2> HIDE DEF S
  <2>1. S \in SUBSET Nat
    BY DEF S
  <2> QED BY <1>1, <1>2, <2>1, Induction
<1> QED BY <1>3

(* FlattenSeq does satisfy its recursive equation.                          *)
LEMMA FlattenDef ==
    ASSUME NEW seqs, Len(seqs) \in Nat, Len(seqs) # 0
    PROVE  \E f : Flattens(seqs, Len(seqs), f) /\ FlattenSeq(seqs) = f[Len(seqs)]
<1> DEFINE f == CHOOSE g : Flattens(seqs, Len(seqs), g)
<1>1. Flattens(seqs, Len(seqs), f)
  BY FlattensExists, Zenon
<1>2. FlattenSeq(seqs) = f[Len(seqs)]
  BY Zenon DEF FlattenSeq, Flattens
<1> QED BY <1>1, <1>2

(* What is flattened from a common prefix is the same.                      *)
LEMMA FlattensAgree ==
    ASSUME NEW s, NEW t, NEW n \in Nat, NEW f, NEW g,
           Flattens(s, n, f), Flattens(t, n + 1, g), \A i \in 1..n : s[i] = t[i]
    PROVE  \A i \in 1..n : f[i] = g[i]
<1> DEFINE S == {k \in Nat : k \in 1..n => f[k] = g[k]}
<1>1. 0 \in S
  OBVIOUS
<1>2. ASSUME NEW k \in S PROVE k + 1 \in S
  <2> SUFFICES ASSUME k + 1 \in 1..n PROVE f[k + 1] = g[k + 1]
    OBVIOUS
  <2>1. /\ f[k + 1] = IF k + 1 = 1 THEN s[k + 1] ELSE f[(k + 1) - 1] \o s[k + 1]
        /\ g[k + 1] = IF k + 1 = 1 THEN t[k + 1] ELSE g[(k + 1) - 1] \o t[k + 1]
    <3>1. k + 1 \in 1..n + 1
      OBVIOUS
    <3> QED BY <3>1, FlattensAt
  <2>2. s[k + 1] = t[k + 1] /\ (k + 1) - 1 = k
    OBVIOUS
  <2>3. k + 1 # 1 => f[k] = g[k]
    OBVIOUS
  <2> QED BY <2>1, <2>2, <2>3
<1>3. S = Nat
  <2> HIDE DEF S
  <2>1. S \in SUBSET Nat
    BY DEF S
  <2> QED BY <1>1, <1>2, <2>1, Induction
<1> QED BY <1>3

(* The last of n + 1 steps.                                                 *)
LEMMA FlattensLast ==
    ASSUME NEW seqs, NEW n \in Nat, NEW f, Flattens(seqs, n + 1, f)
    PROVE  f[n + 1] = IF n = 0 THEN seqs[n + 1] ELSE f[n] \o seqs[n + 1]
<1>1. n + 1 \in 1..n + 1 /\ (n + 1) - 1 = n /\ (n + 1 = 1 <=> n = 0)
  OBVIOUS
<1> DEFINE k == n + 1
<1>2. \A i \in 1..k : f[i] = IF i = 1 THEN seqs[i] ELSE f[i - 1] \o seqs[i]
  <2> HIDE DEF k
  <2>1. Flattens(seqs, k, f)
    BY DEF k
  <2> QED BY <2>1, FlattensAt
<1>3. f[k] = IF k = 1 THEN seqs[k] ELSE f[k - 1] \o seqs[k]
  BY <1>1, <1>2
<1> QED BY <1>1, <1>3

(* Nothing is flattened to nothing.                                         *)
LEMMA FlattenEmpty == FlattenSeq(<<>>) = <<>>
  BY DEF FlattenSeq

(* One sequence more is appended to what is flattened.                      *)
LEMMA FlattenMore ==
    ASSUME NEW seqs, NEW more, NEW n \in Nat, Len(seqs) = n, Len(more) = n + 1,
           \A i \in 1..n : seqs[i] = more[i]
    PROVE  FlattenSeq(more) =
             IF n = 0 THEN more[n + 1] ELSE FlattenSeq(seqs) \o more[n + 1]
<1>1. PICK g : Flattens(more, n + 1, g) /\ FlattenSeq(more) = g[n + 1]
  <2>1. Len(more) \in Nat /\ Len(more) # 0
    OBVIOUS
  <2> QED BY <2>1, FlattenDef
<1>2. g[n + 1] = IF n = 0 THEN more[n + 1] ELSE g[n] \o more[n + 1]
  BY <1>1, FlattensLast
<1>3. ASSUME n # 0 PROVE FlattenSeq(seqs) = g[n]
  <2>1. PICK f : Flattens(seqs, n, f) /\ FlattenSeq(seqs) = f[n]
    BY <1>3, FlattenDef
  <2>2. \A i \in 1..n : f[i] = g[i]
    BY <1>1, <2>1, FlattensAgree
  <2> QED BY <1>3, <2>1, <2>2
<1> QED BY <1>1, <1>2, <1>3

(* One sequence is flattened to itself.                                     *)
LEMMA FlattenOne == \A x : FlattenSeq(<<x>>) = x
<1> TAKE x
<1>1. PICK one : one = <<x>>
  OBVIOUS
<1>2. Len(<<>>) = 0 /\ Len(one) = 0 + 1 /\ one[0 + 1] = x /\ 1..0 = {}
  BY <1>1
<1>3. FlattenSeq(one) = one[0 + 1]
  BY <1>2, FlattenMore
<1> QED BY <1>1, <1>2, <1>3

(* The same for a typed sequence of sequences.                              *)
LEMMA FlattenAppend ==
    ASSUME NEW T, NEW seqs \in Seq(Seq(T)), NEW s \in Seq(T),
           FlattenSeq(seqs) \in Seq(T)
    PROVE  /\ FlattenSeq(Append(seqs, s)) = FlattenSeq(seqs) \o s
           /\ FlattenSeq(Append(seqs, s)) \in Seq(T)
<1> DEFINE more == Append(seqs, s)
           n == Len(seqs)
<1>1. /\ n \in Nat /\ Len(more) = n + 1 /\ more[n + 1] = s
      /\ \A i \in 1..n : seqs[i] = more[i]
  OBVIOUS
<1>2. FlattenSeq(more) = IF n = 0 THEN more[n + 1] ELSE FlattenSeq(seqs) \o more[n + 1]
  <2> HIDE DEF more
  <2> QED BY <1>1, FlattenMore
<1>3. n = 0 => FlattenSeq(seqs) = <<>>
  <2>1. n = 0 => seqs = <<>>
    BY EmptySeq
  <2> QED BY <2>1, FlattenEmpty
<1>4. <<>> \o s = s
  OBVIOUS
<1>5. FlattenSeq(more) = FlattenSeq(seqs) \o s
  BY <1>1, <1>2, <1>3, <1>4
<1> QED BY <1>5

(* Sequences of T are flattened to a sequence of T.                         *)
LEMMA FlattenType ==
    ASSUME NEW T, NEW seqs \in Seq(Seq(T))
    PROVE  FlattenSeq(seqs) \in Seq(T)
<1> DEFINE P == {s \in Seq(Seq(T)) : FlattenSeq(s) \in Seq(T)}
<1>1. <<>> \in P
  <2>1. <<>> \in Seq(Seq(T)) /\ <<>> \in Seq(T)
    BY EmptySeq
  <2> QED BY <2>1, FlattenEmpty
<1>2. ASSUME NEW s \in P, NEW e \in Seq(T) PROVE Append(s, e) \in P
  BY FlattenAppend
<1>3. P = Seq(Seq(T))
  <2> HIDE DEF P
  <2>1. P \in SUBSET Seq(Seq(T))
    BY DEF P
  <2> QED BY <1>1, <1>2, <2>1, SeqInduction
<1> QED BY <1>3

(* Flattening distributes over concatenation.                               *)
LEMMA FlattenConcat ==
    ASSUME NEW T, NEW s \in Seq(Seq(T)), NEW t \in Seq(Seq(T))
    PROVE  FlattenSeq(s \o t) = FlattenSeq(s) \o FlattenSeq(t)
<1> DEFINE P == {r \in Seq(Seq(T)) : FlattenSeq(s \o r) = FlattenSeq(s) \o FlattenSeq(r)}
<1>1. <<>> \in P
  <2>1. /\ <<>> \in Seq(Seq(T)) /\ s \o <<>> = s
        /\ FlattenSeq(s) \o <<>> = FlattenSeq(s)
    BY FlattenType, EmptySeq
  <2> QED BY <2>1, FlattenEmpty
<1>2. ASSUME NEW r \in P, NEW e \in Seq(T) PROVE Append(r, e) \in P
  <2>1. r \in Seq(Seq(T)) /\ s \o r \in Seq(Seq(T))
    OBVIOUS
  <2>2. s \o Append(r, e) = Append(s \o r, e)
    BY <2>1
  <2>3. /\ FlattenSeq(s) \in Seq(T) /\ FlattenSeq(r) \in Seq(T)
        /\ FlattenSeq(s \o r) \in Seq(T)
    BY <2>1, FlattenType
  <2>4. /\ FlattenSeq(Append(s \o r, e)) = FlattenSeq(s \o r) \o e
        /\ FlattenSeq(Append(r, e)) = FlattenSeq(r) \o e
    BY <2>1, <2>3, FlattenAppend
  <2>5. (FlattenSeq(s) \o FlattenSeq(r)) \o e = FlattenSeq(s) \o (FlattenSeq(r) \o e)
    BY <2>3, ConcatAssociative
  <2>6. FlattenSeq(s \o Append(r, e)) = FlattenSeq(s) \o FlattenSeq(Append(r, e))
    <3>1. FlattenSeq(s \o r) = FlattenSeq(s) \o FlattenSeq(r)
      OBVIOUS
    <3> QED BY <3>1, <2>2, <2>4, <2>5
  <2>7. Append(r, e) \in Seq(Seq(T))
    BY <2>1
  <2> QED BY <2>6, <2>7
<1>3. P = Seq(Seq(T))
  <2> HIDE DEF P
  <2>1. P \in SUBSET Seq(Seq(T))
    BY DEF P
  <2> QED BY <1>1, <1>2, <2>1, SeqInduction
<1> QED BY <1>3
-----------------------------------------------------------------------------
(***************************************************************************)
(* Kept.                                                                   *)
(***************************************************************************)

\* The pieces that Kept flattens.
Pieces(seq, positions) ==
    [i \in DOMAIN seq |-> IF i \in positions THEN <<seq[i]>> ELSE <<>>]

(* The pieces hold nothing but what is kept.                                *)
LEMMA PiecesType ==
    ASSUME NEW T, NEW seq \in Seq(T), NEW K
    PROVE  /\ Pieces(seq, K) \in Seq(Seq({seq[i] : i \in K \cap DOMAIN seq}))
           /\ Len(Pieces(seq, K)) = Len(seq)
           /\ \A i \in DOMAIN seq : Pieces(seq, K)[i] = IF i \in K THEN <<seq[i]>> ELSE <<>>
<1> DEFINE R == {seq[i] : i \in K \cap DOMAIN seq}
           n == Len(seq)
<1>1. n \in Nat /\ DOMAIN seq = 1..n
  OBVIOUS
<1>2. \A i \in 1..n : (IF i \in K THEN <<seq[i]>> ELSE <<>>) \in Seq(R)
  <2> TAKE i \in 1..n
  <2>1. CASE i \in K
    <3>1. seq[i] \in R
      BY <1>1, <2>1
    <3> HIDE DEF R
    <3> QED BY <2>1, <3>1
  <2>2. CASE i \notin K
    BY <2>2, EmptySeq
  <2> QED BY <2>1, <2>2
<1>3. Pieces(seq, K) = [i \in 1..n |-> IF i \in K THEN <<seq[i]>> ELSE <<>>]
  BY <1>1 DEF Pieces
<1>4. Pieces(seq, K) \in [1..n -> Seq(R)]
  <2> HIDE DEF R, n
  <2> QED BY <1>2, <1>3
<1>5. Pieces(seq, K) \in Seq(Seq(R)) /\ Len(Pieces(seq, K)) = n
  <2> HIDE DEF R, n
  <2> QED BY <1>1, <1>4
<1>6. \A i \in DOMAIN seq : Pieces(seq, K)[i] = IF i \in K THEN <<seq[i]>> ELSE <<>>
  BY DEF Pieces
<1> QED BY <1>5, <1>6

(* There is one piece for each position.                                    *)
LEMMA PiecesIn ==
    ASSUME NEW T, NEW seq \in Seq(T), NEW K
    PROVE  Pieces(seq, K) \in Seq(Seq(T)) /\ Len(Pieces(seq, K)) = Len(seq)
<1>1. PICK R : R = {seq[i] : i \in K \cap DOMAIN seq}
  OBVIOUS
<1>2. R \subseteq T
  BY <1>1
<1>3. Pieces(seq, K) \in Seq(Seq(R)) /\ Len(Pieces(seq, K)) = Len(seq)
  BY <1>1, PiecesType
<1>4. Seq(R) \subseteq Seq(T)
  BY <1>2, SeqMonotonic
<1> QED BY <1>3, <1>4, SeqMonotonic

(* What is kept are elements of the sequence at the positions asked for.    *)
LEMMA KeptRange ==
    ASSUME NEW T, NEW seq \in Seq(T), NEW K
    PROVE  Kept(seq, K) \in Seq({seq[i] : i \in K \cap DOMAIN seq})
<1>1. Kept(seq, K) = FlattenSeq(Pieces(seq, K))
  BY DEF Kept, Pieces
<1>2. Pieces(seq, K) \in Seq(Seq({seq[i] : i \in K \cap DOMAIN seq}))
  BY PiecesType
<1> QED BY <1>1, <1>2, FlattenType

(* What is kept of a sequence of T is a sequence of T.                      *)
LEMMA KeptType ==
    ASSUME NEW T, NEW seq \in Seq(T), NEW K
    PROVE  Kept(seq, K) \in Seq(T)
<1> DEFINE R == {seq[i] : i \in K \cap DOMAIN seq}
<1>1. R \subseteq T
  OBVIOUS
<1>2. Kept(seq, K) \in Seq(R)
  BY KeptRange
<1> HIDE DEF R
<1> QED BY <1>1, <1>2, SeqMonotonic

(* Nothing is kept where no position is asked for.                          *)
LEMMA KeptNone ==
    ASSUME NEW T, NEW seq \in Seq(T), NEW K, K \cap DOMAIN seq = {}
    PROVE  Kept(seq, K) = <<>>
<1>1. {seq[i] : i \in K \cap DOMAIN seq} = {}
  OBVIOUS
<1>2. Kept(seq, K) \in Seq({})
  BY <1>1, KeptRange
<1> QED BY <1>2, EmptySeq, ElementOfSeq

(* Only positions of the sequence matter.                                   *)
LEMMA KeptSame ==
    ASSUME NEW seq, NEW K, NEW L, \A i \in DOMAIN seq : i \in K <=> i \in L
    PROVE  Kept(seq, K) = Kept(seq, L)
<1>1. Pieces(seq, K) = Pieces(seq, L)
  BY DEF Pieces
<1> QED BY <1>1 DEF Kept, Pieces

(* What is kept of a concatenation is what is kept of its parts.            *)
LEMMA KeptConcat ==
    ASSUME NEW T, NEW s \in Seq(T), NEW t \in Seq(T), NEW K, NEW L,
           \A i \in 1..Len(t) : i \in L <=> Len(s) + i \in K
    PROVE  Kept(s \o t, K) = Kept(s, K) \o Kept(t, L)
<1>1. /\ Pieces(s \o t, K) \in Seq(Seq(T)) /\ Len(Pieces(s \o t, K)) = Len(s) + Len(t)
      /\ Pieces(s, K) \in Seq(Seq(T)) /\ Len(Pieces(s, K)) = Len(s)
      /\ Pieces(t, L) \in Seq(Seq(T)) /\ Len(Pieces(t, L)) = Len(t)
  <2>1. s \o t \in Seq(T) /\ Len(s \o t) = Len(s) + Len(t)
    OBVIOUS
  <2> QED BY <2>1, PiecesIn
<1>2. \A i \in 1..Len(s) + Len(t) : Pieces(s \o t, K)[i] = (Pieces(s, K) \o Pieces(t, L))[i]
  <2> TAKE i \in 1..Len(s) + Len(t)
  <2>1. Pieces(s \o t, K)[i] = IF i \in K THEN <<(s \o t)[i]>> ELSE <<>>
    BY DEF Pieces
  <2>2. CASE i <= Len(s)
    <3>1. i \in DOMAIN s /\ (s \o t)[i] = s[i]
      BY <2>2
    <3>2. (Pieces(s, K) \o Pieces(t, L))[i] = Pieces(s, K)[i]
      BY <1>1, <2>2, ConcatProperties
    <3>3. Pieces(s, K)[i] = IF i \in K THEN <<s[i]>> ELSE <<>>
      BY <3>1 DEF Pieces
    <3> QED BY <2>1, <3>1, <3>2, <3>3
  <2>3. CASE ~ (i <= Len(s))
    <3>1. /\ i - Len(s) \in DOMAIN t /\ (s \o t)[i] = t[i - Len(s)]
          /\ Len(s) + (i - Len(s)) = i
      BY <2>3
    <3>2. (Pieces(s, K) \o Pieces(t, L))[i] = Pieces(t, L)[i - Len(s)]
      BY <1>1, <2>3, ConcatProperties
    <3>3. Pieces(t, L)[i - Len(s)] = IF i - Len(s) \in L THEN <<t[i - Len(s)]>> ELSE <<>>
      BY <3>1 DEF Pieces
    <3>4. i - Len(s) \in L <=> i \in K
      BY <3>1
    <3> QED BY <2>1, <3>1, <3>2, <3>3, <3>4
  <2> QED BY <2>2, <2>3
<1>3. Pieces(s \o t, K) = Pieces(s, K) \o Pieces(t, L)
  <2> DEFINE a == Pieces(s, K)
             b == Pieces(t, L)
             c == Pieces(s \o t, K)
             m == Len(s) + Len(t)
  <2>1. /\ a \in Seq(Seq(T)) /\ b \in Seq(Seq(T)) /\ c \in Seq(Seq(T))
        /\ Len(a) + Len(b) = m /\ Len(c) = m /\ \A i \in 1..m : c[i] = (a \o b)[i]
    BY <1>1, <1>2
  <2> HIDE DEF a, b, c, m
  <2>2. a \o b \in Seq(Seq(T)) /\ Len(a \o b) = m
    BY <2>1, ConcatProperties
  <2>3. c = a \o b
    BY <2>1, <2>2, SeqEqual
  <2> QED BY <2>3 DEF a, b, c
<1>4. FlattenSeq(Pieces(s \o t, K)) = FlattenSeq(Pieces(s, K)) \o FlattenSeq(Pieces(t, L))
  BY <1>1, <1>3, FlattenConcat
<1> QED BY <1>4 DEF Kept, Pieces

(* An element more is kept last, or not at all.                             *)
LEMMA KeptAppend ==
    ASSUME NEW T, NEW s \in Seq(T), NEW e \in T, NEW K
    PROVE  Kept(Append(s, e), K)
             = IF Len(s) + 1 \in K THEN Append(Kept(s, K), e) ELSE Kept(s, K)
<1>1. PICK one \in Seq(T) : one = <<e>>
  <2>1. <<e>> \in Seq(T)
    OBVIOUS
  <2> QED BY <2>1, Zenon
<1> DEFINE L == {i \in DOMAIN one : Len(s) + i \in K}
<1>2. Append(s, e) = s \o one
  BY <1>1
<1>3. Kept(Append(s, e), K) = Kept(s, K) \o Kept(one, L)
  <2>1. \A i \in 1..Len(one) : i \in L <=> Len(s) + i \in K
    OBVIOUS
  <2> HIDE DEF L
  <2> QED BY <1>2, <2>1, KeptConcat
<1>4. Kept(one, L) = IF Len(s) + 1 \in K THEN <<e>> ELSE <<>>
  <2>1. Pieces(one, L) = << IF Len(s) + 1 \in K THEN <<e>> ELSE <<>> >>
    BY <1>1 DEF Pieces
  <2> QED BY <2>1, FlattenOne DEF Kept, Pieces
<1>5. Kept(s, K) \in Seq(T)
  BY KeptType
<1>6. Kept(s, K) \o <<e>> = Append(Kept(s, K), e) /\ Kept(s, K) \o <<>> = Kept(s, K)
  BY <1>5
<1> HIDE DEF L
<1> QED BY <1>3, <1>4, <1>6

(* Everything is kept when nothing is left out.                             *)
LEMMA KeptAll ==
    ASSUME NEW T, NEW seq \in Seq(T), NEW K, DOMAIN seq \subseteq K
    PROVE  Kept(seq, K) = seq
<1> DEFINE P == {s \in Seq(T) : Kept(s, Nat) = s}
<1>1. <<>> \in P
  <2>1. <<>> \in Seq(T) /\ Nat \cap DOMAIN <<>> = {}
    BY EmptySeq
  <2>2. Kept(<<>>, Nat) = <<>>
    BY <2>1, KeptNone
  <2> QED BY <2>1, <2>2
<1>2. ASSUME NEW s \in P, NEW e \in T PROVE Append(s, e) \in P
  BY KeptAppend
<1>3. P = Seq(T)
  <2> HIDE DEF P
  <2>1. P \in SUBSET Seq(T)
    BY DEF P
  <2> QED BY <1>1, <1>2, <2>1, SeqInduction
<1>4. Kept(seq, Nat) = seq
  BY <1>3
<1>5. \A i \in DOMAIN seq : i \in K <=> i \in Nat
  OBVIOUS
<1>6. Kept(seq, K) = Kept(seq, Nat)
  BY <1>5, KeptSame
<1> QED BY <1>4, <1>6

\* t is what follows position n, and L the positions of it in K.
Splits(seq, n, K, t, L) ==
    /\ Len(t) = Len(seq) - n
    /\ \A i \in 1..Len(t) : i \in L <=> n + i \in K
    /\ Kept(seq, K) = Kept(SubSeq(seq, 1, n), K) \o Kept(t, L)

(* What is kept of a sequence is what is kept up to a position, and after.  *)
LEMMA KeptSplit ==
    ASSUME NEW T, NEW seq \in Seq(T), NEW n \in 0..Len(seq)
    PROVE  \A K : \E t \in Seq(T) : \E L : Splits(seq, n, K, t, L)
<1> TAKE K
<1>1. PICK s \in Seq(T) : s = SubSeq(seq, 1, n) /\ Len(s) = n
  <2>1. SubSeq(seq, 1, n) \in Seq(T) /\ Len(SubSeq(seq, 1, n)) = n
    OBVIOUS
  <2> QED BY <2>1, Zenon
<1>2. PICK t \in Seq(T) : t = SubSeq(seq, n + 1, Len(seq))
  <2>1. SubSeq(seq, n + 1, Len(seq)) \in Seq(T)
    OBVIOUS
  <2> QED BY <2>1, Zenon
<1>3. seq = s \o t /\ Len(t) = Len(seq) - n
  <2>1. Len(t) = Len(seq) - n /\ \A i \in 1..Len(seq) - n : t[i] = seq[n + i]
    BY <1>2
  <2>2. \A i \in 1..n : s[i] = seq[i]
    BY <1>1
  <2>3. /\ s \o t \in Seq(T) /\ Len(s \o t) = Len(seq)
        /\ \A i \in 1..Len(seq) : (s \o t)[i] = seq[i]
    BY <1>1, <2>1, <2>2
  <2> QED BY <2>1, <2>3, SeqEqual
<1> DEFINE L == {i \in DOMAIN t : Len(s) + i \in K}
<1>4. \A i \in 1..Len(t) : i \in L <=> Len(s) + i \in K
  OBVIOUS
<1>5. Kept(s \o t, K) = Kept(s, K) \o Kept(t, L)
  <2> HIDE DEF L
  <2> QED BY <1>4, KeptConcat
<1>6. \A i \in 1..Len(t) : i \in L <=> n + i \in K
  BY <1>1, <1>4
<1> HIDE DEF L
<1>7. Splits(seq, n, K, t, L)
  BY <1>1, <1>3, <1>5, <1>6 DEF Splits
<1> QED BY <1>7

(* Past the last position kept, a sequence does not matter.                 *)
LEMMA KeptPrefix ==
    ASSUME NEW T, NEW seq \in Seq(T), NEW n \in 0..Len(seq), NEW K, K \subseteq 1..n
    PROVE  Kept(seq, K) = Kept(SubSeq(seq, 1, n), K)
<1>0. PICK t \in Seq(T) : \E L : Splits(seq, n, K, t, L)
  BY KeptSplit
<1>1. PICK L : Splits(seq, n, K, t, L)
  BY <1>0
<1>2. L \cap DOMAIN t = {}
  <2>1. \A i \in 1..Len(t) : i \in L <=> n + i \in K
    BY <1>1, Zenon DEF Splits
  <2>2. \A i \in 1..Len(t) : n + i \notin 1..n
    OBVIOUS
  <2>3. \A i \in 1..Len(t) : i \notin L
    BY <2>1, <2>2, Zenon
  <2>4. DOMAIN t = 1..Len(t)
    OBVIOUS
  <2> QED BY <2>3, <2>4, Zenon
<1>3. Kept(t, L) = <<>>
  BY <1>2, KeptNone
<1>4. Kept(SubSeq(seq, 1, n), K) \in Seq(T)
  <2>1. SubSeq(seq, 1, n) \in Seq(T)
    OBVIOUS
  <2> QED BY <2>1, KeptType
<1>5. Kept(SubSeq(seq, 1, n), K) \o <<>> = Kept(SubSeq(seq, 1, n), K)
  BY <1>4
<1> QED BY <1>1, <1>3, <1>5, Zenon DEF Splits

(* One position more, past the others, is kept last.                        *)
LEMMA KeptNext ==
    ASSUME NEW T, NEW seq \in Seq(T), NEW n \in Nat, n < Len(seq),
           NEW K, K \subseteq 1..n
    PROVE  Kept(seq, K \cup {n + 1}) = Append(Kept(seq, K), seq[n + 1])
<1>1. PICK s \in Seq(T) : s = SubSeq(seq, 1, n) /\ Len(s) = n
  <2>1. SubSeq(seq, 1, n) \in Seq(T) /\ Len(SubSeq(seq, 1, n)) = n
    OBVIOUS
  <2> QED BY <2>1, Zenon
<1>2. seq[n + 1] \in T /\ SubSeq(seq, 1, n + 1) = Append(s, seq[n + 1])
  BY <1>1
<1>3. PICK L : L = K \cup {n + 1}
  OBVIOUS
<1>4. Kept(seq, L) = Kept(Append(s, seq[n + 1]), L)
  <2>1. L \subseteq 1..n + 1 /\ n + 1 \in 0..Len(seq)
    BY <1>3
  <2> QED BY <1>2, <2>1, KeptPrefix
<1>5. Kept(Append(s, seq[n + 1]), L) = Append(Kept(s, L), seq[n + 1])
  <2>1. Len(s) + 1 \in L
    BY <1>1, <1>3
  <2> QED BY <1>2, <2>1, KeptAppend
<1>6. Kept(s, L) = Kept(s, K)
  <2>1. \A i \in DOMAIN s : i \in L <=> i \in K
    BY <1>1, <1>3
  <2> QED BY <2>1, KeptSame
<1>7. Kept(seq, K) = Kept(s, K)
  <2>1. n \in 0..Len(seq)
    OBVIOUS
  <2> QED BY <1>1, <2>1, KeptPrefix
<1> QED BY <1>3, <1>4, <1>5, <1>6, <1>7

-----------------------------------------------------------------------------
(***************************************************************************)
(* Squeeze and the strips.                                                 *)
(***************************************************************************)

(* Squeezing adds no symbols.                                               *)
LEMMA SqueezeType ==
    ASSUME NEW T, NEW text \in Seq(T)
    PROVE  Squeeze(text) \in Seq(T)
  BY KeptType DEF Squeeze

(* White space is squeezed to nothing.                                      *)
LEMMA SqueezeBlank ==
    ASSUME NEW T, NEW text \in Seq(T), Solid(text) = {}
    PROVE  Squeeze(text) = <<>>
<1>1. Solid(text) \cap DOMAIN text = {}
  OBVIOUS
<1> QED BY <1>1, KeptNone DEF Squeeze

(* So is the empty text.                                                    *)
LEMMA SqueezeEmpty == Squeeze(<<>>) = <<>>
<1>1. <<>> \in Seq({}) /\ Solid(<<>>) = {}
  BY EmptySeq DEF Solid
<1> QED BY <1>1, SqueezeBlank

(* Texts are squeezed one by one.                                           *)
LEMMA SqueezeConcat ==
    ASSUME NEW T, NEW s \in Seq(T), NEW t \in Seq(T)
    PROVE  Squeeze(s \o t) = Squeeze(s) \o Squeeze(t)
<1>1. PICK K : K = Solid(s \o t)
  OBVIOUS
<1>2. PICK L : L = Solid(t)
  OBVIOUS
<1>3. \A i \in 1..Len(t) : i \in L <=> Len(s) + i \in K
  BY <1>1, <1>2 DEF Solid
<1>4. Kept(s \o t, K) = Kept(s, K) \o Kept(t, L)
  BY <1>3, KeptConcat
<1>5. Kept(s, K) = Kept(s, Solid(s))
  <2>1. \A i \in DOMAIN s : i \in K <=> i \in Solid(s)
    BY <1>1 DEF Solid
  <2> QED BY <2>1, KeptSame
<1> QED BY <1>1, <1>2, <1>4, <1>5 DEF Squeeze

(* Cutting white space off at both ends changes nothing but white space.    *)
LEMMA SqueezeCut ==
    ASSUME NEW T, NEW text \in Seq(T), NEW m \in 1..Len(text), NEW n \in m..Len(text),
           Solid(text) \subseteq m..n
    PROVE  Squeeze(SubSeq(text, m, n)) = Squeeze(text)
<1> DEFINE before == SubSeq(text, 1, m - 1)
           cut    == SubSeq(text, m, n)
           after  == SubSeq(text, n + 1, Len(text))
<1>1. /\ before \in Seq(T) /\ Len(before) = m - 1
      /\ \A i \in 1..m - 1 : before[i] = text[i]
  OBVIOUS
<1>2. /\ after \in Seq(T) /\ Len(after) = Len(text) - n
      /\ \A i \in 1..Len(text) - n : after[i] = text[n + i]
  OBVIOUS
<1>3. cut \in Seq(T)
  OBVIOUS
<1>4. text = before \o (cut \o after)
  <2>1. SubSeq(text, m, Len(text)) = cut \o after
    <3>1. m \in 1..Len(text) + 1 /\ n \in m - 1..Len(text) /\ Len(text) \in n..Len(text)
      OBVIOUS
    <3> QED BY <3>1, ConcatAdjacentSubSeq, Zenon
  <2>2. SubSeq(text, 1, Len(text)) = before \o SubSeq(text, (m - 1) + 1, Len(text))
    <3>1. /\ 1 \in 1..Len(text) + 1 /\ m - 1 \in 1 - 1..Len(text)
          /\ Len(text) \in m - 1..Len(text)
      OBVIOUS
    <3> QED BY <3>1, ConcatAdjacentSubSeq, Zenon
  <2>3. SubSeq(text, 1, Len(text)) = text /\ (m - 1) + 1 = m
    BY SubSeqFull
  <2> QED BY <2>1, <2>2, <2>3
<1>5. Solid(before) = {} /\ Solid(after) = {}
  <2>1. \A i \in 1..Len(text) : i \notin m..n => text[i] = Space
    BY DEF Solid
  <2>2. \A i \in 1..m - 1 : before[i] = Space
    BY <1>1, <2>1
  <2>3. \A i \in 1..Len(text) - n : after[i] = Space
    <3> TAKE i \in 1..Len(text) - n
    <3>1. n + i \in 1..Len(text) /\ n + i \notin m..n
      OBVIOUS
    <3> QED BY <1>2, <2>1, <3>1
  <2>4. DOMAIN before = 1..m - 1 /\ DOMAIN after = 1..Len(text) - n
    BY <1>1, <1>2
  <2> HIDE DEF before, after
  <2> QED BY <2>2, <2>3, <2>4 DEF Solid
<1> HIDE DEF before, cut, after
<1>6. Squeeze(before) = <<>> /\ Squeeze(after) = <<>> /\ Squeeze(cut) \in Seq(T)
  BY <1>1, <1>2, <1>3, <1>5, SqueezeBlank, SqueezeType
<1>7. Squeeze(text) = Squeeze(before) \o (Squeeze(cut) \o Squeeze(after))
  <2>1. PICK rest \in Seq(T) : rest = cut \o after
    <3>1. cut \o after \in Seq(T)
      BY <1>2, <1>3
    <3> QED BY <3>1, Zenon
  <2>2. Squeeze(before \o rest) = Squeeze(before) \o Squeeze(rest)
    BY <1>1, SqueezeConcat
  <2>3. Squeeze(rest) = Squeeze(cut) \o Squeeze(after)
    BY <1>2, <1>3, <2>1, SqueezeConcat
  <2> QED BY <1>4, <2>1, <2>2, <2>3
<1>8. Squeeze(text) = Squeeze(cut)
  BY <1>6, <1>7, ConcatEmptySeq
<1> QED BY <1>8 DEF cut

(* Where the text that is not white space begins and ends.                  *)
LEMMA SolidEnds ==
    ASSUME NEW T, NEW text \in Seq(T), Solid(text) # {}
    PROVE  /\ Min(Solid(text)) \in 1..Len(text)
           /\ Max(Solid(text)) \in Min(Solid(text))..Len(text)
           /\ Solid(text) \subseteq Min(Solid(text))..Max(Solid(text))
<1>1. PICK S : S = Solid(text)
  OBVIOUS
<1>2. Len(text) \in Nat /\ S \in SUBSET (1..Len(text)) /\ S # {}
  BY <1>1 DEF Solid
<1>3. Max(S) \in S /\ Min(S) \in S /\ \A y \in S : y <= Max(S) /\ Min(S) <= y
  BY <1>2, MaxIn, MinIn
<1>4. /\ Min(S) \in 1..Len(text) /\ Max(S) \in Min(S)..Len(text)
      /\ S \subseteq Min(S)..Max(S)
  <2>1. PICK a, b : a = Min(S) /\ b = Max(S)
    OBVIOUS
  <2>2. a \in 1..Len(text) /\ b \in 1..Len(text) /\ a <= b
    BY <1>2, <1>3, <2>1
  <2>3. S \subseteq a..b
    BY <1>2, <1>3, <2>1, <2>2
  <2> QED BY <1>2, <2>1, <2>2, <2>3
<1> QED BY <1>1, <1>4

(* Stripped text is part of the text and has all of it but white space.     *)
LEMMA StripSpells ==
    ASSUME NEW T, NEW text \in Seq(T)
    PROVE  /\ Strip(text) \in Seq(T)
           /\ Squeeze(Strip(text)) = Squeeze(text)
           /\ Strip(text) = <<>> => Solid(text) = {}
<1>1. CASE Solid(text) = {}
  BY <1>1, SqueezeBlank, SqueezeEmpty, EmptySeq DEF Strip
<1>2. CASE Solid(text) # {}
  <2>1. PICK m, n : /\ m \in 1..Len(text) /\ n \in m..Len(text)
                    /\ Strip(text) = SubSeq(text, m, n) /\ Solid(text) \subseteq m..n
    BY <1>2, SolidEnds DEF Strip
  <2>2. SubSeq(text, m, n) \in Seq(T) /\ Len(SubSeq(text, m, n)) = n - m + 1
    BY <2>1
  <2>3. SubSeq(text, m, n) # <<>>
    BY <2>1, <2>2
  <2> QED BY <2>1, <2>2, <2>3, SqueezeCut
<1> QED BY <1>1, <1>2

(* rstrip() leaves what a text spells.                                      *)
LEMMA RStripSpells ==
    ASSUME NEW T, NEW text \in Seq(T)
    PROVE  RStrip(text) \in Seq(T) /\ Squeeze(RStrip(text)) = Squeeze(text)
<1>1. CASE Solid(text) = {}
  BY <1>1, SqueezeBlank, SqueezeEmpty, EmptySeq DEF RStrip
<1>2. CASE Solid(text) # {}
  <2>1. PICK n \in 1..Len(text) :
          RStrip(text) = SubSeq(text, 1, n) /\ Solid(text) \subseteq 1..n
    BY <1>2, SolidEnds DEF RStrip
  <2>2. SubSeq(text, 1, n) \in Seq(T) /\ 1 \in 1..Len(text)
    OBVIOUS
  <2> QED BY <2>1, <2>2, SqueezeCut
<1> QED BY <1>1, <1>2
=============================================================================
