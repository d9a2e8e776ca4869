-------------------------- MODULE ShellChildProofs --------------------------
(***************************************************************************)
(* What the operators of ShellChild return, for the proofs about the two   *)
(* programs that use them: reading from a pipe, and the characters the     *)
(* shell has read together with those still in its pipe.                   *)
(***************************************************************************)
EXTENDS ShellChild, SequencesExt, SequenceTheorems, WellFoundedInduction, TLAPS

-----------------------------------------------------------------------------
(* Reading from a pipe.                                                    *)

\* What is read, and what is left, come from the pipe.
LEMMA ChunkAndRest ==
  ASSUME NEW S, NEW s \in Seq(S), NEW n \in Nat
  PROVE  /\ Chunk(s, n) \in Seq(S) /\ Rest(s, n) \in Seq(S)
         /\ Len(Chunk(s, n)) <= n /\ Len(Chunk(s, n)) <= Len(s)
         /\ Len(Rest(s, n)) = Len(s) - Len(Chunk(s, n))
         /\ \A k \in DOMAIN Chunk(s, n) : Chunk(s, n)[k] = s[k] /\ k \in DOMAIN s
         /\ \A k \in DOMAIN Rest(s, n) : /\ Rest(s, n)[k] = s[Len(Chunk(s, n)) + k]
                                          /\ Len(Chunk(s, n)) + k \in DOMAIN s
<1> DEFINE c == IF Len(s) < n THEN Len(s) ELSE n
           C == SubSeq(s, 1, c)
           R == SubSeq(s, c + 1, Len(s))
<1>1. Len(s) \in Nat /\ DOMAIN s = 1 .. Len(s)
  BY LenProperties
<1>2. c \in Nat /\ c <= n /\ c <= Len(s)
  BY <1>1
<1> HIDE DEF c
<1>3. \A k \in 1 .. Len(s) : s[k] \in S
  BY ElementOfSeq
<1>4. /\ C \in Seq(S) /\ Len(C) = IF 1 <= c THEN c - 1 + 1 ELSE 0
      /\ \A k \in 1 .. c - 1 + 1 : C[k] = s[1 + k - 1]
  <2>1. \A k \in 1 .. c : s[k] \in S
    BY <1>1, <1>2, <1>3
  <2>2. 1 \in Int /\ c \in Int
    BY <1>2
  <2> HIDE DEF C
  <2> QED BY <2>1, <2>2, SubSeqProperties DEF C
<1>5. /\ R \in Seq(S) /\ Len(R) = IF c + 1 <= Len(s) THEN Len(s) - (c + 1) + 1 ELSE 0
      /\ \A k \in 1 .. Len(s) - (c + 1) + 1 : R[k] = s[c + 1 + k - 1]
  <2>1. \A k \in c + 1 .. Len(s) : s[k] \in S
    BY <1>1, <1>2, <1>3
  <2>2. c + 1 \in Int /\ Len(s) \in Int
    BY <1>1, <1>2
  <2> HIDE DEF R
  <2> QED BY <2>1, <2>2, SubSeqProperties DEF R
<1>6. Len(C) = c /\ DOMAIN C = 1 .. c /\ Len(R) = Len(s) - c /\ DOMAIN R = 1 .. Len(s) - c
  <2> HIDE DEF C, R
  <2>1. /\ (IF 1 <= c THEN c - 1 + 1 ELSE 0) = c
        /\ (IF c + 1 <= Len(s) THEN Len(s) - (c + 1) + 1 ELSE 0) = Len(s) - c
    <3>1. ASSUME NEW a \in Nat, NEW b \in Nat, a <= b
          PROVE  (IF a + 1 <= b THEN b - (a + 1) + 1 ELSE 0) = b - a
      <4>1. CASE a + 1 <= b
        BY <4>1
      <4>2. CASE ~(a + 1 <= b)
        BY <3>1, <4>2
      <4> QED BY <4>1, <4>2
    <3>2. ASSUME NEW a \in Nat
          PROVE  (IF 1 <= a THEN a - 1 + 1 ELSE 0) = a
      OBVIOUS
    <3> QED BY <1>1, <1>2, <3>1, <3>2
  <2>2. Len(C) = c /\ Len(R) = Len(s) - c
    BY <1>4, <1>5, <2>1
  <2> QED BY <1>4, <1>5, <2>2, LenProperties
<1>7. Chunk(s, n) = C
  BY DEF Chunk, c
<1>8. Rest(s, n) = R
  BY <1>6, <1>7 DEF Rest
<1> HIDE DEF C, R
<1>9. \A k \in DOMAIN C : C[k] = s[k] /\ k \in DOMAIN s
  BY <1>1, <1>2, <1>4, <1>6
<1>10. \A k \in DOMAIN R : R[k] = s[c + k] /\ c + k \in DOMAIN s
  <2> SUFFICES ASSUME NEW k \in 1 .. Len(s) - c
               PROVE  R[k] = s[c + k] /\ c + k \in 1 .. Len(s)
    BY <1>1, <1>6
  <2>1. k \in 1 .. Len(s) - (c + 1) + 1 /\ c + 1 + k - 1 = c + k /\ c + k \in 1 .. Len(s)
    BY <1>1, <1>2
  <2> QED BY <1>5, <2>1
<1> QED BY <1>2, <1>4, <1>5, <1>6, <1>7, <1>8, <1>9, <1>10

\* What of a sequence comes after its first n elements.
LEMMA SuffixIs ==
  ASSUME NEW S, NEW s \in Seq(S), NEW n \in Nat, n <= Len(s)
  PROVE  LET r == SubSeq(s, n + 1, Len(s))
         IN  /\ r \in Seq(S) /\ Len(r) = Len(s) - n /\ DOMAIN r = 1 .. Len(s) - n
             /\ \A k \in 1 .. Len(s) - n : r[k] = s[n + k]
<1> DEFINE r == SubSeq(s, n + 1, Len(s))
<1>1. Len(s) \in Nat
  BY LenProperties
<1>2. \A k \in n + 1 .. Len(s) : s[k] \in S
  BY <1>1, ElementOfSeq
<1>3. n + 1 \in Int /\ Len(s) \in Int
  BY <1>1
<1>4. /\ r \in Seq(S)
      /\ Len(r) = IF n + 1 <= Len(s) THEN Len(s) - (n + 1) + 1 ELSE 0
      /\ \A k \in 1 .. Len(s) - (n + 1) + 1 : r[k] = s[n + 1 + k - 1]
  BY <1>2, <1>3, SubSeqProperties
<1> HIDE DEF r
<1>5. ASSUME NEW a \in Nat, NEW b \in Nat, a <= b
      PROVE  /\ (IF a + 1 <= b THEN b - (a + 1) + 1 ELSE 0) = b - a
             /\ \A k \in 1 .. b - a : k \in 1 .. b - (a + 1) + 1 /\ a + 1 + k - 1 = a + k
  <2>1. CASE a + 1 <= b
    BY <2>1
  <2>2. CASE ~(a + 1 <= b)
    BY <1>5, <2>2
  <2> QED BY <2>1, <2>2
<1>6. /\ (IF n + 1 <= Len(s) THEN Len(s) - (n + 1) + 1 ELSE 0) = Len(s) - n
      /\ \A k \in 1 .. Len(s) - n : /\ k \in 1 .. Len(s) - (n + 1) + 1
                                     /\ n + 1 + k - 1 = n + k
  BY <1>1, <1>5
<1>7. Len(r) = Len(s) - n
  BY <1>4, <1>6
<1>8. DOMAIN r = 1 .. Len(r)
  BY <1>4, LenProperties
<1> QED BY <1>4, <1>6, <1>7, <1>8 DEF r

\* The whole of a sequence.
LEMMA WholeIs ==
  ASSUME NEW S, NEW s \in Seq(S)
  PROVE  SubSeq(s, 1, Len(s)) = s
<1>1. PICK z \in Nat : z = 0
  OBVIOUS
<1>2. Len(s) \in Nat
  BY LenProperties
<1>3. LET r == SubSeq(s, z + 1, Len(s))
      IN  r \in Seq(S) /\ Len(r) = Len(s) - z /\ \A k \in 1 .. Len(s) - z : r[k] = s[z + k]
  BY <1>1, <1>2, SuffixIs
<1>4. z + 1 = 1 /\ Len(s) - z = Len(s) /\ \A k \in 1 .. Len(s) : z + k = k
  BY <1>1, <1>2
<1> QED BY <1>3, <1>4, SeqEqual

\* What is read, followed by what is left, is what was there.
LEMMA ChunkThenRest ==
  ASSUME NEW S, NEW s \in Seq(S), NEW n \in Nat
  PROVE  Chunk(s, n) \o Rest(s, n) = s
<1> DEFINE c == Chunk(s, n)
           r == Rest(s, n)
<1>1. /\ c \in Seq(S) /\ r \in Seq(S) /\ Len(c) <= Len(s)
      /\ Len(r) = Len(s) - Len(c)
      /\ \A k \in DOMAIN c : c[k] = s[k]
      /\ \A k \in DOMAIN r : r[k] = s[Len(c) + k]
  BY ChunkAndRest
<1> HIDE DEF c, r
<1>2. DOMAIN c = 1 .. Len(c) /\ DOMAIN r = 1 .. Len(r) /\ Len(c) \in Nat /\ Len(s) \in Nat
  BY <1>1, LenProperties
<1>3. /\ c \o r \in Seq(S) /\ Len(c \o r) = Len(c) + Len(r)
      /\ \A k \in 1 .. Len(c) + Len(r) :
           (c \o r)[k] = IF k <= Len(c) THEN c[k] ELSE r[k - Len(c)]
  BY <1>1, ConcatProperties
<1>4. Len(c) + Len(r) = Len(s)
  BY <1>1, <1>2
<1>5. ASSUME NEW k \in 1 .. Len(s) PROVE (c \o r)[k] = s[k]
  <2>1. CASE k <= Len(c)
    <3>1. k \in 1 .. Len(c)
      BY <1>2, <2>1
    <3> QED BY <1>1, <1>2, <1>3, <1>4, <2>1, <3>1
  <2>2. CASE ~(k <= Len(c))
    <3>1. k - Len(c) \in 1 .. Len(r) /\ Len(c) + (k - Len(c)) = k
      BY <1>1, <1>2, <2>2
    <3> QED BY <1>1, <1>2, <1>3, <1>4, <2>2, <3>1
  <2> QED BY <2>1, <2>2
<1>6. c \o r = s
  BY <1>3, <1>4, <1>5, SeqEqual
<1> QED BY <1>6 DEF c, r

\* The first element of what comes after n elements, and what comes after it.
LEMMA SuffixStep ==
  ASSUME NEW S, NEW s \in Seq(S), NEW n \in 1 .. Len(s)
  PROVE  /\ SubSeq(s, n, Len(s)) = <<s[n]>> \o SubSeq(s, n + 1, Len(s))
         /\ SubSeq(s, n + 1, Len(s)) \in Seq(S)
<1> DEFINE a == SubSeq(s, n, Len(s))
           b == SubSeq(s, n + 1, Len(s))
           c == <<s[n]>>
<1>1. Len(s) \in Nat /\ n \in Nat /\ n - 1 \in Nat /\ n - 1 <= Len(s) /\ n <= Len(s)
      /\ (n - 1) + 1 = n /\ s[n] \in S
  BY LenProperties, ElementOfSeq
<1>2. /\ b \in Seq(S) /\ Len(b) = Len(s) - n
      /\ \A k \in 1 .. Len(s) - n : b[k] = s[n + k]
  BY <1>1, SuffixIs
<1>3. /\ a \in Seq(S) /\ Len(a) = Len(s) - (n - 1)
      /\ \A k \in 1 .. Len(s) - (n - 1) : a[k] = s[(n - 1) + k]
  <2>1. PICK m \in Nat : m = n - 1
    BY <1>1
  <2>2. LET r == SubSeq(s, m + 1, Len(s))
        IN  /\ r \in Seq(S) /\ Len(r) = Len(s) - m
            /\ \A k \in 1 .. Len(s) - m : r[k] = s[m + k]
    BY <1>1, <2>1, SuffixIs
  <2>3. m + 1 = n
    BY <1>1, <2>1
  <2> QED BY <2>1, <2>2, <2>3
<1> HIDE DEF a, b
<1>4. c \in Seq(S) /\ Len(c) = 1 /\ c[1] = s[n]
  BY <1>1
<1> HIDE DEF c
<1>5. /\ c \o b \in Seq(S) /\ Len(c \o b) = 1 + (Len(s) - n)
      /\ \A k \in 1 .. 1 + (Len(s) - n) : (c \o b)[k] = IF k <= 1 THEN c[k] ELSE b[k - 1]
  <2>1. /\ c \o b \in Seq(S) /\ Len(c \o b) = Len(c) + Len(b)
        /\ \A k \in 1 .. Len(c) + Len(b) : (c \o b)[k] = IF k <= Len(c) THEN c[k] ELSE b[k - Len(c)]
    BY <1>2, <1>4, ConcatProperties
  <2> QED BY <1>2, <1>4, <2>1
<1>6. 1 + (Len(s) - n) = Len(s) - (n - 1)
  BY <1>1
<1>7. ASSUME NEW k \in 1 .. Len(s) - (n - 1) PROVE a[k] = (c \o b)[k]
  <2>1. CASE k = 1
    <3>1. k <= 1 /\ (n - 1) + k = n
      BY <1>1, <2>1
    <3>2. a[k] = s[n]
      BY <1>3, <3>1
    <3>3. (c \o b)[k] = c[k]
      BY <1>5, <1>6, <3>1
    <3> QED BY <1>4, <2>1, <3>2, <3>3
  <2>2. CASE k # 1
    <3>1. k - 1 \in 1 .. Len(s) - n /\ ~(k <= 1) /\ n + (k - 1) = (n - 1) + k
      BY <1>1, <2>2
    <3> QED BY <1>2, <1>3, <1>5, <1>6, <3>1
  <2> QED BY <2>1, <2>2
<1>8. a = c \o b
  BY <1>3, <1>5, <1>6, <1>7, SeqEqual
<1> QED BY <1>2, <1>8 DEF a, b, c

-----------------------------------------------------------------------------
(* What the shell has got: taken \o toChild.                               *)

\* The shell reads: what it has got stays the same.
LEMMA ReadKeepsWord ==
  ASSUME NEW S, NEW a \in Seq(S), NEW b \in Seq(S), b # <<>>
  PROVE  Append(a, Head(b)) \o Tail(b) = a \o b
<1>1. Len(a) \in Nat /\ Len(b) \in Nat \ {0}
  BY LenProperties, EmptySeq
<1>2. /\ Head(b) \in S /\ Head(b) = b[1]
      /\ Tail(b) \in Seq(S) /\ Len(Tail(b)) = Len(b) - 1
      /\ \A k \in 1 .. Len(b) - 1 : Tail(b)[k] = b[k + 1]
  BY HeadTailProperties
<1> DEFINE h == Append(a, Head(b))
<1>3. /\ h \in Seq(S) /\ Len(h) = Len(a) + 1 /\ h[Len(a) + 1] = b[1]
      /\ \A k \in 1 .. Len(a) : h[k] = a[k]
  BY <1>2, AppendProperties
<1> HIDE DEF h
<1>4. /\ h \o Tail(b) \in Seq(S) /\ Len(h \o Tail(b)) = Len(h) + Len(Tail(b))
      /\ \A k \in 1 .. Len(h) + Len(Tail(b)) :
           (h \o Tail(b))[k] = IF k <= Len(h) THEN h[k] ELSE Tail(b)[k - Len(h)]
  BY <1>2, <1>3, ConcatProperties
<1>5. /\ a \o b \in Seq(S) /\ Len(a \o b) = Len(a) + Len(b)
      /\ \A k \in 1 .. Len(a) + Len(b) :
           (a \o b)[k] = IF k <= Len(a) THEN a[k] ELSE b[k - Len(a)]
  BY ConcatProperties
<1>6. Len(h) + Len(Tail(b)) = Len(a) + Len(b)
  BY <1>1, <1>2, <1>3
<1>7. ASSUME NEW k \in 1 .. Len(a) + Len(b)
      PROVE  (h \o Tail(b))[k] = (a \o b)[k]
  <2>1. CASE k <= Len(a)
    <3>1. k \in 1 .. Len(a) /\ k <= Len(h)
      BY <1>1, <1>3, <2>1
    <3> QED BY <1>3, <1>4, <1>5, <1>6, <2>1, <3>1
  <2>2. CASE k = Len(a) + 1
    <3>1. k <= Len(h) /\ ~(k <= Len(a)) /\ k - Len(a) = 1
      BY <1>1, <1>3, <2>2
    <3> QED BY <1>3, <1>4, <1>5, <1>6, <2>2, <3>1
  <2>3. CASE k > Len(a) + 1
    <3>1. /\ ~(k <= Len(h)) /\ ~(k <= Len(a)) /\ k - Len(h) \in 1 .. Len(b) - 1
          /\ k - Len(h) + 1 = k - Len(a)
      BY <1>1, <1>3, <2>3
    <3> QED BY <1>2, <1>4, <1>5, <1>6, <3>1
  <2>4. k <= Len(a) \/ k = Len(a) + 1 \/ k > Len(a) + 1
    BY <1>1
  <2> QED BY <2>1, <2>2, <2>3, <2>4
<1> QED BY <1>4, <1>5, <1>6, <1>7, SeqEqual DEF h

\* A character is written: it comes after what the shell has got.
LEMMA WriteAppendsToWord ==
  ASSUME NEW S, NEW a \in Seq(S), NEW b \in Seq(S), NEW c \in S
  PROVE  a \o Append(b, c) = Append(a \o b, c)
<1>1. <<c>> \in Seq(S)
  OBVIOUS
<1>2. Append(b, c) = b \o <<c>>
  BY AppendIsConcat
<1>3. a \o b \in Seq(S)
  BY ConcatProperties
<1>4. Append(a \o b, c) = (a \o b) \o <<c>>
  BY <1>3, AppendIsConcat
<1> QED BY <1>1, <1>2, <1>4, ConcatAssociative

\* The elements of s are in t, in the same places.
StartsWith(t, s) == Len(s) <= Len(t) /\ \A n \in 1 .. Len(s) : t[n] = s[n]

\* A sequence whose elements another one has in the same places is a prefix of it.
LEMMA PrefixIs ==
  ASSUME NEW A, NEW s \in Seq(A), NEW t \in Seq(A), StartsWith(t, s)
  PROVE  IsPrefix(s, t)
<1> DEFINE w == Len(s)
<1>1. w \in Nat /\ Len(t) \in Nat
  BY LenProperties
<1>2. \A n \in 1 .. w : s[n] \in A /\ t[n] \in A
  <2>1. \A n \in 1 .. w : n \in 1 .. Len(t)
    BY <1>1 DEF StartsWith
  <2> QED BY <2>1, ElementOfSeq
<1>3. w \in Int /\ 1 \in Int
  BY <1>1
<1> HIDE DEF w
<1> DEFINE a == SubSeq(s, 1, w)
           b == SubSeq(t, 1, w)
<1>4. /\ a \in Seq(A) /\ Len(a) = IF 1 <= w THEN w - 1 + 1 ELSE 0
      /\ \A n \in 1 .. w - 1 + 1 : a[n] = s[1 + n - 1]
  BY <1>2, <1>3, SubSeqProperties
<1>5. /\ b \in Seq(A) /\ Len(b) = IF 1 <= w THEN w - 1 + 1 ELSE 0
      /\ \A n \in 1 .. w - 1 + 1 : b[n] = t[1 + n - 1]
  BY <1>2, <1>3, SubSeqProperties
<1> HIDE DEF a, b
<1>6. /\ (IF 1 <= w THEN w - 1 + 1 ELSE 0) = w /\ w - 1 + 1 = w
      /\ \A n \in 1 .. w : 1 + n - 1 = n
  BY <1>1 DEF w
<1>7. Len(a) = w /\ Len(b) = w /\ \A n \in 1 .. w : a[n] = s[n] /\ b[n] = t[n]
  BY <1>4, <1>5, <1>6
<1>8. \A n \in 1 .. w : a[n] = b[n]
  BY <1>7 DEF StartsWith, w
<1>9. a = b
  BY <1>4, <1>5, <1>7, <1>8, SeqEqual
<1> QED BY <1>9 DEF IsPrefix, StartsWith, a, b, w

-----------------------------------------------------------------------------
(* What comes before the first ^D.                                         *)

\* A nonempty set of natural numbers contains its minimum.
LEMMA MinIsMember ==
  ASSUME NEW E \in SUBSET Nat, E # {}
  PROVE  Min(E) \in E
<1>1. PICK a \in E : \A b \in E : ~(<<b, a>> \in OpToRel(<, Nat))
  BY NatLessThanWellFounded, WFMin
<1>2. ASSUME NEW b \in E PROVE a <= b
  <2>1. a \in Nat /\ b \in Nat
    OBVIOUS
  <2>2. <<b, a>> \in Nat \X Nat /\ <<b, a>>[1] = b /\ <<b, a>>[2] = a
    BY <2>1
  <2>3. ~(b < a)
    BY <1>1, <2>2 DEF OpToRel
  <2> QED BY <2>1, <2>3
<1> QED BY <1>2 DEF Min

\* What comes before the first ^D is an initial part of the sequence, and
\* includes every initial part without a ^D.
LEMMA BeforeEOTIs ==
  ASSUME NEW A, NEW s \in Seq(A),
         NEW m \in Nat, m <= Len(s), \A n \in 1 .. m : s[n] # "EOT"
  PROVE  /\ BeforeEOT(s) \in Seq(A) /\ Len(BeforeEOT(s)) \in m .. Len(s)
         /\ DOMAIN BeforeEOT(s) = 1 .. Len(BeforeEOT(s))
         /\ \A n \in 1 .. Len(BeforeEOT(s)) : BeforeEOT(s)[n] = s[n] /\ s[n] \in A
<1> DEFINE E == { n \in DOMAIN s : s[n] = "EOT" }
           l == IF E = {} THEN Len(s) ELSE Min(E) - 1
           b == SubSeq(s, 1, l)
<1>1. DOMAIN s = 1 .. Len(s) /\ Len(s) \in Nat
  BY LenProperties
<1>2. l \in Nat /\ l <= Len(s) /\ m <= l
  <2>1. CASE E = {}
    BY <1>1, <2>1
  <2>2. CASE E # {}
    <3>1. \A n \in E : n \in Nat /\ 0 < n /\ n <= Len(s) /\ m < n
      <4> SUFFICES ASSUME NEW n \in E PROVE n \in Nat /\ 0 < n /\ n <= Len(s) /\ m < n
        OBVIOUS
      <4>1. n \in 1 .. Len(s) /\ s[n] = "EOT"
        BY <1>1
      <4>2. ~(n \in 1 .. m)
        BY <4>1
      <4> QED BY <1>1, <4>1, <4>2
    <3> HIDE DEF E
    <3>2. Min(E) \in E
      BY <2>2, <3>1, MinIsMember
    <3>3. Min(E) \in Nat /\ 0 < Min(E) /\ Min(E) <= Len(s) /\ m < Min(E)
      BY <3>1, <3>2
    <3> QED BY <1>1, <2>2, <3>3
  <2> QED BY <2>1, <2>2
<1> HIDE DEF l
<1>3. \A n \in 1 .. l : n \in 1 .. Len(s) /\ s[n] \in A
  BY <1>1, <1>2, ElementOfSeq
<1>4. 1 \in Int /\ l \in Int
  BY <1>2
<1>5. /\ b \in Seq(A) /\ Len(b) = IF 1 <= l THEN l - 1 + 1 ELSE 0
      /\ \A n \in 1 .. l - 1 + 1 : b[n] = s[1 + n - 1]
  BY <1>3, <1>4, SubSeqProperties
<1> HIDE DEF b
<1>6. Len(b) = l /\ l - 1 + 1 = l /\ \A n \in 1 .. l : 1 + n - 1 = n
  BY <1>2, <1>5
<1>7. DOMAIN b = 1 .. Len(b)
  BY <1>5, LenProperties
<1>8. BeforeEOT(s) = b
  BY DEF BeforeEOT, b, l
<1> QED BY <1>2, <1>3, <1>5, <1>6, <1>7, <1>8

-----------------------------------------------------------------------------
(* What of a sequence is in a set.                                         *)

\* Induction over the natural numbers, for a set instead of a predicate: the
\* smallest number outside the set would have its predecessor inside.
LEMMA SetInduction ==
  ASSUME NEW T \in SUBSET Nat, 0 \in T, \A n \in T : n + 1 \in T
  PROVE  T = Nat
<1> SUFFICES ASSUME Nat \ T # {} PROVE FALSE
  OBVIOUS
<1>1. PICK m \in Nat \ T : \A n \in Nat \ T : ~(<<n, m>> \in OpToRel(<, Nat))
  BY NatLessThanWellFounded, WFMin
<1>2. \A n \in Nat \ T : ~(n < m)
  BY <1>1 DEF OpToRel
<1>3. m # 0 /\ m \in Nat
  BY <1>1
<1>4. m - 1 \in Nat /\ m - 1 < m /\ (m - 1) + 1 = m
  BY <1>3
<1>5. m - 1 \in T
  BY <1>2, <1>4
<1>6. m \in T
  BY <1>4, <1>5
<1> QED BY <1>1, <1>6

\* What is kept satisfies its recursive equations: there is a function on each
\* initial part of the sequence that does.
LEMMA KeptUpToIs ==
  ASSUME NEW A, NEW s \in Seq(A), NEW S
  PROVE  /\ KeptUpTo(s, S)[0] = <<>>
         /\ \A n \in 1 .. Len(s) :
              KeptUpTo(s, S)[n] = IF s[n] \in S THEN Append(KeptUpTo(s, S)[n - 1], s[n])
                                                ELSE KeptUpTo(s, S)[n - 1]
         /\ \A n \in 0 .. Len(s) : KeptUpTo(s, S)[n] \in Seq(A)
<1> DEFINE Onto(n, x) == IF s[n] \in S THEN Append(x, s[n]) ELSE x
           Good(n, f) == /\ f \in [0 .. n -> Seq(A)] /\ f[0] = <<>>
                         /\ \A k \in 1 .. n : f[k] = Onto(k, f[k - 1])
           T == { n \in Nat : n <= Len(s) => \E f : Good(n, f) }
<1>1. Len(s) \in Nat /\ \A n \in 1 .. Len(s) : s[n] \in A
  BY LenProperties, ElementOfSeq
<1>2. T = Nat
  <2>1. 0 \in T
    <3>1. Good(0, [k \in 0 .. 0 |-> <<>>])
      BY EmptySeq
    <3> QED BY <3>1
  <2>2. ASSUME NEW n \in T PROVE n + 1 \in T
    <3> SUFFICES ASSUME n + 1 <= Len(s) PROVE \E f : Good(n + 1, f)
      <4> HIDE DEF Good
      <4> QED OBVIOUS
    <3>1. n \in Nat /\ n <= Len(s) /\ n + 1 \in 1 .. Len(s)
      BY <1>1
    <3>2. \E f : Good(n, f)
      <4> HIDE DEF Good
      <4> QED BY <3>1
    <3>3. PICK f : Good(n, f)
      <4> HIDE DEF Good
      <4> QED BY <3>2
    <3> DEFINE v == Onto(n + 1, f[n])
               g == [k \in 0 .. n + 1 |-> IF k = n + 1 THEN v ELSE f[k]]
    <3>4. v \in Seq(A)
      <4>1. f[n] \in Seq(A) /\ s[n + 1] \in A
        BY <1>1, <3>1, <3>3
      <4> QED BY <4>1, AppendProperties
    <3> HIDE DEF v
    <3>5. g \in [0 .. n + 1 -> Seq(A)] /\ g[0] = <<>>
      BY <3>1, <3>3, <3>4
    <3>6. ASSUME NEW k \in 1 .. n + 1 PROVE g[k] = Onto(k, g[k - 1])
      <4>1. CASE k = n + 1
        <5>1. g[k] = v /\ g[k - 1] = f[n]
          BY <3>1, <4>1
        <5> QED BY <4>1, <5>1 DEF v
      <4>2. CASE k # n + 1
        <5>1. k \in 1 .. n /\ g[k] = f[k] /\ g[k - 1] = f[k - 1]
          BY <3>1, <4>2
        <5> QED BY <3>3, <5>1
      <4> QED BY <4>1, <4>2
    <3>7. Good(n + 1, g)
      <4> HIDE DEF g
      <4> QED BY <3>5, <3>6
    <3> QED BY <3>7
  <2> HIDE DEF T
  <2>3. T \in SUBSET Nat
    BY DEF T
  <2> QED BY <2>1, <2>2, <2>3, SetInduction
<1>3. \E f : Good(Len(s), f)
  <2> HIDE DEF Good
  <2> QED BY <1>1, <1>2
<1>4. PICK f : Good(Len(s), f)
  <2> HIDE DEF Good
  <2> QED BY <1>3
<1>5. f = [n \in 0 .. Len(s) |-> IF n = 0 THEN <<>> ELSE IF s[n] \in S THEN Append(f[n - 1], s[n])
                                                          ELSE f[n - 1]]
  <2>1. \A n \in 0 .. Len(s) :
          f[n] = IF n = 0 THEN <<>> ELSE IF s[n] \in S THEN Append(f[n - 1], s[n]) ELSE f[n - 1]
    <3>1. \A n \in 0 .. Len(s) : n = 0 \/ n \in 1 .. Len(s)
      BY <1>1
    <3>2. /\ f[0] = <<>>
          /\ \A n \in 1 .. Len(s) : f[n] = IF s[n] \in S THEN Append(f[n - 1], s[n]) ELSE f[n - 1]
      BY <1>4
    <3>3. \A n \in 1 .. Len(s) : n # 0
      BY <1>1
    <3> QED BY <3>1, <3>2, <3>3, Zenon
  <2> QED BY <1>4, <2>1
<1> DEFINE g == KeptUpTo(s, S)
<1>6. g = [n \in 0 .. Len(s) |-> IF n = 0 THEN <<>> ELSE IF s[n] \in S THEN Append(g[n - 1], s[n])
                                                          ELSE g[n - 1]]
  BY <1>5, Zenon DEF KeptUpTo
<1> HIDE DEF g
<1>7. /\ g[0] = <<>>
      /\ \A n \in 1 .. Len(s) : g[n] = IF s[n] \in S THEN Append(g[n - 1], s[n]) ELSE g[n - 1]
  <2>1. 0 \in 0 .. Len(s) /\ \A n \in 1 .. Len(s) : n \in 0 .. Len(s) /\ n # 0
    BY <1>1
  <2>2. \A n \in 0 .. Len(s) :
          g[n] = IF n = 0 THEN <<>> ELSE IF s[n] \in S THEN Append(g[n - 1], s[n]) ELSE g[n - 1]
    BY <1>6, Zenon
  <2> QED BY <2>1, <2>2, Zenon
<1>8. \A n \in 0 .. Len(s) : g[n] \in Seq(A)
  <2> DEFINE U == { n \in Nat : n <= Len(s) => g[n] \in Seq(A) }
  <2>1. 0 \in U
    BY <1>7, EmptySeq
  <2>2. ASSUME NEW n \in U PROVE n + 1 \in U
    <3> SUFFICES ASSUME n + 1 <= Len(s) PROVE g[n + 1] \in Seq(A)
      OBVIOUS
    <3>1. n + 1 \in 1 .. Len(s) /\ n <= Len(s) /\ (n + 1) - 1 = n
      BY <1>1
    <3>2. g[n] \in Seq(A) /\ s[n + 1] \in A
      BY <1>1, <3>1
    <3>3. Append(g[n], s[n + 1]) \in Seq(A)
      BY <3>2, AppendProperties
    <3> QED BY <1>7, <3>1, <3>2, <3>3
  <2> HIDE DEF U
  <2>3. U \in SUBSET Nat
    BY DEF U
  <2>4. U = Nat
    BY <2>1, <2>2, <2>3, SetInduction
  <2> QED BY <1>1, <2>4 DEF U
<1> QED BY <1>7, <1>8 DEF g

\* Of the empty sequence nothing is kept.
LEMMA KeptEmpty ==
  ASSUME NEW S
  PROVE  Kept(<<>>, S) = <<>>
<1>1. <<>> \in Seq(Nat) /\ Len(<<>>) = 0
  BY EmptySeq
<1>2. ASSUME NEW s \in Seq(Nat)  PROVE KeptUpTo(s, S)[0] = <<>>
  BY KeptUpToIs
<1>3. ASSUME NEW s \in Seq(Nat), Len(s) = 0  PROVE Kept(s, S) = <<>>
  BY <1>2, <1>3 DEF Kept
<1> QED BY <1>1, <1>3

\* What is kept of a sequence is made of the sequence's elements.
LEMMA KeptIsSeq ==
  ASSUME NEW A, NEW s \in Seq(A), NEW S
  PROVE  Kept(s, S) \in Seq(A)
<1>1. Len(s) \in 0 .. Len(s)
  BY LenProperties
<1> QED BY <1>1, KeptUpToIs DEF Kept

\* What is kept of an initial part does not depend on what comes after it.
LEMMA KeptPrefix ==
  ASSUME NEW A, NEW s \in Seq(A), NEW t \in Seq(A), NEW S,
         NEW m \in Nat, m <= Len(s), m <= Len(t), \A n \in 1 .. m : t[n] = s[n]
  PROVE  \A n \in 0 .. m : KeptUpTo(t, S)[n] = KeptUpTo(s, S)[n]
<1> DEFINE f == KeptUpTo(s, S)
           g == KeptUpTo(t, S)
           T == { n \in Nat : n <= m => g[n] = f[n] }
<1>1. Len(s) \in Nat /\ Len(t) \in Nat
  BY LenProperties
<1>2. /\ f[0] = <<>>
      /\ \A n \in 1 .. Len(s) : f[n] = IF s[n] \in S THEN Append(f[n - 1], s[n]) ELSE f[n - 1]
  BY KeptUpToIs
<1>3. /\ g[0] = <<>>
      /\ \A n \in 1 .. Len(t) : g[n] = IF t[n] \in S THEN Append(g[n - 1], t[n]) ELSE g[n - 1]
  BY KeptUpToIs
<1> HIDE DEF f, g
<1>4. 0 \in T
  BY <1>2, <1>3
<1>5. ASSUME NEW n \in T PROVE n + 1 \in T
  <2> SUFFICES ASSUME n + 1 <= m PROVE g[n + 1] = f[n + 1]
    OBVIOUS
  <2>1. /\ n + 1 \in 1 .. Len(s) /\ n + 1 \in 1 .. Len(t) /\ n <= m /\ (n + 1) - 1 = n
        /\ n + 1 \in 1 .. m
    BY <1>1
  <2>2. g[n] = f[n] /\ t[n + 1] = s[n + 1]
    BY <2>1
  <2> QED BY <1>2, <1>3, <2>1, <2>2
<1> HIDE DEF T
<1>6. T = Nat
  <2>1. T \in SUBSET Nat
    BY DEF T
  <2> QED BY <1>4, <1>5, <2>1, SetInduction
<1> QED BY <1>6 DEF T, f, g

\* What is kept of an initial part is an initial part of what is kept.
LEMMA KeptGrows ==
  ASSUME NEW A, NEW s \in Seq(A), NEW S, NEW m \in 0 .. Len(s), NEW k \in m .. Len(s)
  PROVE  StartsWith(KeptUpTo(s, S)[k], KeptUpTo(s, S)[m])
<1> DEFINE f == KeptUpTo(s, S)
           Starts(l) == StartsWith(f[l], f[m])
           T == { n \in Nat : m + n <= Len(s) => Starts(m + n) }
<1>1. /\ Len(s) \in Nat /\ m \in Nat
      /\ \A n \in 1 .. Len(s) : f[n] = IF s[n] \in S THEN Append(f[n - 1], s[n]) ELSE f[n - 1]
      /\ \A n \in 0 .. Len(s) : f[n] \in Seq(A)
      /\ \A n \in 1 .. Len(s) : s[n] \in A
  BY KeptUpToIs, LenProperties, ElementOfSeq
<1> HIDE DEF f
<1>2. 0 \in T
  <2>1. Len(f[m]) \in Nat
    BY <1>1, LenProperties
  <2> QED BY <1>1, <2>1 DEF StartsWith
<1>3. ASSUME NEW n \in T PROVE n + 1 \in T
  <2> SUFFICES ASSUME m + (n + 1) <= Len(s) PROVE Starts(m + (n + 1))
    <3> HIDE DEF Starts
    <3> QED OBVIOUS
  <2> DEFINE l == m + n
             h == m + (n + 1)
  <2>1. l \in 0 .. Len(s) /\ h \in 1 .. Len(s) /\ h - 1 = l /\ l <= Len(s)
    BY <1>1
  <2>2. Starts(l)
    BY <2>1
  <2>3. f[h] = IF s[h] \in S THEN Append(f[l], s[h]) ELSE f[l]
    BY <1>1, <2>1
  <2>4. f[l] \in Seq(A) /\ f[m] \in Seq(A) /\ s[h] \in A
    BY <1>1, <2>1
  <2>5. Len(f[m]) \in Nat /\ Len(f[l]) \in Nat
    BY <2>4, LenProperties
  <2> HIDE DEF l, h
  <2>6. CASE s[h] \in S
    <3> DEFINE fh == Append(f[l], s[h])
    <3>1. Len(fh) = Len(f[l]) + 1 /\ \A j \in 1 .. Len(f[l]) : fh[j] = f[l][j]
      BY <2>4, AppendProperties
    <3> HIDE DEF fh
    <3>2. f[h] = fh
      BY <2>3, <2>6 DEF fh
    <3>3. \A j \in 1 .. Len(f[m]) : j \in 1 .. Len(f[l])
      BY <2>2, <2>5 DEF StartsWith
    <3>4. Starts(h)
      BY <2>2, <2>5, <3>1, <3>2, <3>3 DEF StartsWith
    <3> QED BY <3>4 DEF h
  <2>7. CASE s[h] \notin S
    <3>1. Starts(h)
      BY <2>2, <2>3, <2>7 DEF StartsWith
    <3> QED BY <3>1 DEF h
  <2> QED BY <2>6, <2>7
<1> HIDE DEF T, Starts
<1>4. T = Nat
  <2>1. T \in SUBSET Nat
    BY DEF T
  <2> QED BY <1>2, <1>3, <2>1, SetInduction
<1>5. Starts(k)
  <2>1. k - m \in Nat /\ m + (k - m) = k /\ k <= Len(s)
    BY <1>1
  <2> QED BY <1>4, <2>1 DEF T
<1> QED BY <1>5 DEF Starts, f

\* An element more in the sequence.
LEMMA KeptAppend ==
  ASSUME NEW A, NEW s \in Seq(A), NEW S, NEW c \in A
  PROVE  Kept(Append(s, c), S) = IF c \in S THEN Append(Kept(s, S), c) ELSE Kept(s, S)
<1> DEFINE t == Append(s, c)
           f == KeptUpTo(s, S)
           g == KeptUpTo(t, S)
<1>1. /\ t \in Seq(A) /\ Len(t) = Len(s) + 1 /\ t[Len(s) + 1] = c /\ Len(s) \in Nat
      /\ \A n \in 1 .. Len(s) : t[n] = s[n]
  BY AppendProperties, LenProperties
<1> HIDE DEF t
<1>2. \A n \in 1 .. Len(t) : g[n] = IF t[n] \in S THEN Append(g[n - 1], t[n]) ELSE g[n - 1]
  BY <1>1, KeptUpToIs
<1>3. Len(s) <= Len(t)
  BY <1>1
<1>4. g[Len(s)] = f[Len(s)]
  <2>1. Len(s) \in 0 .. Len(s) /\ Len(s) <= Len(s)
    BY <1>1
  <2> QED BY <1>1, <1>3, <2>1, KeptPrefix
<1> HIDE DEF f, g
<1>5. Len(s) + 1 \in 1 .. Len(t) /\ (Len(s) + 1) - 1 = Len(s)
  BY <1>1
<1>6. g[Len(s) + 1] = IF c \in S THEN Append(f[Len(s)], c) ELSE f[Len(s)]
  BY <1>1, <1>2, <1>4, <1>5
<1> QED BY <1>1, <1>6 DEF Kept, f, g, t

\* What is kept of a sequence that goes on with another.
LEMMA KeptConcat ==
  ASSUME NEW A, NEW s \in Seq(A), NEW t \in Seq(A), NEW S
  PROVE  Kept(s \o t, S) = Kept(s, S) \o Kept(t, S)
<1> DEFINE T == { n \in Nat : \A r \in Seq(A) :
                    Len(r) = n => Kept(s \o r, S) = Kept(s, S) \o Kept(r, S) }
<1>1. Kept(s, S) \in Seq(A)
  BY KeptIsSeq
<1>2. 0 \in T
  <2> SUFFICES ASSUME NEW r \in Seq(A), Len(r) = 0
               PROVE  Kept(s \o r, S) = Kept(s, S) \o Kept(r, S)
    OBVIOUS
  <2>1. r = <<>>
    BY EmptySeq
  <2>2. s \o <<>> = s /\ Kept(s, S) \o <<>> = Kept(s, S)
    BY <1>1, ConcatEmptySeq
  <2> QED BY <2>1, <2>2, KeptEmpty
<1>3. ASSUME NEW n \in T PROVE n + 1 \in T
  <2> SUFFICES ASSUME NEW r \in Seq(A), Len(r) = n + 1
               PROVE  Kept(s \o r, S) = Kept(s, S) \o Kept(r, S)
    OBVIOUS
  <2>1. n \in Nat
    OBVIOUS
  <2>2. PICK q \in Seq(A), c \in A : r = Append(q, c) /\ Len(q) = n
    <3> DEFINE q == [k \in 1 .. n |-> r[k]]
    <3>1. /\ n + 1 \in 1 .. Len(r) /\ \A k \in 1 .. n : k \in 1 .. Len(r)
      BY <2>1
    <3>2. r[n + 1] \in A /\ \A k \in 1 .. n : r[k] \in A
      BY <3>1, ElementOfSeq
    <3>3. q \in [1 .. n -> A]
      BY <3>2
    <3>4. q \in Seq(A)
      BY <2>1, <3>3, SeqDef
    <3>5. Len(q) = n
      <4>1. Len(q) \in Nat /\ DOMAIN q = 1 .. Len(q)
        BY <3>4, LenProperties
      <4>2. 1 .. Len(q) = 1 .. n
        BY <4>1
      <4> HIDE DEF q
      <4>3. \A a, b \in Nat : 1 .. a = 1 .. b => a = b
        OBVIOUS
      <4> QED BY <2>1, <4>1, <4>2, <4>3
    <3>6. \A k \in 1 .. n : q[k] = r[k]
      OBVIOUS
    <3> HIDE DEF q
    <3>7. /\ Append(q, r[n + 1]) \in Seq(A) /\ Len(Append(q, r[n + 1])) = n + 1
          /\ Append(q, r[n + 1])[n + 1] = r[n + 1]
          /\ \A k \in 1 .. n : Append(q, r[n + 1])[k] = q[k]
      BY <3>2, <3>4, <3>5, AppendProperties
    <3>8. \A k \in 1 .. n + 1 : Append(q, r[n + 1])[k] = r[k]
      BY <2>1, <3>6, <3>7
    <3>9. Append(q, r[n + 1]) = r
      BY <3>7, <3>8, SeqEqual
    <3> QED BY <3>2, <3>4, <3>5, <3>9
  <2>3. Kept(s \o q, S) = Kept(s, S) \o Kept(q, S)
    BY <2>2
  <2>4. /\ s \o r = Append(s \o q, c) /\ s \o q \in Seq(A) /\ Kept(q, S) \in Seq(A)
    BY <2>2, WriteAppendsToWord, ConcatProperties, KeptIsSeq
  <2> DEFINE sq == s \o q
  <2>7. sq \in Seq(A) /\ s \o r = Append(sq, c)
    BY <2>4
  <2> HIDE DEF sq
  <2>8. Kept(s \o r, S) = IF c \in S THEN Append(Kept(sq, S), c) ELSE Kept(sq, S)
    <3>1. Kept(Append(sq, c), S) = IF c \in S THEN Append(Kept(sq, S), c) ELSE Kept(sq, S)
      BY <2>2, <2>7, KeptAppend
    <3> QED BY <2>7, <3>1
  <2>5. CASE c \in S
    <3>1. Kept(s \o r, S) = Append(Kept(s, S) \o Kept(q, S), c)
      BY <2>3, <2>5, <2>8 DEF sq
    <3>2. Kept(r, S) = Append(Kept(q, S), c)
      BY <2>2, <2>5, KeptAppend
    <3>3. Kept(s, S) \o Append(Kept(q, S), c) = Append(Kept(s, S) \o Kept(q, S), c)
      BY <1>1, <2>4, WriteAppendsToWord
    <3> QED BY <3>1, <3>2, <3>3
  <2>6. CASE c \notin S
    <3>1. Kept(s \o r, S) = Kept(s, S) \o Kept(q, S)
      BY <2>3, <2>6, <2>8 DEF sq
    <3>2. Kept(r, S) = Kept(q, S)
      BY <2>2, <2>6, KeptAppend
    <3> QED BY <3>1, <3>2
  <2> QED BY <2>5, <2>6
<1> HIDE DEF T
<1>4. T = Nat
  <2>1. T \in SUBSET Nat
    BY DEF T
  <2> QED BY <1>2, <1>3, <2>1, SetInduction
<1>5. Len(t) \in T
  BY <1>4, LenProperties
<1> QED BY <1>5 DEF T

\* Nothing is kept of a sequence that has no element in the set.
LEMMA KeptNone ==
  ASSUME NEW A, NEW s \in Seq(A), NEW S, \A n \in 1 .. Len(s) : s[n] \notin S
  PROVE  Kept(s, S) = <<>>
<1> DEFINE f == KeptUpTo(s, S)
           T == { n \in Nat : n <= Len(s) => f[n] = <<>> }
<1>1. /\ f[0] = <<>> /\ Len(s) \in Nat
      /\ \A n \in 1 .. Len(s) : f[n] = IF s[n] \in S THEN Append(f[n - 1], s[n]) ELSE f[n - 1]
  BY KeptUpToIs, LenProperties
<1> HIDE DEF f
<1>2. 0 \in T
  BY <1>1
<1>3. ASSUME NEW n \in T PROVE n + 1 \in T
  <2> SUFFICES ASSUME n + 1 <= Len(s) PROVE f[n + 1] = <<>>
    OBVIOUS
  <2>1. n + 1 \in 1 .. Len(s) /\ n <= Len(s) /\ (n + 1) - 1 = n
    BY <1>1
  <2>2. f[n] = <<>> /\ s[n + 1] \notin S
    BY <2>1
  <2> QED BY <1>1, <2>1, <2>2
<1> HIDE DEF T
<1>4. T = Nat
  <2>1. T \in SUBSET Nat
    BY DEF T
  <2> QED BY <1>2, <1>3, <2>1, SetInduction
<1>5. f[Len(s)] = <<>>
  BY <1>1, <1>4 DEF T
<1> QED BY <1>5 DEF Kept, f

\* What is kept of a sequence, from its first element on.
LEMMA KeptFirst ==
  ASSUME NEW A, NEW c \in A, NEW s \in Seq(A), NEW S
  PROVE  Kept(<<c>> \o s, S) = IF c \in S THEN <<c>> \o Kept(s, S) ELSE Kept(s, S)
<1>1. <<>> \in Seq(A) /\ <<c>> \in Seq(A) /\ <<c>> = Append(<<>>, c)
  BY EmptySeq
<1>2. PICK e \in Seq(A), o \in Seq(A) : e = <<>> /\ o = <<c>>
  BY <1>1
<1>3. Kept(o, S) = IF c \in S THEN <<c>> ELSE <<>>
  <2>1. Kept(Append(e, c), S) = IF c \in S THEN Append(Kept(e, S), c) ELSE Kept(e, S)
    BY KeptAppend
  <2>2. Kept(e, S) = <<>>
    BY <1>2, KeptEmpty
  <2> QED BY <1>1, <1>2, <2>1, <2>2
<1>4. Kept(o \o s, S) = Kept(o, S) \o Kept(s, S)
  BY KeptConcat
<1>5. Kept(s, S) \in Seq(A)
  BY KeptIsSeq
<1>6. <<>> \o Kept(s, S) = Kept(s, S)
  BY <1>5, ConcatEmptySeq
<1> QED BY <1>2, <1>3, <1>4, <1>6
=============================================================================
