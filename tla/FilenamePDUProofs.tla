------------------------- MODULE FilenamePDUProofs --------------------------
(***************************************************************************)
(* The filename PDU: that the checksum rcopy puts in is the one main looks *)
(* for, that main reads what rcopy asked for, and when it takes another    *)
(* datagram for a request.  For every length of the name field, all        *)
(* command lines and all sequence numbers.                                 *)
(***************************************************************************)
EXTENDS FilenamePDU, TLAPS, SequenceTheorems, WellFoundedInduction

-----------------------------------------------------------------------------
(* Induction, for a set of numbers in place of a predicate.                *)

LEMMA LeastNumber ==
  ASSUME NEW T, T \subseteq Nat, T # {}
  PROVE  \E n \in T : \A m \in T : n <= m
<1>1. PICK n \in T : \A m \in T : ~(<<m, n>> \in OpToRel(<, Nat))
  BY NatLessThanWellFounded, WFMin
<1>2. \A m \in T : ~(m < n)
  BY <1>1 DEF OpToRel
<1> QED
  BY <1>2

LEMMA Induction ==
  ASSUME NEW T, T \subseteq Nat, 0 \in T, \A n \in T : n + 1 \in T
  PROVE  T = Nat
<1>1. SUFFICES ASSUME Nat \ T # {} PROVE FALSE
  OBVIOUS
<1>2. PICK n \in Nat \ T : \A m \in Nat \ T : n <= m
  BY <1>1, LeastNumber
<1>3. n - 1 \in Nat
  BY <1>2
<1> QED
  BY <1>2, <1>3

-----------------------------------------------------------------------------
(* The loop of in_cksum.                                                   *)

IsSum(s, w, n) == s = [i \in 0 .. n |-> IF i = 0 THEN 0 ELSE s[i - 1] + w[i]]

\* The loop's partial sums exist, so Total is the last of them.
LEMMA SumExists ==
  ASSUME NEW w, NEW n \in Nat PROVE \E s : IsSum(s, w, n)
<1> DEFINE T == {k \in Nat : \E s : IsSum(s, w, k)}
<1>1. 0 \in T
  <2>1. IsSum([i \in 0 .. 0 |-> 0], w, 0)
    BY DEF IsSum
  <2> QED
    BY <2>1
<1>2. ASSUME NEW k \in T PROVE k + 1 \in T
  <2>1. PICK s : IsSum(s, w, k)
    BY <1>2
  <2> DEFINE r == [i \in 0 .. k + 1 |-> IF i = k + 1 THEN s[k] + w[k + 1] ELSE s[i]]
  <2>2. ASSUME NEW i \in 0 .. k + 1
        PROVE  r[i] = IF i = 0 THEN 0 ELSE r[i - 1] + w[i]
    <3>1. \A j \in 0 .. k : s[j] = IF j = 0 THEN 0 ELSE s[j - 1] + w[j]
      BY <2>1 DEF IsSum
    <3>2. CASE i = k + 1
      BY <3>2
    <3>3. CASE i \in 0 .. k
      BY <3>1, <3>3
    <3> QED
      BY <3>2, <3>3
  <2>3. IsSum(r, w, k + 1)
    BY <2>2 DEF IsSum
  <2> QED
    BY <2>3
<1> HIDE DEF T
<1>3. T = Nat
  BY <1>1, <1>2, Induction DEF T
<1> QED
  BY <1>3 DEF T

LEMMA TotalIsSum ==
  ASSUME NEW w, NEW n \in Nat
  PROVE  \E s : IsSum(s, w, n) /\ Total(w, n) = s[n]
<1>1. Total(w, n) = (CHOOSE s : IsSum(s, w, n))[n]
  BY DEF Total, IsSum
<1>2. \E s : IsSum(s, w, n)
  BY SumExists
<1> QED
  BY <1>1, <1>2

\* One round more leaves the earlier partial sums as they are.
LEMMA SumUnique ==
  ASSUME NEW w, NEW n \in Nat, NEW r, IsSum(r, w, n), NEW s, IsSum(s, w, n + 1)
  PROVE  r[n] = s[n]
<1> DEFINE T == {k \in Nat : k <= n => r[k] = s[k]}
<1>1. 0 \in T
  BY DEF IsSum
<1>2. ASSUME NEW k \in T PROVE k + 1 \in T
  <2>1. SUFFICES ASSUME k + 1 <= n PROVE r[k + 1] = s[k + 1]
    OBVIOUS
  <2>2. r[k] = s[k]
    BY <1>2, <2>1
  <2>3. r[k + 1] = r[k] + w[k + 1] /\ s[k + 1] = s[k] + w[k + 1]
    BY <2>1 DEF IsSum
  <2> QED
    BY <2>2, <2>3
<1> HIDE DEF T
<1>3. T = Nat
  BY <1>1, <1>2, Induction DEF T
<1> QED
  BY <1>3 DEF T

\* Word by word.
LEMMA TotalSteps ==
  ASSUME NEW w
  PROVE  /\ Total(w, 0) = 0
         /\ \A n \in Nat : Total(w, n + 1) = Total(w, n) + w[n + 1]
<1>1. Total(w, 0) = 0
  BY TotalIsSum DEF IsSum
<1>2. ASSUME NEW n \in Nat PROVE Total(w, n + 1) = Total(w, n) + w[n + 1]
  <2>1. PICK s : IsSum(s, w, n + 1) /\ Total(w, n + 1) = s[n + 1]
    BY TotalIsSum
  <2>2. PICK r : IsSum(r, w, n) /\ Total(w, n) = r[n]
    BY TotalIsSum
  <2>3. r[n] = s[n]
    BY <2>1, <2>2, SumUnique
  <2>4. s[n + 1] = s[n] + w[n + 1]
    BY <2>1 DEF IsSum
  <2> QED
    BY <2>1, <2>2, <2>3, <2>4
<1> QED
  BY <1>1, <1>2

\* The sum of n words of 16 bits.
LEMMA TotalBound ==
  ASSUME NEW w, NEW n \in Nat, \A i \in 1 .. n : w[i] \in Nat /\ w[i] <= 65535
  PROVE  Total(w, n) \in Nat /\ Total(w, n) <= 65535 * n
<1> DEFINE T == {k \in Nat : k <= n => Total(w, k) \in Nat /\ Total(w, k) <= 65535 * k}
<1>1. 0 \in T
  BY TotalSteps
<1>2. ASSUME NEW k \in T PROVE k + 1 \in T
  <2>1. SUFFICES ASSUME k + 1 <= n
                 PROVE  Total(w, k + 1) \in Nat /\ Total(w, k + 1) <= 65535 * (k + 1)
    OBVIOUS
  <2>2. Total(w, k + 1) = Total(w, k) + w[k + 1]
    BY TotalSteps
  <2>3. /\ Total(w, k) \in Nat /\ Total(w, k) <= 65535 * k
        /\ w[k + 1] \in Nat /\ w[k + 1] <= 65535
    BY <1>2, <2>1
  <2> QED
    BY <2>2, <2>3
<1>3. T \subseteq Nat /\ \A k \in T : k + 1 \in T
  BY <1>2
<1> HIDE DEF T
<1>4. T = Nat
  BY ONLY <1>1, <1>3, Induction
<1> QED
  BY <1>4 DEF T

\* The sum of two arrays, word by word.
LEMMA TotalAdds ==
  ASSUME NEW u, NEW v, NEW w, NEW n \in Nat,
         \A i \in 1 .. n : v[i] \in Int /\ w[i] \in Int /\ u[i] = v[i] + w[i]
  PROVE  Total(u, n) = Total(v, n) + Total(w, n)
<1> DEFINE T == {k \in Nat : k <= n => /\ Total(v, k) \in Int /\ Total(w, k) \in Int
                                       /\ Total(u, k) = Total(v, k) + Total(w, k)}
<1>1. 0 \in T
  BY TotalSteps
<1>2. ASSUME NEW k \in T PROVE k + 1 \in T
  <2>1. SUFFICES ASSUME k + 1 <= n
                 PROVE  /\ Total(v, k + 1) \in Int /\ Total(w, k + 1) \in Int
                        /\ Total(u, k + 1) = Total(v, k + 1) + Total(w, k + 1)
    OBVIOUS
  <2>2. /\ Total(u, k + 1) = Total(u, k) + u[k + 1]
        /\ Total(v, k + 1) = Total(v, k) + v[k + 1]
        /\ Total(w, k + 1) = Total(w, k) + w[k + 1]
    BY TotalSteps
  <2>3. /\ Total(v, k) \in Int /\ Total(w, k) \in Int
        /\ Total(u, k) = Total(v, k) + Total(w, k)
        /\ v[k + 1] \in Int /\ w[k + 1] \in Int /\ u[k + 1] = v[k + 1] + w[k + 1]
    BY <1>2, <2>1
  <2> QED
    BY <2>2, <2>3
<1> HIDE DEF T
<1>3. T = Nat
  BY <1>1, <1>2, Induction DEF T
<1> QED
  BY <1>3 DEF T

LEMMA TotalInt ==
  ASSUME NEW w, NEW n \in Nat, \A i \in 1 .. n : w[i] \in Int PROVE Total(w, n) \in Int
<1> DEFINE T == {k \in Nat : k <= n => Total(w, k) \in Int}
<1>1. 0 \in T
  BY TotalSteps
<1>2. ASSUME NEW k \in T PROVE k + 1 \in T
  BY <1>2, TotalSteps
<1> HIDE DEF T
<1>3. T = Nat
  BY <1>1, <1>2, Induction DEF T
<1> QED
  BY <1>3 DEF T

\* Zeros behind the words add nothing.
LEMMA TotalPadded ==
  ASSUME NEW v, NEW w, NEW m \in Nat, NEW n \in Nat, m <= n,
         \A i \in 1 .. m : v[i] = w[i] /\ v[i] \in Int, \A i \in m + 1 .. n : w[i] = 0
  PROVE  Total(w, n) = Total(v, m)
<1> DEFINE T == {k \in Nat : k <= n => Total(w, k) = Total(v, IF k <= m THEN k ELSE m)}
<1>1. Total(v, 0) = 0 /\ Total(w, 0) = 0 /\ Total(v, m) \in Int
  BY TotalSteps, TotalInt
<1>2. 0 \in T
  BY <1>1
<1>3. ASSUME NEW k \in T PROVE k + 1 \in T
  <2>1. SUFFICES ASSUME k + 1 <= n
                 PROVE  Total(w, k + 1) = Total(v, IF k + 1 <= m THEN k + 1 ELSE m)
    OBVIOUS
  <2>2. Total(w, k + 1) = Total(w, k) + w[k + 1] /\ Total(v, k + 1) = Total(v, k) + v[k + 1]
    BY TotalSteps
  <2>3. Total(w, k) = Total(v, IF k <= m THEN k ELSE m)
    BY <1>3, <2>1
  <2>4. CASE k + 1 <= m
    BY <2>1, <2>2, <2>3, <2>4
  <2>5. CASE k + 1 > m
    <3>1. w[k + 1] = 0
      BY <2>1, <2>5
    <3>2. Total(w, k) = Total(v, m)
      BY <2>3, <2>5
    <3> QED
      BY <1>1, <2>2, <2>5, <3>1, <3>2
  <2> QED
    BY <2>4, <2>5
<1> HIDE DEF T
<1>4. T = Nat
  BY <1>2, <1>3, Induction DEF T
<1>5. n <= m => n = m
  OBVIOUS
<1> QED
  BY <1>4, <1>5 DEF T

-----------------------------------------------------------------------------
(* Words of a buffer.                                                      *)

Bytes == Seq(0 .. 255)

LEMMA ElementOf ==
  ASSUME NEW S, NEW s \in Seq(S), NEW k \in 1 .. Len(s) PROVE s[k] \in S
OBVIOUS

LEMMA ByteFacts ==
  ASSUME NEW b \in Bytes, NEW k \in Nat \ {0}
  PROVE  /\ ByteAt(b, k) \in Nat /\ ByteAt(b, k) <= 255
         /\ k > Len(b) => ByteAt(b, k) = 0
<1>1. Len(b) \in Nat
  BY DEF Bytes
<1>2. CASE k <= Len(b)
  <2>1. k \in 1 .. Len(b)
    BY <1>1, <1>2
  <2>2. b[k] \in 0 .. 255
    BY <2>1, ElementOf, Zenon DEF Bytes
  <2>3. ByteAt(b, k) \in 0 .. 255
    BY <1>2, <2>2, Zenon DEF ByteAt
  <2>4. \A x \in 0 .. 255 : x \in Nat /\ x <= 255
    OBVIOUS
  <2>5. ByteAt(b, k) \in Nat /\ ByteAt(b, k) <= 255
    BY <2>3, <2>4, Zenon
  <2> QED
    BY <1>1, <1>2, <2>5
<1>3. CASE k > Len(b)
  BY <1>1, <1>3 DEF ByteAt
<1> QED
  BY <1>1, <1>2, <1>3

LEMMA WordFacts ==
  ASSUME NEW b \in Bytes, NEW i \in Nat \ {0}
  PROVE  /\ Word(b, i) \in Nat /\ Word(b, i) <= 65535
         /\ i > Len(b) => Word(b, i) = 0
<1>1. 2 * i - 1 \in Nat \ {0} /\ 2 * i \in Nat \ {0} /\ Len(b) \in Nat
  BY DEF Bytes
<1>2. /\ ByteAt(b, 2 * i - 1) \in Nat /\ ByteAt(b, 2 * i - 1) <= 255
      /\ ByteAt(b, 2 * i) \in Nat /\ ByteAt(b, 2 * i) <= 255
  BY <1>1, ByteFacts
<1>3. ASSUME i > Len(b) PROVE ByteAt(b, 2 * i - 1) = 0 /\ ByteAt(b, 2 * i) = 0
  <2>1. 2 * i - 1 > Len(b) /\ 2 * i > Len(b)
    BY <1>1, <1>3
  <2> QED
    BY <1>1, <2>1, ByteFacts
<1> QED
  BY <1>2, <1>3 DEF Word

Words(b, n) == [i \in 1 .. n |-> Word(b, i)]

\* The zeros behind a buffer may be counted in or left out.
LEMMA WordSumWide ==
  ASSUME NEW b \in Bytes, NEW n \in Nat, Len(b) < n
  PROVE  WordSum(b) = Total(Words(b, n), n)
<1> DEFINE m == Len(b) + 1
<1>1. Len(b) \in Nat /\ m \in Nat /\ m <= n
  BY DEF Bytes
<1>2. \A i \in 1 .. m : Words(b, m)[i] = Words(b, n)[i] /\ Words(b, m)[i] \in Int
  BY <1>1, WordFacts DEF Words
<1>3. \A i \in m + 1 .. n : Words(b, n)[i] = 0
  BY <1>1, WordFacts DEF Words
<1>4. WordSum(b) = Total(Words(b, m), m)
  BY DEF WordSum, Words
<1> HIDE DEF m
<1>5. Total(Words(b, n), n) = Total(Words(b, m), m)
  BY <1>1, <1>2, <1>3, TotalPadded
<1> QED
  BY <1>4, <1>5

LEMMA WordSumBound ==
  ASSUME NEW b \in Bytes PROVE WordSum(b) \in Nat /\ WordSum(b) <= 65535 * (Len(b) + 1)
<1> DEFINE m == Len(b) + 1
<1>1. m \in Nat /\ Len(b) < m
  BY DEF Bytes
<1>2. \A i \in 1 .. m : Words(b, m)[i] \in Nat /\ Words(b, m)[i] <= 65535
  BY <1>1, WordFacts DEF Words
<1>3. WordSum(b) = Total(Words(b, m), m)
  BY <1>1, WordSumWide
<1>4. Total(Words(b, m), m) \in Nat /\ Total(Words(b, m), m) <= 65535 * m
  <2> HIDE DEF m
  <2> QED
    BY <1>1, <1>2, TotalBound
<1> QED
  BY <1>3, <1>4

\* A buffer that is the sum of two, byte by byte.
LEMMA WordSumAdds ==
  ASSUME NEW a \in Bytes, NEW b \in Bytes, NEW c \in Bytes,
         \A k \in Nat \ {0} : ByteAt(a, k) = ByteAt(b, k) + ByteAt(c, k)
  PROVE  WordSum(a) = WordSum(b) + WordSum(c)
<1> DEFINE n == Len(a) + Len(b) + Len(c) + 1
<1>1. n \in Nat /\ Len(a) < n /\ Len(b) < n /\ Len(c) < n
  BY DEF Bytes
<1> HIDE DEF n
<1>2. ASSUME NEW i \in 1 .. n
      PROVE  /\ Words(b, n)[i] \in Int /\ Words(c, n)[i] \in Int
             /\ Words(a, n)[i] = Words(b, n)[i] + Words(c, n)[i]
  <2>1. i \in Nat \ {0} /\ 2 * i - 1 \in Nat \ {0} /\ 2 * i \in Nat \ {0}
    BY <1>1
  <2>2. /\ ByteAt(a, 2 * i - 1) = ByteAt(b, 2 * i - 1) + ByteAt(c, 2 * i - 1)
        /\ ByteAt(a, 2 * i) = ByteAt(b, 2 * i) + ByteAt(c, 2 * i)
    BY <2>1
  <2>3. /\ ByteAt(b, 2 * i - 1) \in Nat /\ ByteAt(c, 2 * i - 1) \in Nat
        /\ ByteAt(b, 2 * i) \in Nat /\ ByteAt(c, 2 * i) \in Nat
    BY <2>1, ByteFacts
  <2>4. Word(a, i) = Word(b, i) + Word(c, i) /\ Word(b, i) \in Int /\ Word(c, i) \in Int
    BY <2>2, <2>3 DEF Word
  <2> QED
    BY <2>4 DEF Words
<1>3. Total(Words(a, n), n) = Total(Words(b, n), n) + Total(Words(c, n), n)
  BY <1>1, <1>2, TotalAdds
<1> QED
  BY <1>1, <1>3, WordSumWide

-----------------------------------------------------------------------------
(* The checksum.                                                           *)

Fold(s) == (s \div 65536) + (s % 65536)
Complete(s) == s % 65535 = 0
FitsInt(s) == s \in Nat /\ s < 2147483648
Answer(s) == 65535 - ((Fold(s) + (Fold(s) \div 65536)) % 65536)

\* With all of the buffer in, a checksum completes the sum to a multiple of
\* 65535, and it is 0 exactly when there was nothing to complete.
LEMMA AnswerFacts ==
  ASSUME NEW s \in Nat, FitsInt(s)
  PROVE  /\ Answer(s) \in Nat /\ Answer(s) <= 65535
         /\ s + Answer(s) > 0 /\ Complete(s + Answer(s))
         /\ s > 0 => (Answer(s) = 0 <=> Complete(s))
<1> DEFINE hi == s \div 65536
           f == Fold(s)
<1>1. hi \in Nat /\ hi <= 32767 /\ f \in Nat /\ f <= 98302 /\ s = 65535 * hi + f
      /\ (s > 0 => f > 0)
  BY SMT DEF Fold, FitsInt
<1> HIDE DEF hi, f
<1>2. CASE f <= 65535
  <2>1. Answer(s) = 65535 - f
    BY <1>1, <1>2, SMT DEF Answer, f
  <2>2. s + Answer(s) = 65535 * (hi + 1)
    BY <1>1, <2>1, SMT
  <2>3. (65535 * (hi + 1)) % 65535 = 0 /\ 65535 * (hi + 1) > 0
    BY <1>1, SMT
  <2>4. s % 65535 = IF f = 65535 THEN 0 ELSE f
    BY <1>1, <1>2, SMT
  <2>5. Answer(s) \in Nat /\ Answer(s) <= 65535
    BY <1>1, <1>2, <2>1, SMT
  <2>6. s + Answer(s) > 0 /\ (s + Answer(s)) % 65535 = 0
    BY <2>2, <2>3, SMT
  <2>7. s > 0 => (Answer(s) = 0 <=> s % 65535 = 0)
    BY <1>1, <1>2, <2>1, <2>4, SMT
  <2> QED
    BY <2>5, <2>6, <2>7, SMT DEF Complete
<1>3. CASE f > 65535
  <2>1. Answer(s) = 131070 - f
    BY <1>1, <1>3, SMT DEF Answer, f
  <2>2. s + Answer(s) = 65535 * (hi + 2)
    BY <1>1, <2>1, SMT
  <2>3. (65535 * (hi + 2)) % 65535 = 0 /\ 65535 * (hi + 2) > 0
    BY <1>1, SMT
  <2>4. s % 65535 = f - 65535
    BY <1>1, <1>3, SMT
  <2>5. Answer(s) \in Nat /\ Answer(s) <= 65535
    BY <1>1, <1>3, <2>1, SMT
  <2>6. s + Answer(s) > 0 /\ (s + Answer(s)) % 65535 = 0
    BY <2>2, <2>3, SMT
  <2>7. s > 0 => (Answer(s) = 0 <=> s % 65535 = 0)
    BY <1>1, <1>3, <2>1, <2>4, SMT
  <2> QED
    BY <2>5, <2>6, <2>7, SMT DEF Complete
<1> QED
  BY <1>1, <1>2, <1>3, SMT

\* A buffer as long as a filename PDU at most: no sum leaves the int.
Buffers == {b \in Bytes : Len(b) <= PDULen}

LEMMA SumFits ==
  ASSUME NEW b \in Buffers PROVE WordSum(b) \in Nat /\ FitsInt(WordSum(b))
<1>1. Len(b) \in Nat /\ Len(b) <= 32013
  BY FilenameAssumption, SMT DEF Buffers, Bytes, PDULen, HeaderLen
<1>2. WordSum(b) \in Nat /\ WordSum(b) <= 65535 * (Len(b) + 1)
  BY WordSumBound, SMT DEF Buffers
<1> QED
  BY <1>1, <1>2, SMT DEF FitsInt

LEMMA CksumIsAnswer ==
  ASSUME NEW b PROVE in_cksum(b) = Answer(WordSum(b))
BY SMT DEF in_cksum, Answer, Fold

\* The test main and rcopy make.
LEMMA CksumZero ==
  ASSUME NEW b \in Buffers, WordSum(b) > 0
  PROVE  in_cksum(b) = 0 <=> Complete(WordSum(b))
BY SumFits, AnswerFacts, CksumIsAnswer

-----------------------------------------------------------------------------
(* Putting the checksum in.                                                *)

\* c in bytes 5 and 6, its low byte first, and nothing else.
Stamp(c) == <<0, 0, 0, 0, c % 256, c \div 256>>

LEMMA StampSum ==
  ASSUME NEW c \in Nat, c <= 65535
  PROVE  Stamp(c) \in Bytes /\ WordSum(Stamp(c)) = c
<1> DEFINE x == Stamp(c)
<1>1. c % 256 \in 0 .. 255 /\ c \div 256 \in 0 .. 255 /\ c = (c % 256) + 256 * (c \div 256)
  BY SMT
<1>2. x \in Bytes /\ Len(x) = 6
  BY <1>1 DEF Bytes, Stamp
<1>3. /\ Word(x, 1) = 0 /\ Word(x, 2) = 0 /\ Word(x, 3) = c
      /\ Word(x, 4) = 0 /\ Word(x, 5) = 0 /\ Word(x, 6) = 0 /\ Word(x, 7) = 0
  BY <1>1, SMT DEF Word, ByteAt, Stamp
<1> HIDE DEF x
<1> DEFINE w == Words(x, 7)
<1>4. WordSum(x) = Total(w, 7)
  <2>1. PICK n \in Nat : n = 7 /\ Len(x) < n
    BY <1>2
  <2>2. WordSum(x) = Total(Words(x, n), n)
    BY ONLY <1>2, <2>1, WordSumWide
  <2> QED
    BY <2>1, <2>2
<1>5. /\ w[1] = 0 /\ w[2] = 0 /\ w[3] = c
      /\ w[4] = 0 /\ w[5] = 0 /\ w[6] = 0 /\ w[7] = 0
  BY <1>3 DEF Words
<1> HIDE DEF w
<1>6. /\ Total(w, 0) = 0
      /\ \A n \in Nat : Total(w, n + 1) = Total(w, n) + w[n + 1]
  BY TotalSteps
<1>7. /\ Total(w, 0 + 1) = Total(w, 0) + w[0 + 1]
      /\ Total(w, 1 + 1) = Total(w, 1) + w[1 + 1]
      /\ Total(w, 2 + 1) = Total(w, 2) + w[2 + 1]
      /\ Total(w, 3 + 1) = Total(w, 3) + w[3 + 1]
      /\ Total(w, 4 + 1) = Total(w, 4) + w[4 + 1]
      /\ Total(w, 5 + 1) = Total(w, 5) + w[5 + 1]
      /\ Total(w, 6 + 1) = Total(w, 6) + w[6 + 1]
  BY <1>6
<1>8. Total(w, 7) = c
  BY <1>5, <1>6, <1>7
<1> QED
  BY <1>2, <1>4, <1>8 DEF x

\* What rcopy sends: the PDU it built with zeros in bytes 5 and 6, then stamped.
LEMMA Stamped ==
  ASSUME NEW b \in Buffers, Len(b) >= 6, b[5] = 0, b[6] = 0
  PROVE  /\ AfterChecksum(b) \in Buffers
         /\ Len(AfterChecksum(b)) = Len(b)
         /\ \A k \in 1 .. Len(b) : k \notin {5, 6} => AfterChecksum(b)[k] = b[k]
         /\ WordSum(AfterChecksum(b)) > 0
         /\ Complete(WordSum(AfterChecksum(b)))
<1> DEFINE c == in_cksum(b)
           a == AfterChecksum(b)
<1>1. c \in Nat /\ c <= 65535 /\ WordSum(b) + c > 0 /\ Complete(WordSum(b) + c)
  BY SumFits, AnswerFacts, CksumIsAnswer
<1>2. c % 256 \in 0 .. 255 /\ c \div 256 \in 0 .. 255
  <2> HIDE DEF c
  <2> QED
    BY <1>1, SMT
<1>3. a = [b EXCEPT ![5] = c % 256, ![6] = c \div 256]
  BY DEF AfterChecksum
<1>4. b \in Bytes /\ Len(b) \in Nat /\ Len(b) <= PDULen
  BY DEF Buffers, Bytes
<1> HIDE DEF c, a
<1>5. /\ a \in Bytes /\ Len(a) = Len(b) /\ a[5] = c % 256 /\ a[6] = c \div 256
      /\ \A k \in 1 .. Len(b) : k \notin {5, 6} => a[k] = b[k]
  BY <1>2, <1>3, <1>4, SMT DEF Bytes
<1>6. ASSUME NEW k \in Nat \ {0} PROVE ByteAt(a, k) = ByteAt(b, k) + ByteAt(Stamp(c), k)
  <2>1. ByteAt(b, k) \in Nat
    BY <1>4, ByteFacts
  <2>2. ByteAt(Stamp(c), k) = IF k = 5 THEN c % 256 ELSE IF k = 6 THEN c \div 256 ELSE 0
    BY SMT DEF ByteAt, Stamp
  <2>3. CASE k = 5 \/ k = 6
    <3>1. ByteAt(b, k) = 0
      BY <1>4, <2>3, SMT DEF ByteAt
    <3>2. ByteAt(a, k) = IF k = 5 THEN c % 256 ELSE c \div 256
      BY <1>4, <1>5, <2>3, SMT DEF ByteAt
    <3>3. ByteAt(Stamp(c), k) = ByteAt(a, k) /\ ByteAt(a, k) \in Nat
      BY <1>5, <2>2, <2>3, <3>2, ByteFacts
    <3> QED
      BY <3>1, <3>3
  <2>4. CASE k \notin {5, 6}
    <3>1. ByteAt(a, k) = ByteAt(b, k)
      BY <1>4, <1>5, <2>4, SMT DEF ByteAt
    <3>2. ByteAt(Stamp(c), k) = 0
      BY <2>2, <2>4
    <3> QED
      BY <2>1, <3>1, <3>2
  <2> QED
    BY <2>3, <2>4
<1>7. WordSum(a) = WordSum(b) + c
  <2>1. Stamp(c) \in Bytes /\ WordSum(Stamp(c)) = c
    BY <1>1, StampSum
  <2>2. WordSum(a) = WordSum(b) + WordSum(Stamp(c))
    BY <1>4, <1>5, <1>6, <2>1, WordSumAdds
  <2> QED
    BY <2>1, <2>2
<1> QED
  BY <1>1, <1>4, <1>5, <1>7 DEF a, Buffers

-----------------------------------------------------------------------------
(* The front of a buffer and what stands behind it.                        *)

LEMMA ZerosFacts ==
  ASSUME NEW n \in Nat
  PROVE  Zeros(n) \in Bytes /\ Len(Zeros(n)) = n /\ \A k \in 1 .. n : Zeros(n)[k] = 0
BY DEF Zeros, Bytes

\* The bytes of two buffers, one behind the other.
LEMMA JoinFacts ==
  ASSUME NEW a \in Bytes, NEW b \in Bytes
  PROVE  /\ a \o b \in Bytes /\ Len(a \o b) = Len(a) + Len(b)
         /\ Len(a) \in Nat /\ Len(b) \in Nat
         /\ \A k \in 1 .. Len(a) : (a \o b)[k] = a[k]
         /\ \A k \in 1 .. Len(b) : (a \o b)[Len(a) + k] = b[k]
<1>1. /\ a \o b \in Bytes /\ Len(a \o b) = Len(a) + Len(b)
      /\ \A i \in 1 .. Len(a) + Len(b) :
           (a \o b)[i] = IF i <= Len(a) THEN a[i] ELSE b[i - Len(a)]
  BY ConcatProperties, Zenon DEF Bytes
<1>2. Len(a) \in Nat /\ Len(b) \in Nat
  BY DEF Bytes
<1> QED
  BY <1>1, <1>2

LEMMA Joined ==
  ASSUME NEW a \in Bytes, NEW b \in Bytes
  PROVE  \E h \in Bytes : /\ h = a \o b /\ Len(h) = Len(a) + Len(b)
                          /\ \A k \in 1 .. Len(a) : h[k] = a[k]
                          /\ \A k \in 1 .. Len(b) : h[Len(a) + k] = b[k]
<1>1. PICK h : h = a \o b
  OBVIOUS
<1>2. /\ h \in Bytes /\ Len(h) = Len(a) + Len(b)
      /\ \A k \in 1 .. Len(a) : h[k] = a[k]
      /\ \A k \in 1 .. Len(b) : h[Len(a) + k] = b[k]
  BY <1>1, JoinFacts, Zenon
<1> QED
  BY <1>1, <1>2, Zenon

\* The bytes from m to n.
LEMMA PartFacts ==
  ASSUME NEW b \in Bytes, NEW m \in Nat \ {0}, NEW n \in Nat, m <= n + 1, n <= Len(b)
  PROVE  /\ SubSeq(b, m, n) \in Bytes /\ Len(SubSeq(b, m, n)) = n - m + 1
         /\ \A k \in 1 .. n - m + 1 : SubSeq(b, m, n)[k] = b[m + k - 1]
<1>1. Len(b) \in Nat
  BY DEF Bytes
<1>2. \A i \in m .. n : i \in 1 .. Len(b)
  BY <1>1
<1>3. \A i \in m .. n : b[i] \in 0 .. 255
  BY <1>2, ElementOf, Zenon DEF Bytes
<1>4. m \in Int /\ n \in Int
  OBVIOUS
<1>5. /\ SubSeq(b, m, n) \in Bytes
      /\ Len(SubSeq(b, m, n)) = IF m <= n THEN n - m + 1 ELSE 0
      /\ \A i \in 1 .. n - m + 1 : SubSeq(b, m, n)[i] = b[m + i - 1]
  <2>1. PICK S : S = 0 .. 255
    OBVIOUS
  <2>2. \A i \in m .. n : b[i] \in S
    BY <1>3, <2>1
  <2>3. /\ SubSeq(b, m, n) \in Seq(S)
        /\ Len(SubSeq(b, m, n)) = IF m <= n THEN n - m + 1 ELSE 0
        /\ \A i \in 1 .. n - m + 1 : SubSeq(b, m, n)[i] = b[m + i - 1]
    BY ONLY <1>4, <2>2, SubSeqProperties
  <2> QED
    BY <2>1, <2>3 DEF Bytes
<1>6. (IF m <= n THEN n - m + 1 ELSE 0) = n - m + 1
  OBVIOUS
<1> QED
  BY <1>5, <1>6

\* What stands behind the first n bytes of main's buffer.
Rest(b, n) == Zeros(n) \o SubSeq(b, n + 1, PDULen)

\* A datagram and what stands behind it share no word's byte, so their sums add.
LEMMA SumOfBuffer ==
  ASSUME NEW d \in Bytes, NEW b \in Bytes, Len(d) <= Len(b), Len(b) = PDULen,
         \A k \in 1 .. Len(d) : b[k] = d[k]
  PROVE  Rest(b, Len(d)) \in Bytes /\ WordSum(b) = WordSum(d) + WordSum(Rest(b, Len(d)))
<1> DEFINE n == Len(d)
           z == Zeros(n)
           r == SubSeq(b, n + 1, PDULen)
<1>1. n \in Nat /\ PDULen \in Nat /\ n <= PDULen
  BY DEF Bytes
<1>2. z \in Bytes /\ Len(z) = n /\ \A k \in 1 .. n : z[k] = 0
  BY <1>1, ZerosFacts
<1>3. /\ r \in Bytes /\ Len(r) = PDULen - n
      /\ \A k \in 1 .. PDULen - n : r[k] = b[n + k]
  <2>1. PICK m \in Nat \ {0} : m = n + 1 /\ m <= PDULen + 1
    BY <1>1
  <2>2. /\ SubSeq(b, m, PDULen) \in Bytes /\ Len(SubSeq(b, m, PDULen)) = PDULen - m + 1
        /\ \A k \in 1 .. PDULen - m + 1 : SubSeq(b, m, PDULen)[k] = b[m + k - 1]
    BY <1>1, <2>1, PartFacts
  <2> QED
    BY <1>1, <2>1, <2>2
<1> HIDE DEF n, z, r
<1>4. /\ z \o r \in Bytes /\ Len(z \o r) = PDULen
      /\ \A k \in 1 .. n : (z \o r)[k] = 0
      /\ \A k \in n + 1 .. PDULen : (z \o r)[k] = b[k]
  <2>1. /\ z \o r \in Bytes /\ Len(z \o r) = Len(z) + Len(r)
        /\ \A k \in 1 .. Len(z) : (z \o r)[k] = z[k]
        /\ \A k \in 1 .. Len(r) : (z \o r)[Len(z) + k] = r[k]
    BY <1>2, <1>3, JoinFacts
  <2>2. ASSUME NEW k \in n + 1 .. PDULen PROVE (z \o r)[k] = b[k]
    <3>1. k - n \in 1 .. Len(r) /\ Len(z) + (k - n) = k /\ n + (k - n) = k
      BY <1>1, <1>2, <1>3, <2>2
    <3> QED
      BY <1>3, <2>1, <3>1
  <2> QED
    BY <1>1, <1>2, <1>3, <2>1, <2>2
<1>5. Rest(b, Len(d)) = z \o r
  BY DEF Rest, z, r, n
<1>6. ASSUME NEW k \in Nat \ {0} PROVE ByteAt(b, k) = ByteAt(d, k) + ByteAt(z \o r, k)
  <2>1. ByteAt(d, k) \in Nat /\ ByteAt(z \o r, k) \in Nat
    BY <1>4, ByteFacts
  <2>2. CASE k <= n
    <3>1. ByteAt(z \o r, k) = 0
      BY <1>1, <1>4, <2>2 DEF ByteAt
    <3>2. ByteAt(b, k) = ByteAt(d, k)
      BY <1>1, <2>2 DEF ByteAt, n
    <3> QED
      BY <2>1, <3>1, <3>2
  <2>3. CASE k > n
    <3>1. ByteAt(d, k) = 0
      BY <1>1, <2>3, ByteFacts DEF n
    <3>2. ByteAt(b, k) = ByteAt(z \o r, k)
      BY <1>1, <1>4, <2>3 DEF ByteAt
    <3> QED
      BY <2>1, <3>1, <3>2
  <2> QED
    BY <1>1, <2>2, <2>3
<1>7. WordSum(b) = WordSum(d) + WordSum(z \o r)
  BY <1>4, <1>6, WordSumAdds
<1> QED
  BY <1>4, <1>5, <1>7

LEMMA CompleteAdds ==
  ASSUME NEW x \in Nat, NEW y \in Nat, Complete(x) PROVE Complete(x + y) <=> Complete(y)
<1>1. x = 65535 * (x \div 65535)
  BY SMT DEF Complete
<1>2. x \div 65535 \in Nat
  BY SMT
<1>3. (x + y) % 65535 = y % 65535
  BY <1>1, <1>2, SMT
<1> QED
  BY <1>3, SMT DEF Complete

\* The test of the whole buffer says something of the bytes behind the datagram
\* and nothing of the datagram.
LEMMA BufferTest ==
  ASSUME NEW d \in Buffers, WordSum(d) > 0, Complete(WordSum(d)),
         NEW b \in Bytes, Len(b) = PDULen, \A k \in 1 .. Len(d) : b[k] = d[k]
  PROVE  in_cksum(b) = 0 <=> Complete(WordSum(Rest(b, Len(d))))
<1>1. d \in Bytes /\ Len(d) <= Len(b) /\ b \in Buffers
  <2>1. PDULen \in Nat
    BY DEF Bytes
  <2> QED
    BY <2>1 DEF Buffers
<1>2. Rest(b, Len(d)) \in Bytes /\ WordSum(b) = WordSum(d) + WordSum(Rest(b, Len(d)))
  BY <1>1, SumOfBuffer
<1>3. WordSum(d) \in Nat /\ WordSum(Rest(b, Len(d))) \in Nat
  BY <1>1, <1>2, WordSumBound
<1>4. WordSum(b) > 0
  BY <1>2, <1>3
<1>5. in_cksum(b) = 0 <=> Complete(WordSum(b))
  BY <1>1, <1>4, CksumZero
<1>6. Complete(WordSum(d) + WordSum(Rest(b, Len(d)))) <=> Complete(WordSum(Rest(b, Len(d))))
  BY <1>3, CompleteAdds
<1> QED
  BY <1>2, <1>5, <1>6

-----------------------------------------------------------------------------
(* The PDUs.                                                               *)

High(x) == (x \div 256) % 256
Low(x) == x % 256
Short(x) == x % 65536

LEMMA HtonsFacts ==
  ASSUME NEW x \in Nat
  PROVE  /\ htons(x) \in Bytes /\ Len(htons(x)) = 2
         /\ htons(x)[1] = High(x) /\ htons(x)[2] = Low(x)
<1>1. High(x) \in 0 .. 255 /\ Low(x) \in 0 .. 255
  BY SMT DEF High, Low
<1>2. htons(x) = <<High(x), Low(x)>>
  BY DEF htons, High, Low
<1> QED
  BY <1>1, <1>2, SMT DEF Bytes

LEMMA HtonlFacts ==
  ASSUME NEW x \in Nat
  PROVE  /\ htonl(x) \in Bytes /\ Len(htonl(x)) = 4
         /\ htonl(x)[3] = High(Short(x)) /\ htonl(x)[4] = Low(Short(x))
<1>1. PICK p \in Nat, q \in Nat : q = Short(x) /\ htonl(x) = htons(p) \o htons(q)
  <2>1. x \div 65536 \in Nat /\ Short(x) \in Nat
    BY SMT DEF Short
  <2>2. htonl(x) = htons(x \div 65536) \o htons(Short(x))
    BY SMT DEF htonl, Short
  <2>3. PICK p \in Nat : p = x \div 65536
    BY <2>1, SMT
  <2>4. htonl(x) = htons(p) \o htons(Short(x))
    BY <2>2, <2>3, SMT
  <2>5. Short(x) \in Nat
    BY <2>1, SMT
  <2> QED
    BY <2>4, <2>5, Zenon
<1>2. PICK a \in Bytes : a = htons(p) /\ Len(a) = 2
  BY HtonsFacts
<1>3. PICK b \in Bytes : b = htons(q) /\ Len(b) = 2 /\ b[1] = High(q) /\ b[2] = Low(q)
  BY HtonsFacts
<1>4. PICK h \in Bytes : /\ h = a \o b /\ Len(h) = Len(a) + Len(b)
                         /\ \A k \in 1 .. Len(b) : h[Len(a) + k] = b[k]
  BY Joined, Zenon
<1>5. htonl(x) = h
  BY <1>1, <1>2, <1>3, <1>4, Zenon
<1>6. Len(h) = 4 /\ h[3] = b[1] /\ h[4] = b[2]
  <2>1. 1 \in 1 .. Len(b) /\ 2 \in 1 .. Len(b) /\ Len(a) + 1 = 3 /\ Len(a) + 2 = 4
    BY <1>2, <1>3
  <2>2. h[Len(a) + 1] = b[1] /\ h[Len(a) + 2] = b[2]
    BY <1>4, <2>1, Zenon
  <2> QED
    BY <1>2, <1>3, <1>4, <2>1, <2>2
<1> QED
  BY <1>1, <1>3, <1>5, <1>6

LEMMA HeaderFacts ==
  ASSUME NEW seq \in Nat, NEW flag \in 0 .. 255
  PROVE  /\ Header(seq, flag) \in Bytes /\ Len(Header(seq, flag)) = 7
         /\ Header(seq, flag)[5] = 0 /\ Header(seq, flag)[6] = 0
<1>1. PICK a \in Bytes : a = htonl(seq) /\ Len(a) = 4
  BY HtonlFacts
<1>2. PICK z \in Bytes : z = Zeros(2) /\ Len(z) = 2 /\ z[1] = 0 /\ z[2] = 0
  <2>1. PICK n \in Nat : n = 2
    OBVIOUS
  <2>2. Zeros(n) \in Bytes /\ Len(Zeros(n)) = n /\ \A k \in 1 .. n : Zeros(n)[k] = 0
    BY ZerosFacts
  <2>3. 1 \in 1 .. n /\ 2 \in 1 .. n
    BY <2>1
  <2> QED
    BY <2>1, <2>2, <2>3
<1>3. PICK f \in Bytes : f = <<flag>> /\ Len(f) = 1
  <2>1. <<flag>> \in Bytes /\ Len(<<flag>>) = 1
    BY DEF Bytes
  <2> QED
    BY <2>1, Zenon
<1>4. PICK g \in Bytes : /\ g = a \o z /\ Len(g) = Len(a) + Len(z)
                         /\ \A k \in 1 .. Len(z) : g[Len(a) + k] = z[k]
  BY Joined, Zenon
<1>5. PICK h \in Bytes : /\ h = g \o f /\ Len(h) = Len(g) + Len(f)
                         /\ \A k \in 1 .. Len(g) : h[k] = g[k]
  BY Joined, Zenon
<1>6. Header(seq, flag) = h
  BY <1>1, <1>2, <1>3, <1>4, <1>5, Zenon DEF Header
<1>7. Len(g) = 6 /\ g[5] = 0 /\ g[6] = 0
  <2>1. 1 \in 1 .. Len(z) /\ 2 \in 1 .. Len(z) /\ Len(a) + 1 = 5 /\ Len(a) + 2 = 6
    BY <1>1, <1>2
  <2>2. g[Len(a) + 1] = z[1] /\ g[Len(a) + 2] = z[2]
    BY <1>4, <2>1, Zenon
  <2> QED
    BY <1>1, <1>2, <1>4, <2>1, <2>2
<1>8. Len(h) = 7 /\ h[5] = 0 /\ h[6] = 0
  BY <1>3, <1>5, <1>7
<1> QED
  BY <1>6, <1>8

LEMMA StrncpyFacts ==
  ASSUME NEW s \in Seq(1 .. 255), NEW n \in Nat
  PROVE  /\ strncpy(s, n) \in Bytes /\ Len(strncpy(s, n)) = n
         /\ \A i \in 1 .. n : strncpy(s, n)[i] = IF i <= Len(s) THEN s[i] ELSE 0
<1>1. Len(s) \in Nat
  OBVIOUS
<1>2. ASSUME NEW i \in 1 .. n PROVE (IF i <= Len(s) THEN s[i] ELSE 0) \in 0 .. 255
  <2>1. CASE i <= Len(s)
    <3>1. i \in 1 .. Len(s)
      BY <1>1, <1>2, <2>1
    <3>2. s[i] \in 1 .. 255
      BY <3>1, ElementOf, Zenon
    <3>3. \A x \in 1 .. 255 : x \in 0 .. 255
      OBVIOUS
    <3> QED
      BY <2>1, <3>2, <3>3, Zenon
  <2>2. CASE ~(i <= Len(s))
    BY <2>2
  <2> QED
    BY <2>1, <2>2
<1>3. PICK S : S = 0 .. 255
  OBVIOUS
<1>4. \A i \in 1 .. n : (IF i <= Len(s) THEN s[i] ELSE 0) \in S
  BY <1>2, <1>3
<1>5. strncpy(s, n) \in Seq(S)
  BY <1>4 DEF strncpy
<1> QED
  BY <1>3, <1>5 DEF strncpy, Bytes

LEMMA Lengths ==
  /\ MAX_FILENAME_LEN \in Nat /\ MAX_FILENAME_LEN > 0
  /\ PDULen \in Nat /\ PDULen = 13 + MAX_FILENAME_LEN
BY FilenameAssumption, SMT DEF PDULen, HeaderLen

\* What a correct command line has.
LEMMA Arguments ==
  ASSUME NEW a \in CommandLines, checkArgs(a)
  PROVE  a.name \in Seq(1 .. 255) /\ a.buffer \in Nat /\ a.window \in Nat
<1>1. a \in [name : Seq(1 .. 255), window : Int, buffer : Int]
  BY FilenameAssumption, SMT
<1>2. a.name \in Seq(1 .. 255) /\ a.window \in Int /\ a.buffer \in Int
  BY <1>1, Zenon
<1> QED
  BY <1>2 DEF checkArgs

\* A filename PDU, field by field.
LEMMA RequestFacts ==
  ASSUME NEW a \in CommandLines, checkArgs(a)
  PROVE  \E p \in Bytes :
           /\ p = makeFilenamePDU(a) /\ Len(p) = PDULen
           /\ p[5] = 0 /\ p[6] = 0
           /\ \A i \in 1 .. MAX_FILENAME_LEN :
                p[7 + i] = IF i <= Len(a.name) THEN a.name[i] ELSE 0
           /\ p[8 + MAX_FILENAME_LEN] = High(a.buffer)
           /\ p[9 + MAX_FILENAME_LEN] = Low(a.buffer)
           /\ p[12 + MAX_FILENAME_LEN] = High(Short(a.window))
           /\ p[13 + MAX_FILENAME_LEN] = Low(Short(a.window))
<1> DEFINE M == MAX_FILENAME_LEN
<1>0. M \in Nat /\ PDULen = 13 + M
  BY Lengths
<1>1. PICK h \in Bytes : h = Header(1, 8) /\ Len(h) = 7 /\ h[5] = 0 /\ h[6] = 0
  <2>1. PICK n \in Nat, f \in 0 .. 255 : n = 1 /\ f = 8
    OBVIOUS
  <2>2. /\ Header(n, f) \in Bytes /\ Len(Header(n, f)) = 7
        /\ Header(n, f)[5] = 0 /\ Header(n, f)[6] = 0
    BY HeaderFacts
  <2> QED
    BY <2>1, <2>2
<1>2. PICK s \in Bytes : /\ s = strncpy(a.name, M) /\ Len(s) = M
                         /\ \A i \in 1 .. M : s[i] = IF i <= Len(a.name) THEN a.name[i] ELSE 0
  BY <1>0, Arguments, StrncpyFacts, Zenon
<1>3. PICK b \in Bytes : /\ b = htons(a.buffer) /\ Len(b) = 2
                         /\ b[1] = High(a.buffer) /\ b[2] = Low(a.buffer)
  BY Arguments, HtonsFacts, Zenon
<1>4. PICK w \in Bytes : /\ w = htonl(a.window) /\ Len(w) = 4
                         /\ w[3] = High(Short(a.window)) /\ w[4] = Low(Short(a.window))
  BY Arguments, HtonlFacts, Zenon
<1> HIDE DEF M
<1>5. PICK x \in Bytes : /\ x = h \o s /\ Len(x) = Len(h) + Len(s)
                         /\ \A k \in 1 .. Len(h) : x[k] = h[k]
                         /\ \A k \in 1 .. Len(s) : x[Len(h) + k] = s[k]
  BY Joined, Zenon
<1>6. PICK y \in Bytes : /\ y = x \o b /\ Len(y) = Len(x) + Len(b)
                         /\ \A k \in 1 .. Len(x) : y[k] = x[k]
                         /\ \A k \in 1 .. Len(b) : y[Len(x) + k] = b[k]
  BY Joined, Zenon
<1>7. PICK p \in Bytes : /\ p = y \o w /\ Len(p) = Len(y) + Len(w)
                         /\ \A k \in 1 .. Len(y) : p[k] = y[k]
                         /\ \A k \in 1 .. Len(w) : p[Len(y) + k] = w[k]
  BY Joined, Zenon
<1>8. p = makeFilenamePDU(a)
  BY <1>1, <1>2, <1>3, <1>4, <1>5, <1>6, <1>7, Zenon DEF makeFilenamePDU, M
<1>9. Len(x) = 7 + M /\ Len(y) = 9 + M /\ Len(p) = 13 + M
  <2>1. /\ Len(h) = 7 /\ Len(s) = M /\ Len(b) = 2 /\ Len(w) = 4
        /\ Len(x) = Len(h) + Len(s) /\ Len(y) = Len(x) + Len(b) /\ Len(p) = Len(y) + Len(w)
    BY <1>1, <1>2, <1>3, <1>4, <1>5, <1>6, <1>7, Zenon
  <2> QED
    BY <1>0, <2>1
<1>10. p[5] = 0 /\ p[6] = 0
  BY <1>0, <1>1, <1>5, <1>6, <1>7, <1>9
<1>11. ASSUME NEW i \in 1 .. M PROVE p[7 + i] = IF i <= Len(a.name) THEN a.name[i] ELSE 0
  <2>1. p[7 + i] = x[7 + i]
    BY <1>0, <1>6, <1>7, <1>9
  <2>2. x[7 + i] = s[i]
    BY <1>1, <1>2, <1>5
  <2> QED
    BY <1>2, <2>1, <2>2
<1>12. p[8 + M] = b[1] /\ p[9 + M] = b[2]
  <2>1. p[8 + M] = y[8 + M] /\ p[9 + M] = y[9 + M]
    BY <1>0, <1>7, <1>9
  <2>2. y[Len(x) + 1] = b[1] /\ y[Len(x) + 2] = b[2]
    BY <1>3, <1>6
  <2>3. Len(x) + 1 = 8 + M /\ Len(x) + 2 = 9 + M
    BY <1>0, <1>9
  <2> QED
    BY <2>1, <2>2, <2>3
<1>13. p[12 + M] = w[3] /\ p[13 + M] = w[4]
  <2>1. p[Len(y) + 3] = w[3] /\ p[Len(y) + 4] = w[4]
    BY <1>4, <1>7
  <2>2. Len(y) + 3 = 12 + M /\ Len(y) + 4 = 13 + M
    BY <1>0, <1>9
  <2> QED
    BY <2>1, <2>2
<1>14. /\ p[8 + M] = High(a.buffer) /\ p[9 + M] = Low(a.buffer)
       /\ p[12 + M] = High(Short(a.window)) /\ p[13 + M] = Low(Short(a.window))
  BY <1>3, <1>4, <1>12, <1>13
<1>15. Len(p) = PDULen
  BY <1>0, <1>9
<1> QED
  BY <1>8, <1>10, <1>11, <1>14, <1>15, Zenon DEF M

\* A datagram of rcopy's: it has its checksum, so it adds nothing to a sum.
Datagram(d) == d \in Buffers /\ WordSum(d) > 0 /\ Complete(WordSum(d))

\* The filename PDU on the wire; bytes 5 and 6 are the checksum's.
LEMMA RequestSent ==
  ASSUME NEW a \in CommandLines, checkArgs(a)
  PROVE  \E d : /\ d = AfterChecksum(makeFilenamePDU(a))
                /\ Datagram(d) /\ Len(d) = PDULen
                /\ \A i \in 1 .. MAX_FILENAME_LEN :
                     d[7 + i] = IF i <= Len(a.name) THEN a.name[i] ELSE 0
                /\ d[8 + MAX_FILENAME_LEN] = High(a.buffer)
                /\ d[9 + MAX_FILENAME_LEN] = Low(a.buffer)
                /\ d[12 + MAX_FILENAME_LEN] = High(Short(a.window))
                /\ d[13 + MAX_FILENAME_LEN] = Low(Short(a.window))
<1>1. PICK p \in Bytes :
        /\ p = makeFilenamePDU(a) /\ Len(p) = PDULen
        /\ p[5] = 0 /\ p[6] = 0
        /\ \A i \in 1 .. MAX_FILENAME_LEN :
             p[7 + i] = IF i <= Len(a.name) THEN a.name[i] ELSE 0
        /\ p[8 + MAX_FILENAME_LEN] = High(a.buffer)
        /\ p[9 + MAX_FILENAME_LEN] = Low(a.buffer)
        /\ p[12 + MAX_FILENAME_LEN] = High(Short(a.window))
        /\ p[13 + MAX_FILENAME_LEN] = Low(Short(a.window))
  BY RequestFacts, Zenon
<1>2. p \in Buffers /\ Len(p) >= 6
  BY <1>1, Lengths DEF Buffers
<1>3. PICK d : d = AfterChecksum(p)
  OBVIOUS
<1>4. /\ d \in Buffers /\ Len(d) = Len(p)
      /\ \A k \in 1 .. Len(p) : k \notin {5, 6} => d[k] = p[k]
      /\ WordSum(d) > 0 /\ Complete(WordSum(d))
  BY <1>1, <1>2, <1>3, Stamped, Zenon
<1>5. \A k \in 7 .. PDULen : d[k] = p[k]
  BY <1>1, <1>4, Lengths
<1>6. /\ \A i \in 1 .. MAX_FILENAME_LEN : 7 + i \in 7 .. PDULen
      /\ 8 + MAX_FILENAME_LEN \in 7 .. PDULen /\ 9 + MAX_FILENAME_LEN \in 7 .. PDULen
      /\ 12 + MAX_FILENAME_LEN \in 7 .. PDULen /\ 13 + MAX_FILENAME_LEN \in 7 .. PDULen
  BY Lengths
<1>7. /\ \A i \in 1 .. MAX_FILENAME_LEN :
             d[7 + i] = IF i <= Len(a.name) THEN a.name[i] ELSE 0
      /\ d[8 + MAX_FILENAME_LEN] = High(a.buffer)
      /\ d[9 + MAX_FILENAME_LEN] = Low(a.buffer)
      /\ d[12 + MAX_FILENAME_LEN] = High(Short(a.window))
      /\ d[13 + MAX_FILENAME_LEN] = Low(Short(a.window))
  BY <1>1, <1>5, <1>6, Zenon
<1>8. Datagram(d)
  BY <1>4, Zenon DEF Datagram
<1>9. d = AfterChecksum(makeFilenamePDU(a)) /\ Len(d) = PDULen
  BY <1>1, <1>3, <1>4, Zenon
<1> QED
  BY <1>7, <1>8, <1>9, Zenon

\* What else rcopy sends is shorter.
LEMMA ShortSent ==
  ASSUME NEW d \in ShortDatagrams
  PROVE  Datagram(d) /\ Len(d) \in 1 .. PDULen - 1
<1>1. ASSUME NEW b \in Bytes, Len(b) \in {7, 11}, b[5] = 0, b[6] = 0
      PROVE  Datagram(AfterChecksum(b)) /\ Len(AfterChecksum(b)) \in 1 .. PDULen - 1
  <2>1. b \in Buffers /\ Len(b) >= 6 /\ Len(b) \in 1 .. PDULen - 1
    <3>1. \A n \in {7, 11} : n <= PDULen /\ n >= 6 /\ n \in 1 .. PDULen - 1
      BY Lengths
    <3> QED
      BY <1>1, <3>1, Zenon DEF Buffers
  <2>2. /\ AfterChecksum(b) \in Buffers /\ Len(AfterChecksum(b)) = Len(b)
        /\ WordSum(AfterChecksum(b)) > 0 /\ Complete(WordSum(AfterChecksum(b)))
    BY <1>1, <2>1, Stamped, Zenon
  <2> QED
    BY <2>1, <2>2, Zenon DEF Datagram
<1>2. ASSUME NEW n \in Nat, NEW f \in 0 .. 255
      PROVE  \E h \in Bytes : h = Header(n, f) /\ Len(h) = 7 /\ h[5] = 0 /\ h[6] = 0
  BY HeaderFacts, Zenon
<1>3. CASE d = AfterChecksum(makeFilenameACK)
  <2>1. PICK n \in Nat, f \in 0 .. 255 : n = 1 /\ f = 33
    OBVIOUS
  <2>2. PICK h \in Bytes : h = Header(n, f) /\ Len(h) = 7 /\ h[5] = 0 /\ h[6] = 0
    BY <1>2
  <2>3. d = AfterChecksum(h)
    BY <1>3, <2>1, <2>2 DEF makeFilenameACK
  <2>4. Len(h) \in {7, 11}
    BY <2>2
  <2> QED
    BY <1>1, <2>2, <2>3, <2>4, Zenon
<1>4. ASSUME NEW f \in {5, 6}, NEW l \in SeqNumbers, NEW r \in SeqNumbers,
             d = AfterChecksum(makeControl(f, l, r))
      PROVE  Datagram(d) /\ Len(d) \in 1 .. PDULen - 1
  <2>1. f \in 0 .. 255 /\ l \in Nat /\ r \in Nat
    BY FilenameAssumption, SMT
  <2>2. PICK h \in Bytes : h = Header(l, f) /\ Len(h) = 7 /\ h[5] = 0 /\ h[6] = 0
    BY <1>2, <2>1
  <2>3. PICK n \in Bytes : n = htonl(r) /\ Len(n) = 4
    BY <2>1, HtonlFacts, Zenon
  <2>4. PICK b \in Bytes : /\ b = h \o n /\ Len(b) = Len(h) + Len(n)
                           /\ \A k \in 1 .. Len(h) : b[k] = h[k]
    BY Joined, Zenon
  <2>5. d = AfterChecksum(b)
    BY <1>4, <2>2, <2>3, <2>4, Zenon DEF makeControl
  <2>6. Len(b) \in {7, 11} /\ b[5] = 0 /\ b[6] = 0
    BY <2>2, <2>3, <2>4
  <2> QED
    BY <1>1, <2>5, <2>6, Zenon
<1>5. \/ d = AfterChecksum(makeFilenameACK)
      \/ \E f \in {5, 6}, l \in SeqNumbers, r \in SeqNumbers :
           d = AfterChecksum(makeControl(f, l, r))
  BY SMT DEF ShortDatagrams
<1> QED
  BY <1>3, <1>4, <1>5, Zenon

-----------------------------------------------------------------------------
(* What main reads out of its buffer.                                      *)

LEMMA FieldFacts ==
  ASSUME NEW b \in Bytes, NEW from \in Nat, NEW n \in Nat, from + n <= Len(b)
  PROVE  \E f \in Bytes : /\ f = Field(b, from, n) /\ Len(f) = n
                          /\ \A k \in 1 .. n : f[k] = b[from + k]
<1>1. PICK p \in Nat \ {0}, q \in Nat : p = from + 1 /\ q = from + n /\ p <= q + 1 /\ q <= Len(b)
  OBVIOUS
<1>2. PICK f : f = SubSeq(b, p, q)
  OBVIOUS
<1>3. f \in Bytes /\ Len(f) = q - p + 1 /\ \A k \in 1 .. q - p + 1 : f[k] = b[p + k - 1]
  BY <1>1, <1>2, PartFacts, Zenon
<1>4. q - p + 1 = n /\ \A k \in 1 .. n : p + k - 1 = from + k
  BY <1>1
<1>5. Len(f) = n /\ \A k \in 1 .. n : f[k] = b[from + k]
  BY <1>3, <1>4, Zenon
<1>6. f = Field(b, from, n)
  BY <1>1, <1>2, Zenon DEF Field
<1> QED
  BY <1>3, <1>5, <1>6, Zenon

\* The first m bytes.
LEMMA FirstBytes ==
  ASSUME NEW b \in Bytes, NEW m \in Nat, m <= Len(b)
  PROVE  /\ SubSeq(b, 1, m) \in Bytes /\ Len(SubSeq(b, 1, m)) = m
         /\ \A k \in 1 .. m : SubSeq(b, 1, m)[k] = b[k]
<1>1. PICK p \in Nat \ {0} : p = 1 /\ p <= m + 1
  OBVIOUS
<1>2. PICK g : g = SubSeq(b, p, m) /\ g = SubSeq(b, 1, m)
  BY <1>1
<1>3. g \in Bytes /\ Len(g) = m - p + 1 /\ \A k \in 1 .. m - p + 1 : g[k] = b[p + k - 1]
  BY <1>1, <1>2, PartFacts
<1>4. m - p + 1 = m /\ \A k \in 1 .. m : p + k - 1 = k
  BY <1>1
<1> QED
  BY <1>2, <1>3, <1>4, Zenon

\* A name is bytes, none of them 0.
LEMMA NameIsBytes ==
  ASSUME NEW s \in Seq(1 .. 255) PROVE s \in Bytes
<1>1. PICK S : S = 0 .. 255
  OBVIOUS
<1>2. 1 .. 255 \subseteq S
  BY <1>1
<1>3. PICK R : R = 1 .. 255 /\ s \in Seq(R) /\ R \subseteq S
  BY <1>2
<1>4. s \in Seq(S)
  BY ONLY <1>3, SeqMonotonic
<1> QED
  BY <1>1, <1>4, Zenon DEF Bytes

LEMMA NameHasNoZero ==
  ASSUME NEW s \in Seq(1 .. 255), NEW i \in 1 .. Len(s) PROVE s[i] # 0
<1>1. s[i] \in 1 .. 255
  BY ElementOf, Zenon
<1>2. \A x \in 1 .. 255 : x # 0
  OBVIOUS
<1> QED
  BY <1>1, <1>2, Zenon

\* A name shorter than its field comes out as it went in, whatever is behind.
LEMMA NameRead ==
  ASSUME NEW s \in Seq(1 .. 255), NEW f \in Bytes, NEW tail \in Bytes, Len(s) < Len(f),
         \A i \in 1 .. Len(f) : f[i] = IF i <= Len(s) THEN s[i] ELSE 0
  PROVE  CString(f \o tail) = s
<1>1. PICK h \in Bytes : /\ h = f \o tail /\ Len(h) = Len(f) + Len(tail)
                         /\ \A k \in 1 .. Len(f) : h[k] = f[k]
  BY Joined, Zenon
<1>2. Len(s) \in Nat /\ Len(f) \in Nat /\ Len(tail) \in Nat
  BY DEF Bytes
<1>3. \A i \in 1 .. Len(s) : h[i] = s[i]
  BY <1>1, <1>2
<1>4. \A i \in 1 .. Len(s) : s[i] # 0
  BY NameHasNoZero, Zenon
<1> DEFINE Z == {i \in 1 .. Len(h) : h[i] = 0}
           n == Len(s) + 1
<1>5. n \in Z
  <2>1. n \in 1 .. Len(f) /\ n \in 1 .. Len(h) /\ ~(n <= Len(s))
    BY <1>1, <1>2
  <2>2. h[n] = f[n] /\ f[n] = 0
    BY <1>1, <2>1, Zenon
  <2> QED
    BY <2>1, <2>2, Zenon
<1>6. \A i \in Z : n <= i
  <2>1. SUFFICES ASSUME NEW i \in Z, ~(n <= i) PROVE FALSE
    BY Zenon
  <2>2. i \in 1 .. Len(s)
    BY <1>1, <1>2, <2>1
  <2>3. h[i] = 0
    BY <2>1
  <2> QED
    BY <1>3, <1>4, <2>2, <2>3, Zenon
<1>7. Z \subseteq Int
  OBVIOUS
<1>8. SelectInSeq(h, LAMBDA c : c = 0) = IF Z # {} THEN Min(Z) ELSE 0
  BY DEF SelectInSeq
<1> HIDE DEF Z, n
<1>9. Min(Z) = n
  <2>1. \A m \in Z : (\A i \in Z : m <= i) => m = n
    BY <1>5, <1>6, <1>7
  <2> QED
    BY <1>5, <1>6, <2>1, Zenon DEF Min
<1>10. SelectInSeq(h, LAMBDA c : c = 0) = n
  BY <1>5, <1>8, <1>9, Zenon
<1>11. CString(h) = SubSeq(h, 1, n - 1)
  BY <1>10 DEF CString
<1>12. PICK m \in Nat : m = n - 1 /\ m = Len(s) /\ m <= Len(h)
  BY <1>1, <1>2 DEF n
<1>13. PICK g : g = SubSeq(h, 1, m)
  OBVIOUS
<1>14. g \in Bytes /\ Len(g) = m /\ \A k \in 1 .. m : g[k] = h[k]
  BY <1>12, <1>13, FirstBytes, Zenon
<1>15. g = s
  <2>1. g \in Bytes /\ s \in Bytes
    BY <1>14, NameIsBytes, Zenon
  <2>2. Len(g) = Len(s) /\ \A i \in 1 .. Len(g) : g[i] = s[i]
    BY <1>3, <1>12, <1>14, Zenon
  <2> QED
    BY <2>1, <2>2, SeqEqual, Zenon DEF Bytes
<1> QED
  BY <1>1, <1>11, <1>12, <1>13, <1>15, Zenon

\* Behind a name that fills its field, what stands in memory is read too.
LEMMA NameBegins ==
  ASSUME NEW s \in Seq(1 .. 255), NEW f \in Bytes, NEW tail \in Bytes, Len(s) = Len(f),
         0 \in Range(tail), \A i \in 1 .. Len(f) : f[i] = s[i]
  PROVE  IsPrefix(s, CString(f \o tail))
<1>1. PICK h \in Bytes : /\ h = f \o tail /\ Len(h) = Len(f) + Len(tail)
                         /\ \A k \in 1 .. Len(f) : h[k] = f[k]
                         /\ \A k \in 1 .. Len(tail) : h[Len(f) + k] = tail[k]
  BY Joined, Zenon
<1>2. Len(s) \in Nat /\ Len(f) \in Nat /\ Len(tail) \in Nat
  BY DEF Bytes
<1>3. \A i \in 1 .. Len(s) : h[i] = s[i]
  BY <1>1, <1>2
<1>4. \A i \in 1 .. Len(s) : s[i] # 0
  BY NameHasNoZero, Zenon
<1> DEFINE Z == {i \in 1 .. Len(h) : h[i] = 0}
<1>5. Z # {} /\ Z \subseteq Nat
  <2>1. PICK k \in 1 .. Len(tail) : tail[k] = 0
    BY DEF Bytes, Range
  <2>2. Len(f) + k \in 1 .. Len(h) /\ h[Len(f) + k] = 0
    BY <1>1, <1>2, <2>1
  <2> QED
    BY <2>2
<1>6. PICK n \in Z : \A i \in Z : n <= i
  <2>1. PICK S : S = Z
    OBVIOUS
  <2> HIDE DEF Z
  <2>2. S # {} /\ S \subseteq Nat
    BY <1>5, <2>1, Zenon
  <2>3. \E x \in S : \A y \in S : x <= y
    BY <2>2, LeastNumber
  <2> QED
    BY <2>1, <2>3, Zenon
<1>7. n \in 1 .. Len(h) /\ h[n] = 0
  OBVIOUS
<1>8. n > Len(s)
  <2>1. ASSUME n \in 1 .. Len(s) PROVE FALSE
    BY <1>3, <1>4, <1>7, <2>1, Zenon
  <2> QED
    BY <1>1, <1>2, <1>7, <2>1
<1>9. SelectInSeq(h, LAMBDA c : c = 0) = IF Z # {} THEN Min(Z) ELSE 0
  BY DEF SelectInSeq
<1> HIDE DEF Z
<1>10. Min(Z) = n
  <2>1. \A m \in Z : (\A i \in Z : m <= i) => m = n
    BY <1>5, <1>6
  <2> QED
    BY <1>6, <2>1, Zenon DEF Min
<1>11. SelectInSeq(h, LAMBDA c : c = 0) = n
  BY <1>6, <1>9, <1>10, Zenon
<1>12. CString(h) = SubSeq(h, 1, n - 1)
  BY <1>11 DEF CString
<1>13. PICK m \in Nat : m = n - 1 /\ Len(s) <= m /\ m <= Len(h)
  BY <1>1, <1>2, <1>7, <1>8
<1>14. PICK g : g = SubSeq(h, 1, m)
  OBVIOUS
<1>15. g \in Bytes /\ Len(g) = m /\ \A k \in 1 .. m : g[k] = h[k]
  BY <1>13, <1>14, FirstBytes, Zenon
<1>16. SubSeq(g, 1, Len(s)) = s
  <2>1. Len(s) <= Len(g)
    BY <1>13, <1>15, Zenon
  <2>2. PICK u : u = SubSeq(g, 1, Len(s))
    OBVIOUS
  <2>3. u \in Bytes /\ Len(u) = Len(s) /\ \A k \in 1 .. Len(s) : u[k] = g[k]
    BY <1>2, <1>15, <2>1, <2>2, FirstBytes, Zenon
  <2>4. \A k \in 1 .. Len(s) : g[k] = s[k]
    BY <1>2, <1>3, <1>13, <1>15
  <2>5. s \in Bytes
    BY NameIsBytes, Zenon
  <2> QED
    BY <2>2, <2>3, <2>4, <2>5, SeqEqual, Zenon DEF Bytes
<1>17. SubSeq(s, 1, Len(s)) = s
  <2>1. s \in Bytes
    BY NameIsBytes, Zenon
  <2>2. PICK u : u = SubSeq(s, 1, Len(s))
    OBVIOUS
  <2>3. Len(s) <= Len(s)
    BY <1>2
  <2>4. u \in Bytes /\ Len(u) = Len(s) /\ \A k \in 1 .. Len(s) : u[k] = s[k]
    BY <1>2, <2>1, <2>2, <2>3, FirstBytes, Zenon
  <2> QED
    BY <2>1, <2>2, <2>4, SeqEqual, Zenon DEF Bytes
<1>18. CString(f \o tail) = g
  BY <1>1, <1>12, <1>13, <1>14, Zenon
<1>19. Len(s) <= Len(g)
  BY <1>13, <1>15, Zenon
<1> QED
  BY <1>16, <1>17, <1>18, <1>19, Zenon DEF IsPrefix

\* 16 bits come out as they went in.
LEMMA NumberRead ==
  ASSUME NEW x \in Nat, NEW b, b[1] = High(x), b[2] = Low(x)
  PROVE  ntohs(b) = Short(x)
<1>1. 256 * High(x) + Low(x) = Short(x)
  BY SMT DEF High, Low, Short
<1> QED
  BY <1>1, SMT DEF ntohs

\* 8 bits of 16 are 8 bits of the number.
LEMMA PayloadOfShort ==
  ASSUME NEW x \in Nat PROVE PayloadLen(Short(x)) = Low(x)
BY SMT DEF Short, Low, PayloadLen

\* The window travels in 32 bits and is kept in 16.
LEMMA WindowRead ==
  ASSUME NEW x \in Nat, NEW f \in Bytes, Len(f) = 4,
         f[3] = High(Short(x)), f[4] = Low(Short(x))
  PROVE  ntohl(f) % 65536 = Short(x)
<1>1. Short(x) \in Nat /\ Short(Short(x)) = Short(x) /\ Short(x) < 65536
  BY SMT DEF Short
<1>2. PICK p \in Nat \ {0}, q \in Nat : p = 1 /\ q = 2 /\ p <= q + 1 /\ q <= Len(f)
  BY SMT
<1>3. PICK u : u = SubSeq(f, p, q)
  OBVIOUS
<1>4. u \in Bytes /\ Len(u) = q - p + 1
  BY <1>2, <1>3, PartFacts, Zenon
<1>5. Len(u) = 2 /\ 1 \in 1 .. 2 /\ 2 \in 1 .. 2
  BY <1>2, <1>4, SMT
<1>6. u[1] \in 0 .. 255 /\ u[2] \in 0 .. 255
  BY <1>4, <1>5, ElementOf, Zenon DEF Bytes
<1>7. ntohs(u) \in Nat
  <2>1. PICK y \in 0 .. 255, z \in 0 .. 255 : y = u[1] /\ z = u[2]
    BY <1>6, Zenon
  <2>2. 256 * y + z \in Nat
    BY SMT
  <2>3. ntohs(u) = 256 * y + z
    BY <2>1, Zenon DEF ntohs
  <2> QED
    BY <2>2, <2>3, Zenon
<1>8. PICK m \in Nat \ {0}, n \in Nat : m = 3 /\ n = 4 /\ m <= n + 1 /\ n <= Len(f)
  BY SMT
<1>9. PICK v : v = SubSeq(f, m, n)
  OBVIOUS
<1>10. v \in Bytes /\ \A k \in 1 .. n - m + 1 : v[k] = f[m + k - 1]
  <2>1. m <= n + 1 /\ n <= Len(f)
    BY <1>8, Zenon
  <2> QED
    BY <1>9, <2>1, PartFacts, Zenon
<1>11. v[1] = f[3] /\ v[2] = f[4]
  <2>1. 1 \in 1 .. n - m + 1 /\ 2 \in 1 .. n - m + 1 /\ m + 1 - 1 = 3 /\ m + 2 - 1 = 4
    BY <1>8, SMT
  <2>2. v[1] = f[m + 1 - 1] /\ v[2] = f[m + 2 - 1]
    BY <1>10, <2>1, Zenon
  <2> QED
    BY <2>1, <2>2, Zenon
<1>12. ntohs(v) = Short(x)
  <2>1. PICK y \in Nat : y = Short(x)
    BY <1>1, SMT
  <2>2. v[1] = High(y) /\ v[2] = Low(y)
    BY <1>11, <2>1, Zenon
  <2>3. ntohs(v) = Short(y)
    BY <2>2, NumberRead, Zenon
  <2> QED
    BY <1>1, <2>1, <2>3, SMT
<1>13. SubSeq(f, 1, 2) = u /\ SubSeq(f, 3, 4) = v
  BY <1>2, <1>3, <1>8, <1>9, Zenon
<1>14. ntohl(f) = 65536 * ntohs(u) + ntohs(v)
  <2>1. ntohs(SubSeq(f, 1, 2)) = ntohs(u) /\ ntohs(SubSeq(f, 3, 4)) = ntohs(v)
    BY <1>13, Zenon
  <2> QED
    BY <2>1, SMT DEF ntohl
<1> QED
  BY <1>1, <1>7, <1>12, <1>14, SMT

\* Whatever stands behind its array, startFSM gets what the PDU says.
LEMMA RequestRead ==
  ASSUME NEW a \in CommandLines, checkArgs(a), NEW d \in Bytes, Len(d) = PDULen,
         \A i \in 1 .. MAX_FILENAME_LEN :
           d[7 + i] = IF i <= Len(a.name) THEN a.name[i] ELSE 0,
         d[8 + MAX_FILENAME_LEN] = High(a.buffer),
         d[9 + MAX_FILENAME_LEN] = Low(a.buffer),
         d[12 + MAX_FILENAME_LEN] = High(Short(a.window)),
         d[13 + MAX_FILENAME_LEN] = Low(Short(a.window)),
         NEW r \in Extracted(d)
  PROVE  /\ r.window = Short(a.window) /\ r.buffer = Short(a.buffer)
         /\ r.payload = Low(a.buffer)
         /\ IF Len(a.name) < MAX_FILENAME_LEN THEN r.name = a.name
            ELSE IsPrefix(a.name, r.name)
<1> DEFINE M == MAX_FILENAME_LEN
<1>1. M \in Nat /\ PDULen = 13 + M /\ HeaderLen = 7
  BY Lengths DEF HeaderLen
<1>2. a.name \in Seq(1 .. 255) /\ a.buffer \in Nat /\ a.window \in Nat
  BY Arguments
<1>3. PICK f \in Bytes : f = Field(d, 7, M) /\ Len(f) = M /\ \A k \in 1 .. M : f[k] = d[7 + k]
  <2>1. PICK n \in Nat : n = 7 /\ n + M <= Len(d)
    BY <1>1
  <2>2. \E f \in Bytes : f = Field(d, n, M) /\ Len(f) = M /\ \A k \in 1 .. M : f[k] = d[n + k]
    BY <1>1, <2>1, FieldFacts, Zenon
  <2> QED
    BY <2>1, <2>2
<1>4. PICK g \in Bytes : g = Field(d, 7 + M, 2) /\ g[1] = d[8 + M] /\ g[2] = d[9 + M]
  <2>1. PICK n \in Nat, l \in Nat : n = 7 + M /\ l = 2 /\ n + l <= Len(d)
    BY <1>1
  <2>2. PICK g \in Bytes : g = Field(d, n, l) /\ \A k \in 1 .. l : g[k] = d[n + k]
    <3>1. n + l <= Len(d)
      BY <2>1, Zenon
    <3> QED
      BY <3>1, FieldFacts, Zenon
  <2>3. 1 \in 1 .. l /\ 2 \in 1 .. l /\ n + 1 = 8 + M /\ n + 2 = 9 + M
    BY <1>1, <2>1
  <2>4. g[1] = d[n + 1] /\ g[2] = d[n + 2]
    BY <2>2, <2>3, Zenon
  <2> QED
    BY <2>1, <2>2, <2>3, <2>4, Zenon
<1>5. PICK h \in Bytes : /\ h = Field(d, 7 + M + 2, 4) /\ Len(h) = 4
                         /\ h[3] = d[12 + M] /\ h[4] = d[13 + M]
  <2>1. PICK n \in Nat, l \in Nat : n = 7 + M + 2 /\ l = 4 /\ n + l <= Len(d)
    BY <1>1
  <2>2. PICK h \in Bytes : /\ h = Field(d, n, l) /\ Len(h) = l
                           /\ \A k \in 1 .. l : h[k] = d[n + k]
    <3>1. n + l <= Len(d)
      BY <2>1, Zenon
    <3> QED
      BY <3>1, FieldFacts, Zenon
  <2>3. 3 \in 1 .. l /\ 4 \in 1 .. l /\ n + 3 = 12 + M /\ n + 4 = 13 + M
    BY <1>1, <2>1
  <2>4. h[3] = d[n + 3] /\ h[4] = d[n + 4]
    BY <2>2, <2>3, Zenon
  <2> QED
    BY <2>1, <2>2, <2>3, <2>4, Zenon
<1>6. ntohs(g) = Short(a.buffer)
  BY <1>2, <1>4, NumberRead, Zenon
<1>7. ntohl(h) % 65536 = Short(a.window)
  BY <1>2, <1>5, WindowRead, SMT
<1>8. PICK tail \in Tails : /\ r.name = CString(f \o tail) /\ r.buffer = ntohs(g)
                            /\ r.window = ntohl(h) % 65536
                            /\ r.payload = PayloadLen(ntohs(g))
  <2>1. PICK tail \in Tails :
          r = [name    |-> CString(Field(d, HeaderLen, M) \o tail),
               buffer  |-> ntohs(Field(d, HeaderLen + M, 2)),
               window  |-> ntohl(Field(d, HeaderLen + M + 2, 4)) % 65536,
               payload |-> PayloadLen(ntohs(Field(d, HeaderLen + M, 2)))]
    BY SMT DEF Extracted
  <2>2. /\ Field(d, HeaderLen, M) = f /\ Field(d, HeaderLen + M, 2) = g
        /\ Field(d, HeaderLen + M + 2, 4) = h
    BY <1>1, <1>3, <1>4, <1>5, Zenon
  <2> QED
    BY <2>1, <2>2, SMT
<1>9. tail \in Bytes /\ 0 \in Range(tail) /\ r.name = CString(f \o tail)
  <2>1. \A t \in Tails : t \in Seq(0 .. 255) /\ 0 \in Range(t)
    BY FilenameAssumption, SMT
  <2>2. tail \in Bytes /\ 0 \in Range(tail)
    BY <2>1, Zenon DEF Bytes
  <2>3. r.name = CString(f \o tail)
    BY <1>8
  <2> QED
    BY <2>2, <2>3, Zenon
<1>10. \A i \in 1 .. Len(f) : f[i] = IF i <= Len(a.name) THEN a.name[i] ELSE 0
  BY <1>3, Zenon
<1>11. ASSUME Len(a.name) < M PROVE r.name = a.name
  <2>1. Len(a.name) < Len(f)
    BY <1>3, <1>11, Zenon
  <2> QED
    BY <1>2, <1>9, <1>10, <2>1, NameRead, Zenon
<1>12. ASSUME ~(Len(a.name) < M) PROVE IsPrefix(a.name, r.name)
  <2>1. Len(a.name) = M
    BY <1>1, <1>2, <1>12 DEF checkArgs
  <2>2. Len(a.name) = Len(f)
    BY <1>3, <2>1, Zenon
  <2>3. \A i \in 1 .. Len(f) : i <= Len(a.name)
    BY <1>1, <2>1, <2>2
  <2>4. \A i \in 1 .. Len(f) : f[i] = a.name[i]
    BY <1>10, <2>3, Zenon
  <2> QED
    BY <1>2, <1>9, <2>2, <2>4, NameBegins, Zenon
<1>13. PayloadLen(Short(a.buffer)) = Low(a.buffer)
  BY <1>2, PayloadOfShort, Zenon
<1>14. /\ r.window = Short(a.window) /\ r.buffer = Short(a.buffer)
       /\ r.payload = Low(a.buffer)
  BY <1>6, <1>7, <1>8, <1>13, SMT
<1> QED
  BY <1>11, <1>12, <1>14, Zenon

\* startFSM's arguments are a record, and a record is not None.
LEMMA ReadSome ==
  ASSUME NEW b, NEW r \in Extracted(b) PROVE r # None
<1>1. "name" \in DOMAIN r
  BY SMT DEF Extracted
<1>2. "name" \notin DOMAIN <<>>
  OBVIOUS
<1> QED
  BY <1>1, <1>2, Zenon DEF None

-----------------------------------------------------------------------------
(* The invariant.  It says of rcopy that what it sends was made from its   *)
(* command line, and of main that from the first filename PDU on its       *)
(* buffer is as long as one: what stands behind a short datagram is bytes  *)
(* of an older one.                                                        *)

FilenameInv ==
  /\ rpc \in {"ARGS", "USAGE", "SEND_FILENAME"}
  /\ rpc = "SEND_FILENAME" => /\ params \in CommandLines /\ checkArgs(params)
                              /\ pdu = AfterChecksum(makeFilenamePDU(params))
  /\ asked # None => buffer \in Bytes /\ Len(buffer) = PDULen
  /\ RequestArrives
  /\ AcceptedIffRestIsZero

LEMMA FilenameInit == Init => FilenameInv
<1>1. SUFFICES ASSUME Init PROVE FilenameInv
  OBVIOUS
<1>2. recv_len = 0 /\ rpc = "ARGS" /\ asked = None
  BY <1>1 DEF Init
<1>3. recv_len # PDULen /\ ~(recv_len > 0)
  BY <1>2, Lengths
<1> QED
  <2>1. RequestArrives /\ AcceptedIffRestIsZero
    BY <1>2, <1>3, SMT DEF RequestArrives, AcceptedIffRestIsZero
  <2> QED
    BY <1>2, <2>1, Zenon DEF FilenameInv

\* One datagram read: main answers by the bytes behind it.
LEMMA RecvFacts ==
  ASSUME NEW d, Datagram(d), Len(d) > 0, Recv(d),
         Len(d) # PDULen => buffer \in Bytes /\ Len(buffer) = PDULen
  PROVE  /\ buffer' \in Bytes /\ Len(buffer') = PDULen /\ recv_len' = Len(d)
         /\ Len(d) = PDULen => buffer' = d
         /\ serves' # None => serves' \in Extracted(buffer')
         /\ (serves' # None) <=> Complete(WordSum(Rest(buffer', Len(d))))
<1>1. d \in Bytes /\ Len(d) \in Nat /\ Len(d) <= PDULen /\ PDULen \in Nat
  BY Lengths DEF Datagram, Buffers, Bytes
<1>2. buffer' = d \o SubSeq(buffer, Len(d) + 1, PDULen) /\ recv_len' = Len(d)
  BY Zenon DEF Recv
<1>3. /\ buffer' \in Bytes /\ Len(buffer') = PDULen
      /\ \A k \in 1 .. Len(d) : buffer'[k] = d[k]
      /\ Len(d) = PDULen => buffer' = d
  <2>1. CASE Len(d) = PDULen
    <3>1. PICK p \in Int, q \in Int : p = Len(d) + 1 /\ q = PDULen /\ q < p
      BY <1>1, <2>1
    <3>2. SubSeq(buffer, p, q) = <<>>
      BY <3>1, SubSeqEmpty, Zenon
    <3>3. d \o <<>> = d
      BY <1>1, ConcatEmptySeq, Zenon DEF Bytes
    <3>4. buffer' = d
      BY <1>2, <3>1, <3>2, <3>3, Zenon
    <3> QED
      BY <1>1, <2>1, <3>4, Zenon
  <2>2. CASE Len(d) # PDULen
    <3>1. PICK p \in Nat \ {0} : p = Len(d) + 1 /\ p <= PDULen + 1
      BY <1>1
    <3>2. PICK r : r = SubSeq(buffer, p, PDULen)
      OBVIOUS
    <3>3. buffer \in Bytes /\ PDULen <= Len(buffer)
      BY <1>1, <2>2
    <3>4. r \in Bytes /\ Len(r) = PDULen - p + 1
      BY <1>1, <3>1, <3>2, <3>3, PartFacts, Zenon
    <3>5. PICK h \in Bytes : /\ h = d \o r /\ Len(h) = Len(d) + Len(r)
                             /\ \A k \in 1 .. Len(d) : h[k] = d[k]
      BY <1>1, <3>4, Joined, Zenon
    <3>6. buffer' = h
      BY <1>2, <3>1, <3>2, <3>5, Zenon
    <3>7. Len(h) = PDULen
      BY <1>1, <3>1, <3>4, <3>5
    <3> QED
      BY <2>2, <3>5, <3>6, <3>7, Zenon
  <2> QED
    BY <2>1, <2>2, Zenon
<1>4. in_cksum(buffer') = 0 <=> Complete(WordSum(Rest(buffer', Len(d))))
  BY <1>3, BufferTest, Zenon DEF Datagram
<1>5. serves' \in IF in_cksum(buffer') = 0 THEN Extracted(buffer') ELSE {None}
  BY Zenon DEF Recv
<1>6. CASE in_cksum(buffer') = 0
  <2>1. serves' \in Extracted(buffer')
    BY <1>5, <1>6, Zenon
  <2>2. serves' # None
    BY <2>1, ReadSome, Zenon
  <2> QED
    BY <1>2, <1>3, <1>4, <1>6, <2>1, <2>2, Zenon
<1>7. CASE in_cksum(buffer') # 0
  <2>1. serves' = None
    BY <1>5, <1>7, Zenon
  <2> QED
    BY <1>2, <1>3, <1>4, <1>7, <2>1, Zenon
<1> QED
  BY <1>6, <1>7, Zenon

\* The zeros behind a filename PDU add up to nothing.
LEMMA NothingBehind ==
  ASSUME NEW d, Datagram(d), Len(d) = PDULen
  PROVE  Complete(WordSum(Rest(d, Len(d))))
<1>1. d \in Bytes /\ \A k \in 1 .. Len(d) : d[k] = d[k]
  BY DEF Datagram, Buffers
<1>2. Len(d) <= Len(d)
  BY Lengths
<1>3. Rest(d, Len(d)) \in Bytes /\ WordSum(d) = WordSum(d) + WordSum(Rest(d, Len(d)))
  BY <1>1, <1>2, SumOfBuffer, Zenon
<1>4. WordSum(d) \in Nat /\ WordSum(Rest(d, Len(d))) \in Nat
  BY <1>1, <1>3, WordSumBound
<1>5. WordSum(Rest(d, Len(d))) = 0
  BY <1>3, <1>4
<1> QED
  BY <1>5, SMT DEF Complete

\* AcceptedIffRestIsZero after a datagram, in the terms of the lemmas.
LEMMA Accepted ==
  ASSUME recv_len' > 0 =>
           ((serves' # None) <=> Complete(WordSum(Rest(buffer', recv_len'))))
  PROVE  AcceptedIffRestIsZero'
BY SMT DEF AcceptedIffRestIsZero, Complete, Rest

LEMMA StartStep ==
  ASSUME FilenameInv, NEW a \in CommandLines, Start(a) PROVE FilenameInv'
<1>1. /\ buffer' = buffer /\ serves' = serves /\ recv_len' = recv_len /\ asked' = asked
  BY Zenon DEF Start
<1>2. AcceptedIffRestIsZero'
  BY <1>1, SMT DEF FilenameInv, AcceptedIffRestIsZero
<1>3. asked' # None => buffer' \in Bytes /\ Len(buffer') = PDULen
  BY <1>1, Zenon DEF FilenameInv
<1>4. CASE rpc' = "USAGE"
  <2>1. RequestArrives'
    BY <1>1, <1>4, SMT DEF FilenameInv, RequestArrives
  <2> QED
    BY <1>2, <1>3, <1>4, <2>1 DEF FilenameInv
<1>5. CASE checkArgs(a) /\ params' = a /\ pdu' = AfterChecksum(makeFilenamePDU(a))
           /\ rpc' = IF in_cksum(pdu') = 0 THEN "SEND_FILENAME" ELSE "EXITED"
  <2>1. PICK d : d = pdu' /\ Datagram(d)
    BY <1>5, RequestSent, Zenon
  <2>2. in_cksum(d) = 0
    BY <2>1, CksumZero, Zenon DEF Datagram
  <2>3. rpc' = "SEND_FILENAME"
    BY <1>5, <2>1, <2>2, Zenon
  <2>4. RequestArrives'
    BY <1>1, <2>3, SMT DEF FilenameInv, RequestArrives
  <2> QED
    BY <1>2, <1>3, <1>5, <2>3, <2>4 DEF FilenameInv
<1> QED
  BY <1>4, <1>5, Zenon DEF Start

LEMMA NextRcopyStep ==
  ASSUME FilenameInv, NextRcopy PROVE FilenameInv'
<1>1. /\ buffer' = buffer /\ serves' = serves /\ recv_len' = recv_len /\ asked' = asked
      /\ rpc' = "ARGS"
  BY Zenon DEF NextRcopy
<1>2. AcceptedIffRestIsZero' /\ RequestArrives'
  BY <1>1, SMT DEF FilenameInv, AcceptedIffRestIsZero, RequestArrives
<1> QED
  BY <1>1, <1>2 DEF FilenameInv

\* A filename PDU fills the buffer: main finds nothing behind it and reads the
\* command line it was made from.
LEMMA RecvRequestStep ==
  ASSUME FilenameInv, RecvRequest PROVE FilenameInv'
<1>1. /\ rpc = "SEND_FILENAME" /\ Recv(pdu) /\ asked' = params
      /\ params' = params /\ pdu' = pdu /\ rpc' = rpc
  BY Zenon DEF RecvRequest
<1>2. /\ params \in CommandLines /\ checkArgs(params)
      /\ pdu = AfterChecksum(makeFilenamePDU(params))
  BY <1>1, Zenon DEF FilenameInv
<1>3. /\ Datagram(pdu) /\ Len(pdu) = PDULen
      /\ \A i \in 1 .. MAX_FILENAME_LEN :
           pdu[7 + i] = IF i <= Len(params.name) THEN params.name[i] ELSE 0
      /\ pdu[8 + MAX_FILENAME_LEN] = High(params.buffer)
      /\ pdu[9 + MAX_FILENAME_LEN] = Low(params.buffer)
      /\ pdu[12 + MAX_FILENAME_LEN] = High(Short(params.window))
      /\ pdu[13 + MAX_FILENAME_LEN] = Low(Short(params.window))
  BY <1>2, RequestSent, Zenon
<1>4. Len(pdu) > 0
  BY <1>3, Lengths
<1>5. /\ buffer' \in Bytes /\ Len(buffer') = PDULen /\ recv_len' = Len(pdu)
      /\ buffer' = pdu
      /\ serves' # None => serves' \in Extracted(buffer')
      /\ (serves' # None) <=> Complete(WordSum(Rest(buffer', Len(pdu))))
  BY <1>1, <1>3, <1>4, RecvFacts, Zenon
<1>6. serves' # None /\ serves' \in Extracted(pdu)
  BY <1>3, <1>5, NothingBehind, Zenon
<1>7. /\ serves'.window = Short(params.window) /\ serves'.buffer = Short(params.buffer)
      /\ serves'.payload = Low(params.buffer)
      /\ IF Len(params.name) < MAX_FILENAME_LEN THEN serves'.name = params.name
         ELSE IsPrefix(params.name, serves'.name)
  BY <1>2, <1>3, <1>5, <1>6, RequestRead, Zenon
<1>8. RequestArrives'
  BY <1>1, <1>6, <1>7, SMT DEF RequestArrives, Short, Low
<1>9. AcceptedIffRestIsZero'
  BY <1>5, Accepted, Zenon
<1> QED
  BY <1>1, <1>2, <1>5, <1>8, <1>9, Zenon DEF FilenameInv

\* Any other datagram leaves the end of an older one in the buffer.
LEMMA RecvShortStep ==
  ASSUME FilenameInv, NEW d \in ShortDatagrams, RecvShort(d) PROVE FilenameInv'
<1>1. /\ asked # None /\ Recv(d) /\ asked' = asked
      /\ params' = params /\ pdu' = pdu /\ rpc' = rpc
  BY Zenon DEF RecvShort
<1>2. Datagram(d) /\ Len(d) \in 1 .. PDULen - 1
  BY ShortSent
<1>3. Len(d) > 0 /\ Len(d) # PDULen
  BY <1>2, Lengths
<1>4. buffer \in Bytes /\ Len(buffer) = PDULen
  BY <1>1, Zenon DEF FilenameInv
<1>5. /\ buffer' \in Bytes /\ Len(buffer') = PDULen /\ recv_len' = Len(d)
      /\ (serves' # None) <=> Complete(WordSum(Rest(buffer', Len(d))))
  BY <1>1, <1>2, <1>3, <1>4, RecvFacts, Zenon
<1>6. RequestArrives'
  <2>1. rpc' # "EXITED"
    BY <1>1 DEF FilenameInv
  <2>2. recv_len' # PDULen
    BY <1>3, <1>5, Zenon
  <2> QED
    BY <2>1, <2>2, SMT DEF RequestArrives, PDULen
<1>7. AcceptedIffRestIsZero'
  BY <1>5, Accepted, Zenon
<1> QED
  BY <1>1, <1>5, <1>6, <1>7, Zenon DEF FilenameInv

LEMMA FilenameStep ==
  ASSUME FilenameInv, [Next]_vars PROVE FilenameInv'
<1>1. ASSUME UNCHANGED vars PROVE FilenameInv'
  <2>1. /\ params' = params /\ pdu' = pdu /\ rpc' = rpc /\ buffer' = buffer
        /\ serves' = serves /\ recv_len' = recv_len /\ asked' = asked
    BY <1>1 DEF vars
  <2>2. AcceptedIffRestIsZero' /\ RequestArrives'
    BY <2>1, SMT DEF FilenameInv, AcceptedIffRestIsZero, RequestArrives
  <2> QED
    BY <2>1, <2>2, Zenon DEF FilenameInv
<1> QED
  BY <1>1, StartStep, NextRcopyStep, RecvRequestStep, RecvShortStep, Zenon DEF Next

\* What rcopy sends, main reads, for every command line checkArgs lets pass and
\* whatever was in main's buffer: the sizes modulo 65536, the payload modulo 256,
\* a name shorter than its field as it is, and one that fills it with what main's
\* memory has behind it; and no command line makes rcopy stop at its own checksum.
THEOREM FilenameRequestArrives == Spec => []RequestArrives
<1>1. Spec => []FilenameInv
  BY FilenameInit, FilenameStep, PTL DEF Spec
<1>2. FilenameInv => RequestArrives
  BY Zenon DEF FilenameInv
<1> QED
  BY <1>1, <1>2, PTL

\* main takes a datagram for a request exactly when the older bytes behind it add
\* up to a multiple of 65535, for every name, size and sequence number.
THEOREM FilenameAcceptedIffRestIsZero == Spec => []AcceptedIffRestIsZero
<1>1. Spec => []FilenameInv
  BY FilenameInit, FilenameStep, PTL DEF Spec
<1>2. FilenameInv => AcceptedIffRestIsZero
  BY Zenon DEF FilenameInv
<1> QED
  BY <1>1, <1>2, PTL
=============================================================================
