--------------------------- MODULE Transport_proofs ---------------------------
(***************************************************************************)
(* Three promises of the RPC transport.  Whatever the sizes and the budget, *)
(* a reply keeps --max-result-bytes (Serialized follows a result through   *)
(* the stages of enforce_result_budget).  Whatever the wire and however it *)
(* is cut into chunks, a request has its one reply (Input: what the reader *)
(* has taken is a stretch of the wire in its order; Replied: where each    *)
(* request taken has got to).  And rpc_parse_request accepts what the      *)
(* published schemas allow, for every tool and every class of argument     *)
(* (Agreement).                                                            *)
(***************************************************************************)
EXTENDS Transport, SequenceTheorems, FiniteSetTheorems, WellFoundedInduction, TLAPS

-----------------------------------------------------------------------------
(* The shares of the budget. *)

(* What integer division gives, multiplied back, does not exceed what was  *)
(* divided.                                                                *)
LEMMA DivBound ==
    ASSUME NEW a \in Nat, NEW b \in Nat, b > 0
    PROVE  /\ a \div b \in Nat
           /\ b * (a \div b) <= a
BY Z3

(* A common factor cancels from an inequality.                             *)
LEMMA Cancel ==
    ASSUME NEW a \in Nat, NEW b \in Nat, NEW t \in Nat, t > 0, t * a <= t * b
    PROVE  a <= b
<1>1. SUFFICES ASSUME a >= b + 1 PROVE FALSE
  OBVIOUS
<1>2. PICK d \in Nat : a = b + 1 + d
  <2>1. a - (b + 1) \in Nat /\ a = b + 1 + (a - (b + 1))
    BY <1>1
  <2>2. QED
    BY <2>1
<1>3. t * a = t * b + t + t * d
  BY <1>2, Z3
<1>4. t * d \in Nat /\ t * b \in Nat
  OBVIOUS
<1>5. QED
  BY <1>3, <1>4, Z3

(* Two portions of a pool, cut in proportion to sizes that add up to the   *)
(* total, fit in the pool (the proportional shares of                      *)
(* enforce_result_budget).                                                 *)
LEMMA PortionsFit ==
    ASSUME NEW pool \in Nat, NEW x \in Nat, NEW y \in Nat
    PROVE  /\ Portion(pool, x, x + y) \in Nat
           /\ Portion(pool, y, x + y) \in Nat
           /\ Portion(pool, x, x + y) + Portion(pool, y, x + y) <= pool
<1>1. CASE x + y = 0
  BY <1>1 DEF Portion
<1>2. CASE x + y > 0
  <2> DEFINE t == x + y
             p == (pool * x) \div t
             q == (pool * y) \div t
  <2>1. t \in Nat /\ t > 0 /\ pool * x \in Nat /\ pool * y \in Nat
    BY <1>2
  <2>2. p \in Nat /\ t * p <= pool * x
    BY <2>1, DivBound
  <2>3. q \in Nat /\ t * q <= pool * y
    BY <2>1, DivBound
  <2>4. t * (p + q) = t * p + t * q /\ pool * x + pool * y = t * pool
    BY <2>1, <2>2, <2>3, Z3
  <2>5. t * p \in Nat /\ t * q \in Nat
    BY <2>1, <2>2, <2>3
  <2>6. t * (p + q) <= t * pool
    <3> HIDE DEF t, p, q
    <3> QED BY <2>1, <2>2, <2>3, <2>4, <2>5
  <2>7. p + q <= pool
    <3>1. p + q \in Nat
      BY <2>2, <2>3
    <3> HIDE DEF t, p, q
    <3> QED BY <2>1, <2>6, <3>1, Cancel
  <2>8. QED
    BY <2>2, <2>3, <2>7, <1>2 DEF Portion
<1>3. QED
  BY <1>1, <1>2

(* With at most two payload fields, what the text and the small payloads   *)
(* keep fits: the branch of enforce_result_budget for "everything small,   *)
(* still too much" is never taken.                                         *)
THEOREM SmallAlwaysFit ==
    ASSUME NEW avail \in Nat, NEW et \in Nat, NEW e1 \in Nat, NEW e2 \in Nat
    PROVE  LET text == TextKeep(avail, et)
               rest == avail - text
           IN  /\ text \in Nat /\ rest \in Nat
               /\ text + SmallKept(rest, e1) + SmallKept(rest, e2) <= avail
<1> DEFINE text == TextKeep(avail, et)
           rest == avail - text
<1>1. text \in Nat /\ text <= avail \div 4
  BY DEF TextKeep, Least
<1>2. avail \div 4 <= avail
  OBVIOUS
<1>3. rest \in Nat
  BY <1>1, <1>2
<1>4. SmallKept(rest, e1) \in Nat /\ SmallKept(rest, e1) <= rest \div 8
  <2> HIDE DEF rest
  <2> QED BY <1>3 DEF SmallKept, Small
<1>5. SmallKept(rest, e2) \in Nat /\ SmallKept(rest, e2) <= rest \div 8
  <2> HIDE DEF rest
  <2> QED BY <1>3 DEF SmallKept, Small
<1>6. 2 * (rest \div 8) <= rest
  <2> HIDE DEF rest
  <2> QED BY <1>3
<1>7. QED
  BY <1>1, <1>3, <1>4, <1>5, <1>6

(* Whatever the sizes of the text and of the two payloads, the shares      *)
(* enforce_result_budget computes add up to no more than what is           *)
(* available.                                                              *)
THEOREM SharesFit ==
    ASSUME NEW avail \in Nat, NEW et \in Nat, NEW e1 \in Nat, NEW e2 \in Nat
    PROVE  LET s == Shares(avail, et, e1, e2)
           IN  /\ s.text \in Nat /\ s.first \in Nat /\ s.second \in Nat
               /\ s.text + s.first + s.second <= avail
<1> DEFINE text == TextKeep(avail, et)
           rest == avail - text
           small(e) == Small(rest, e)
           keep(e)  == SmallKept(rest, e)
           pool     == avail - (text + keep(e1) + keep(e2))
           b1       == e1 - keep(e1)
           b2       == e2 - keep(e2)
           share(e) == IF small(e) THEN e ELSE Portion(pool, e, b1 + b2)
<1>1. /\ text \in Nat /\ rest \in Nat
      /\ text + keep(e1) + keep(e2) <= avail
  BY SmallAlwaysFit
<1>2. /\ keep(e1) \in Nat /\ keep(e2) \in Nat
      /\ b1 \in Nat /\ b2 \in Nat /\ pool \in Nat
  <2> HIDE DEF text, rest
  <2> QED BY <1>1 DEF SmallKept
<1>3. Shares(avail, et, e1, e2) = [text |-> text, first |-> share(e1), second |-> share(e2)]
  BY <1>1 DEF Shares, SmallKept
<1>4. /\ Portion(pool, b1, b1 + b2) \in Nat /\ Portion(pool, b2, b1 + b2) \in Nat
      /\ Portion(pool, b1, b1 + b2) + Portion(pool, b2, b1 + b2) <= pool
  <2> HIDE DEF pool, b1, b2
  <2> QED BY <1>2, PortionsFit
<1>5. share(e1) \in Nat /\ share(e1) <= keep(e1) + Portion(pool, b1, b1 + b2)
  <2>1. CASE small(e1)
    <3>1. share(e1) = e1 /\ keep(e1) = e1
      BY <2>1 DEF SmallKept
    <3> HIDE DEF keep, share, pool, b1, b2
    <3> QED BY <3>1, <1>4
  <2>2. CASE ~small(e1)
    <3>1. keep(e1) = 0 /\ b1 = e1
      BY <2>2 DEF SmallKept
    <3>2. share(e1) = Portion(pool, b1, b1 + b2)
      BY <2>2, <3>1
    <3> HIDE DEF keep, share, pool, b1, b2
    <3> QED BY <3>1, <3>2, <1>4
  <2>3. QED
    BY <2>1, <2>2
<1>6. share(e2) \in Nat /\ share(e2) <= keep(e2) + Portion(pool, b2, b1 + b2)
  <2>1. CASE small(e2)
    <3>1. share(e2) = e2 /\ keep(e2) = e2
      BY <2>1 DEF SmallKept
    <3> HIDE DEF keep, share, pool, b1, b2
    <3> QED BY <3>1, <1>4
  <2>2. CASE ~small(e2)
    <3>1. keep(e2) = 0 /\ b2 = e2
      BY <2>2 DEF SmallKept
    <3>2. share(e2) = Portion(pool, b2, b1 + b2)
      BY <2>2, <3>1
    <3> HIDE DEF keep, share, pool, b1, b2
    <3> QED BY <3>1, <3>2, <1>4
  <2>3. QED
    BY <2>1, <2>2
<1>7. text + share(e1) + share(e2) <= avail
  <2>1. text + keep(e1) + keep(e2) + pool = avail
    <3> HIDE DEF text, keep
    <3> QED BY <1>1, <1>2
  <2> HIDE DEF text, keep, share, pool, b1, b2
  <2> QED BY <1>1, <1>2, <1>4, <1>5, <1>6, <2>1
<1>8. QED
  BY <1>1, <1>3, <1>5, <1>6, <1>7

-----------------------------------------------------------------------------
(* Least and greatest elements. *)

(* A set of natural numbers has a least element.                           *)
LEMMA LeastIn ==
    ASSUME NEW T, T \subseteq Nat, T # {}
    PROVE  Min(T) \in T /\ \A y \in T : Min(T) <= y
<1>1. PICK x \in T : \A y \in T : <<y, x>> \notin OpToRel(<, Nat)
  BY WFMin, NatLessThanWellFounded, Zenon
<1>2. \A y \in T : ~(y < x)
  BY <1>1, Zenon DEF OpToRel
<1>3. \A y \in T : x =< y
  BY <1>2
<1>4. QED
  BY <1>3, Zenon DEF Min

(* A bounded one has a greatest.                                           *)
LEMMA GreatestIn ==
    ASSUME NEW n \in Nat, NEW T, T \subseteq 0..n, T # {}
    PROVE  Max(T) \in T /\ \A y \in T : Max(T) >= y
<1> DEFINE U == {x \in 0..n : n - x \in T}
<1>1. U \subseteq Nat /\ U # {}
  <2>1. PICK y \in T : TRUE
    OBVIOUS
  <2>2. y \in 0..n /\ n - y \in 0..n /\ n - (n - y) = y
    OBVIOUS
  <2>3. n - y \in U
    BY <2>2
  <2>4. U \subseteq Nat
    OBVIOUS
  <2>5. QED
    BY <2>3, <2>4
<1>2. Min(U) \in U /\ \A y \in U : Min(U) <= y
  BY <1>1, LeastIn
<1>3. PICK m \in U : \A y \in U : m <= y
  BY <1>2
<1>4. n - m \in T
  OBVIOUS
<1>5. ASSUME NEW y \in T PROVE n - m >= y
  <2>1. y \in 0..n /\ n - y \in U
    OBVIOUS
  <2>2. m <= n - y
    BY <1>3, <2>1
  <2>3. m \in 0..n
    BY <1>3
  <2>4. QED
    BY <2>1, <2>2, <2>3
<1>6. \E x \in T : \A y \in T : x >= y
  BY <1>4, <1>5
<1>7. QED
  BY <1>6, Zenon DEF Max

-----------------------------------------------------------------------------
(* Encoded lengths. *)

(* How many of the bytes from a to b are of the kinds K.                   *)
Count(s, a, b, K) == Cardinality({i \in a..b : s[i] \in K})

(* The encoded length of the bytes from a to b.                            *)
Enc(s, a, b) == (b - a + 1) + Count(s, a, b, {"q", "n"}) + 5 * Count(s, a, b, {"z"})

(* A count is a number, and the counts of two adjacent stretches add up.   *)
LEMMA CountSplit ==
    ASSUME NEW s, NEW K, NEW a \in Int, NEW b \in Int
    PROVE  /\ Count(s, a, b, K) \in Nat
           /\ \A m \in Int : a <= m + 1 /\ m <= b =>
                  Count(s, a, b, K) = Count(s, a, m, K) + Count(s, m + 1, b, K)
<1> DEFINE At(x, y) == {i \in x..y : s[i] \in K}
<1>1. ASSUME NEW x \in Int, NEW y \in Int
      PROVE  IsFiniteSet(At(x, y)) /\ Cardinality(At(x, y)) \in Nat
  <2>1. IsFiniteSet(x..y) /\ At(x, y) \in SUBSET (x..y)
    BY FS_Interval
  <2>2. IsFiniteSet(At(x, y))
    BY <2>1, FS_Subset
  <2>3. QED
    BY <2>2, FS_CardinalityType
<1>2. Count(s, a, b, K) \in Nat
  BY <1>1 DEF Count
<1>3. ASSUME NEW m \in Int, a <= m + 1, m <= b
      PROVE  Count(s, a, b, K) = Count(s, a, m, K) + Count(s, m + 1, b, K)
  <2>1. /\ IsFiniteSet(At(a, m)) /\ Cardinality(At(a, m)) \in Nat
        /\ IsFiniteSet(At(m + 1, b)) /\ Cardinality(At(m + 1, b)) \in Nat
    <3>1. m + 1 \in Int
      OBVIOUS
    <3> HIDE DEF At
    <3> QED BY <1>1, <3>1
  <2>2. At(a, b) = At(a, m) \cup At(m + 1, b) /\ At(a, m) \cap At(m + 1, b) = {}
    BY <1>3
  <2>3. Cardinality({}) = 0
    BY FS_EmptySet
  <2>4. Cardinality(At(a, b)) = Cardinality(At(a, m)) + Cardinality(At(m + 1, b)) - Cardinality({})
    <3> HIDE DEF At
    <3>1. Cardinality(At(a, m) \cup At(m + 1, b))
            = Cardinality(At(a, m)) + Cardinality(At(m + 1, b)) - Cardinality(At(a, m) \cap At(m + 1, b))
      BY <2>1, FS_Union
    <3>2. QED
      BY <2>2, <3>1
  <2>5. Cardinality(At(a, b)) = Cardinality(At(a, m)) + Cardinality(At(m + 1, b))
    <3> HIDE DEF At
    <3> QED BY <2>1, <2>3, <2>4
  <2>6. QED
    BY <2>5 DEF Count
<1>4. QED
  BY <1>2, <1>3

(* The counts of a part of a stream are those of its stretch.              *)
LEMMA CountOfPart ==
    ASSUME NEW s \in Seq(ByteKinds), NEW K, NEW a \in 1..Len(s) + 1, NEW b \in a - 1..Len(s)
    PROVE  LET u == SubSeq(s, a, b)
           IN  /\ Len(u) = b - a + 1
               /\ Cardinality({i \in 1..Len(u) : u[i] \in K}) = Count(s, a, b, K)
<1> DEFINE u == SubSeq(s, a, b)
           S == {i \in 1..Len(u) : u[i] \in K}
           T == {i \in a..b : s[i] \in K}
           f == [i \in T |-> i - a + 1]
<1>1. Len(s) \in Nat /\ a \in Int /\ b \in Int /\ a <= b + 1 /\ \A i \in a..b : s[i] \in ByteKinds
  BY LenProperties
<1>2. Len(u) = b - a + 1 /\ \A i \in 1..b - a + 1 : u[i] = s[a + i - 1]
  <2>1. /\ Len(u) = IF a <= b THEN b - a + 1 ELSE 0
        /\ \A i \in 1..b - a + 1 : u[i] = s[a + i - 1]
    BY <1>1, SubSeqProperties
  <2> HIDE DEF u
  <2> QED BY <2>1, <1>1
<1>3. f \in Bijection(T, S)
  <2> HIDE DEF u
  <2>1. ASSUME NEW i \in T PROVE f[i] \in S
    <3>1. i - a + 1 \in 1..b - a + 1 /\ a + (i - a + 1) - 1 = i
      BY <1>1
    <3>2. u[i - a + 1] = s[i]
      BY <1>2, <3>1
    <3>3. QED
      BY <1>2, <3>1, <3>2
  <2>2. ASSUME NEW i \in T, NEW k \in T, f[i] = f[k] PROVE i = k
    BY <1>1, <2>2
  <2>3. ASSUME NEW j \in S PROVE \E i \in T : f[i] = j
    <3>1. j \in 1..b - a + 1 /\ u[j] = s[a + j - 1]
      BY <1>2
    <3>2. j \in Int /\ a + j - 1 \in a..b /\ (a + j - 1) - a + 1 = j
      BY <1>1, <3>1
    <3>3. s[a + j - 1] \in K
      BY <3>1
    <3>4. a + j - 1 \in T /\ f[a + j - 1] = j
      BY <3>2, <3>3
    <3>5. QED
      BY <3>4
  <2>4. QED
    BY <2>1, <2>2, <2>3 DEF Bijection, Injection, Surjection, IsInjective
<1>4. IsFiniteSet(T)
  <2>1. IsFiniteSet(a..b) /\ T \in SUBSET (a..b)
    BY <1>1, FS_Interval
  <2>2. QED
    BY <2>1, FS_Subset
<1>5. Cardinality(S) = Cardinality(T)
  <2>1. ExistsBijection(T, S)
    <3> HIDE DEF f, S, T
    <3> QED BY <1>3 DEF ExistsBijection
  <2> HIDE DEF S, T
  <2> QED BY <1>4, <2>1, FS_Bijection
<1>6. QED
  BY <1>2, <1>5 DEF Count

(* So is its encoded length, a byte at least for every byte.               *)
LEMMA EncOfPart ==
    ASSUME NEW s \in Seq(ByteKinds), NEW a \in Int, NEW b \in Int,
           1 <= a, a <= b + 1, b <= Len(s)
    PROVE  /\ escaped_len(SubSeq(s, a, b)) = Enc(s, a, b)
           /\ Enc(s, a, b) \in Nat /\ Enc(s, a, b) >= b - a + 1
           /\ b < a => Enc(s, a, b) = 0
<1> DEFINE u == SubSeq(s, a, b)
<1>1. Len(s) \in Nat /\ a \in 1..Len(s) + 1 /\ b \in a - 1..Len(s)
  BY LenProperties
<1>2. /\ Len(u) = b - a + 1
      /\ Cardinality({i \in 1..Len(u) : u[i] \in {"q", "n"}}) = Count(s, a, b, {"q", "n"})
  BY <1>1, CountOfPart
<1>3. Cardinality({i \in 1..Len(u) : u[i] \in {"z"}}) = Count(s, a, b, {"z"})
  BY <1>1, CountOfPart
<1>4. {i \in 1..Len(u) : u[i] \in {"z"}} = {i \in 1..Len(u) : u[i] = "z"}
  OBVIOUS
<1>5. escaped_len(u) = Enc(s, a, b)
  <2> HIDE DEF u
  <2> QED BY <1>2, <1>3, <1>4 DEF escaped_len, Enc
<1>6. Count(s, a, b, {"q", "n"}) \in Nat /\ Count(s, a, b, {"z"}) \in Nat
  BY <1>1, CountSplit
<1>7. Enc(s, a, b) \in Nat /\ Enc(s, a, b) >= b - a + 1
  <2>1. ASSUME NEW q \in Nat, NEW z \in Nat
        PROVE  b - a + 1 + q + 5 * z \in Nat /\ b - a + 1 + q + 5 * z >= b - a + 1
    BY <1>1
  <2>2. QED
    BY <1>6, <2>1, Zenon DEF Enc
<1>8. ASSUME b < a PROVE Enc(s, a, b) = 0
  <2>1. \A K : {i \in a..b : s[i] \in K} = {}
    BY <1>1, <1>8
  <2>2. Count(s, a, b, {"q", "n"}) = 0 /\ Count(s, a, b, {"z"}) = 0
    BY <2>1, FS_EmptySet DEF Count
  <2>3. b - a + 1 = 0
    BY <1>1, <1>8
  <2>4. QED
    BY <2>2, <2>3 DEF Enc
<1>9. QED
  BY <1>5, <1>7, <1>8

(* The encoded lengths of two adjacent parts add up.                       *)
LEMMA EncSplit ==
    ASSUME NEW s \in Seq(ByteKinds), NEW a \in Int, NEW b \in Int, NEW m \in Int,
           1 <= a, a <= m + 1, m <= b, b <= Len(s)
    PROVE  Enc(s, a, b) = Enc(s, a, m) + Enc(s, m + 1, b)
<1>1. Len(s) \in Nat /\ a \in Int /\ b \in Int /\ m \in Int /\ m + 1 \in Int
  BY LenProperties
<1> DEFINE q == Count(s, a, m, {"q", "n"})
           r == Count(s, m + 1, b, {"q", "n"})
           y == Count(s, a, m, {"z"})
           z == Count(s, m + 1, b, {"z"})
<1>2. Count(s, a, b, {"q", "n"}) = q + r /\ q \in Nat /\ r \in Nat
  BY <1>1, CountSplit
<1>3. Count(s, a, b, {"z"}) = y + z /\ y \in Nat /\ z \in Nat
  BY <1>1, CountSplit
<1>4. /\ Enc(s, a, b) = (b - a + 1) + (q + r) + 5 * (y + z)
      /\ Enc(s, a, m) = (m - a + 1) + q + 5 * y
      /\ Enc(s, m + 1, b) = (b - (m + 1) + 1) + r + 5 * z
  BY <1>2, <1>3 DEF Enc
<1>5. QED
  <2> HIDE DEF q, r, y, z
  <2> QED BY <1>1, <1>2, <1>3, <1>4

-----------------------------------------------------------------------------
(* Cutting one value. *)

(* The length of a whole stream, and of an empty one.                      *)
LEMMA EncWhole ==
    ASSUME NEW s \in Seq(ByteKinds)
    PROVE  /\ Len(s) \in Nat
           /\ escaped_len(s) = Enc(s, 1, Len(s)) /\ escaped_len(s) \in Nat
           /\ escaped_len(<<>>) = 0
<1>1. Len(s) \in Nat /\ SubSeq(s, 1, Len(s)) = s
  BY LenProperties, SubSeqFull
<1>2. 1 \in Int /\ 1 <= 1 /\ 1 <= Len(s) + 1 /\ Len(s) \in Int /\ Len(s) <= Len(s)
  BY <1>1
<1>3. escaped_len(SubSeq(s, 1, Len(s))) = Enc(s, 1, Len(s)) /\ Enc(s, 1, Len(s)) \in Nat
  BY <1>2, EncOfPart
<1>4. escaped_len(<<>>) = 0
  <2>1. Len(<<>>) = 0 /\ {i \in 1..0 : <<>>[i] \in {"q", "n"}} = {} /\ {i \in 1..0 : <<>>[i] = "z"} = {}
    OBVIOUS
  <2>2. QED
    BY <2>1, FS_EmptySet DEF escaped_len
<1>5. QED
  BY <1>1, <1>3, <1>4

(* Every cut at the start, behind a newline or at the end is between two   *)
(* characters.                                                             *)
LEMMA CutAtLine ==
    ASSUME NEW s \in Seq(ByteKinds), Unsplit(s), NEW k \in 0..Len(s),
           k = 0 \/ k = Len(s) \/ s[k] = "n"
    PROVE  Boundary(s, k)
<1>1. Len(s) \in Nat
  BY LenProperties
<1>2. SUFFICES ASSUME k # Len(s), s[k + 1] = "c" PROVE FALSE
  BY DEF Boundary
<1>3. k + 1 \in 1..Len(s) /\ k + 1 - 1 = k
  BY <1>1, <1>2
<1>4. k + 1 > 1 /\ s[k] \in {"l", "c"}
  BY <1>2, <1>3 DEF Unsplit
<1>5. QED
  BY <1>2, <1>4

(* fit_raw_bytes forwards keeps a prefix within its budget.                *)
LEMMA FitForwardFits ==
    ASSUME NEW s \in Seq(ByteKinds), NEW b \in Nat
    PROVE  /\ FitForward(s, b) \in 0..Len(s)
           /\ escaped_len(SubSeq(s, 1, FitForward(s, b))) <= b
<1> DEFINE T == {k \in 0..Len(s) : escaped_len(SubSeq(s, 1, k)) <= b}
<1>1. Len(s) \in Nat
  BY LenProperties
<1>2. 0 \in T
  <2>1. SubSeq(s, 1, 0) = <<>>
    BY SubSeqEmpty
  <2>2. escaped_len(SubSeq(s, 1, 0)) = 0
    BY <2>1, EncWhole, Zenon
  <2>3. escaped_len(SubSeq(s, 1, 0)) <= b
    BY <2>2
  <2>4. QED
    BY <1>1, <2>3
<1>3. T \subseteq 0..Len(s) /\ T # {}
  BY <1>2
<1>4. Max(T) \in T
  <2> HIDE DEF T
  <2> QED BY <1>1, <1>3, GreatestIn
<1>5. QED
  BY <1>4, Zenon DEF FitForward

(* Backwards from the end it keeps a suffix within its budget, down to     *)
(* limit at most, and stops between two characters if not at limit.        *)
LEMMA FitBackwardFits ==
    ASSUME NEW s \in Seq(ByteKinds), NEW b \in Nat, NEW limit \in 0..Len(s)
    PROVE  LET start == Len(s) - FitBackward(s, b, limit)
           IN  /\ start \in limit..Len(s)
               /\ start = limit \/ Boundary(s, start)
               /\ escaped_len(SubSeq(s, start + 1, Len(s))) <= b
<1> DEFINE T == {p \in limit..Len(s) :
                     /\ p = limit \/ Boundary(s, p)
                     /\ escaped_len(SubSeq(s, p + 1, Len(s))) <= b}
<1>1. Len(s) \in Nat
  BY LenProperties
<1>2. Len(s) \in T
  <2>1. SubSeq(s, Len(s) + 1, Len(s)) = <<>>
    BY <1>1, SubSeqEmpty
  <2>2. escaped_len(SubSeq(s, Len(s) + 1, Len(s))) = 0
    BY <2>1, EncWhole, Zenon
  <2>3. escaped_len(SubSeq(s, Len(s) + 1, Len(s))) <= b
    BY <2>2
  <2>4. Boundary(s, Len(s)) /\ Len(s) \in limit..Len(s)
    BY <1>1 DEF Boundary
  <2>5. QED
    BY <2>3, <2>4, Zenon
<1>3. T \subseteq Nat /\ T # {}
  BY <1>1, <1>2
<1>4. PICK m \in T : m = Min(T)
  <2> HIDE DEF T
  <2> QED BY <1>3, LeastIn
<1>5. FitBackward(s, b, limit) = Len(s) - m
  BY <1>4, Zenon DEF FitBackward
<1>6. Len(s) - FitBackward(s, b, limit) = m
  BY <1>1, <1>5
<1>7. QED
  BY <1>6

(* Snapping the head moves it inwards, to a line if there is one.          *)
LEMMA SnapHeadInwards ==
    ASSUME NEW s \in Seq(ByteKinds), NEW h \in 0..Len(s)
    PROVE  /\ SnapHead(s, h) \in 0..h
           /\ \/ SnapHead(s, h) > 0 /\ s[SnapHead(s, h)] = "n"
              \/ SnapHead(s, h) = h /\ \A k \in 1..h : h - k < Window => s[k] # "n"
<1> DEFINE T == {k \in 1..h : h - k < Window /\ s[k] = "n"}
<1>1. h \in Nat
  BY LenProperties
<1>2. CASE T = {}
  BY <1>1, <1>2 DEF SnapHead
<1>3. CASE T # {}
  <2>1. T \subseteq 0..h
    BY <1>1
  <2>2. Max(T) \in T
    <3> HIDE DEF T
    <3> QED BY <1>1, <1>3, <2>1, GreatestIn
  <2>3. SnapHead(s, h) = Max(T)
    BY <1>3, Zenon DEF SnapHead
  <2>4. QED
    BY <1>1, <2>2, <2>3
<1>4. QED
  BY <1>2, <1>3

(* Snapping the start of the tail moves it outwards, to a line if at all.  *)
LEMMA SnapTailOutwards ==
    ASSUME NEW s \in Seq(ByteKinds), NEW p \in 0..Len(s), NEW limit
    PROVE  /\ SnapTail(s, p, limit) \in p..Len(s)
           /\ SnapTail(s, p, limit) = p \/ s[SnapTail(s, p, limit)] = "n"
<1> DEFINE T == {k \in p + 1..Len(s) : k <= p + Window /\ s[k] = "n" /\ k > limit}
<1>1. Len(s) \in Nat
  BY LenProperties
<1>2. CASE T = {}
  BY <1>1, <1>2 DEF SnapTail
<1>3. CASE T # {}
  <2>1. T \subseteq Nat
    BY <1>1
  <2>2. Min(T) \in T
    <3> HIDE DEF T
    <3> QED BY <1>3, <2>1, LeastIn
  <2>3. SnapTail(s, p, limit) = Min(T)
    BY <1>3, Zenon DEF SnapTail
  <2>4. QED
    BY <1>1, <2>2, <2>3
<1>4. QED
  BY <1>2, <1>3

(* What trim_to_encoded_budget keeps of a stream: all of it, or two ends   *)
(* that do not overlap and are within the budget together; the tail starts *)
(* with a character, and the head ends with one or no line was near.       *)
Trimmed(s, b, t) ==
    /\ t.cut \in BOOLEAN /\ t.head \in Nat /\ t.tail \in Nat
    /\ t.head + t.tail <= Len(s)
    /\ Boundary(s, Len(s) - t.tail)
    /\ ~t.cut => t.head = Len(s) /\ t.tail = 0
    /\ ~t.cut => b = 0 \/ escaped_len(s) <= b
    /\ t.cut => /\ escaped_len(HeadPart(s, t)) \in Nat /\ escaped_len(TailPart(s, t)) \in Nat
                /\ escaped_len(HeadPart(s, t)) + escaped_len(TailPart(s, t)) <= b
                /\ \/ Boundary(s, t.head)
                   \/ LooksLikeText(s) => \A k \in 1..t.head : t.head - k < Window => s[k] # "n"

(* What has not been cut is such a result for every budget it fits.        *)
LEMMA UncutTrimmed ==
    ASSUME NEW s \in Seq(ByteKinds), NEW b \in Nat, b = 0 \/ escaped_len(s) <= b
    PROVE  Trimmed(s, b, Uncut(s))
<1>1. Len(s) \in Nat /\ Len(s) - 0 = Len(s)
  BY LenProperties
<1>2. QED
  BY <1>1 DEF Trimmed, Uncut, Boundary

(* trim_to_encoded_budget does what its caller relies on.                  *)
LEMMA TrimOK ==
    ASSUME NEW s \in Seq(ByteKinds), Unsplit(s), NEW b \in Nat
    PROVE  Trimmed(s, b, trim_to_encoded_budget(s, b))
<1> DEFINE t == trim_to_encoded_budget(s, b)
           h == FitForward(s, b \div 2)
           p == Len(s) - FitBackward(s, b - b \div 2, h)
           head == IF LooksLikeText(s) THEN SnapHead(s, h) ELSE h
           start == IF LooksLikeText(s) THEN SnapTail(s, p, head) ELSE p
<1>1. Len(s) \in Nat /\ b \div 2 \in Nat /\ b - b \div 2 \in Nat
  BY LenProperties
<1>2. CASE b = 0 \/ escaped_len(s) <= b
  <2>1. t = Uncut(s)
    BY <1>2 DEF trim_to_encoded_budget
  <2>2. QED
    BY <1>2, <2>1, UncutTrimmed
<1>3. CASE ~(b = 0 \/ escaped_len(s) <= b)
  <2>1. t = [cut |-> TRUE, head |-> head, tail |-> Len(s) - start]
    BY <1>3, Zenon DEF trim_to_encoded_budget
  <2>2. h \in 0..Len(s) /\ escaped_len(SubSeq(s, 1, h)) <= b \div 2
    BY <1>1, FitForwardFits
  <2>3. /\ p \in h..Len(s)
        /\ p = h \/ Boundary(s, p)
        /\ escaped_len(SubSeq(s, p + 1, Len(s))) <= b - b \div 2
    <3> HIDE DEF h
    <3> QED BY <1>1, <2>2, FitBackwardFits
  <2> HIDE DEF h, p
  <2>4. p \in 0..Len(s) /\ h <= p
    BY <1>1, <2>2, <2>3
  <2>5. /\ escaped_len(SubSeq(s, 1, h)) = Enc(s, 1, h) /\ Enc(s, 1, h) \in Nat
        /\ escaped_len(SubSeq(s, p + 1, Len(s))) = Enc(s, p + 1, Len(s)) /\ Enc(s, p + 1, Len(s)) \in Nat
    <3>1. h \in Int /\ 1 <= h + 1 /\ h <= Len(s)
      BY <1>1, <2>2
    <3>2. p + 1 \in Int /\ 1 <= p + 1 /\ p + 1 <= Len(s) + 1 /\ Len(s) \in Int
      BY <1>1, <2>4
    <3>3. escaped_len(SubSeq(s, 1, h)) = Enc(s, 1, h) /\ Enc(s, 1, h) \in Nat
      BY <3>1, EncOfPart
    <3>4. /\ escaped_len(SubSeq(s, p + 1, Len(s))) = Enc(s, p + 1, Len(s))
          /\ Enc(s, p + 1, Len(s)) \in Nat
      BY <3>2, EncOfPart
    <3>5. QED
      BY <3>3, <3>4
  <2>6. Boundary(s, p)
    <3>1. SUFFICES ASSUME p = h PROVE FALSE
      BY <2>3
    <3>2. h \in Int /\ 1 <= h + 1 /\ h <= Len(s) /\ Len(s) \in Int
      BY <1>1, <2>2
    <3>3. Enc(s, 1, Len(s)) = Enc(s, 1, h) + Enc(s, h + 1, Len(s))
      BY <3>2, EncSplit
    <3>4. escaped_len(s) <= b
      BY <1>1, <2>2, <2>3, <2>5, <3>1, <3>3, EncWhole
    <3>5. QED
      BY <1>3, <3>4
  <2>7. /\ head \in 0..h
        /\ \/ head > 0 /\ s[head] = "n"
           \/ head = h /\ (LooksLikeText(s) => \A k \in 1..h : h - k < Window => s[k] # "n")
    <3>1. CASE LooksLikeText(s)
      BY <2>2, <3>1, SnapHeadInwards
    <3>2. CASE ~LooksLikeText(s)
      BY <1>1, <2>2, <3>2
    <3>3. QED
      BY <3>1, <3>2
  <2> HIDE DEF head
  <2>8. start \in p..Len(s) /\ (start = p \/ s[start] = "n")
    <3>1. CASE LooksLikeText(s)
      BY <2>4, <3>1, SnapTailOutwards
    <3>2. CASE ~LooksLikeText(s)
      BY <1>1, <2>4, <3>2
    <3>3. QED
      BY <3>1, <3>2
  <2> HIDE DEF start
  <2>9. /\ head \in 0..Len(s) /\ start \in 0..Len(s) /\ head <= h /\ h <= p /\ p <= start
        /\ Len(s) - (Len(s) - start) = start
    BY <1>1, <2>2, <2>4, <2>7, <2>8
  <2>10. Boundary(s, start)
    BY <2>6, <2>8, <2>9, CutAtLine
  <2>11. \/ Boundary(s, head)
         \/ LooksLikeText(s) => \A k \in 1..head : head - k < Window => s[k] # "n"
    <3>1. CASE s[head] = "n"
      BY <2>9, <3>1, CutAtLine
    <3>2. CASE head = h /\ (LooksLikeText(s) => \A k \in 1..h : h - k < Window => s[k] # "n")
      BY <3>2
    <3>3. QED
      BY <2>7, <3>1, <3>2
  <2>12. HeadPart(s, t) = SubSeq(s, 1, head) /\ TailPart(s, t) = SubSeq(s, start + 1, Len(s))
    BY <2>1, <2>9 DEF HeadPart, TailPart
  <2>13. /\ escaped_len(SubSeq(s, 1, head)) = Enc(s, 1, head) /\ Enc(s, 1, head) \in Nat
         /\ Enc(s, 1, head) <= Enc(s, 1, h)
    <3>1. /\ head \in Int /\ h \in Int /\ 1 <= head + 1 /\ head <= h /\ h <= Len(s)
          /\ head <= Len(s) /\ head + 1 \in Int /\ head + 1 <= h + 1
      BY <1>1, <2>2, <2>9
    <3>2. Enc(s, 1, h) = Enc(s, 1, head) + Enc(s, head + 1, h)
      BY <3>1, EncSplit
    <3>3. escaped_len(SubSeq(s, 1, head)) = Enc(s, 1, head) /\ Enc(s, 1, head) \in Nat
      BY <3>1, EncOfPart
    <3>4. Enc(s, head + 1, h) \in Nat
      BY <3>1, EncOfPart
    <3>5. QED
      BY <3>2, <3>3, <3>4
  <2>14. /\ escaped_len(SubSeq(s, start + 1, Len(s))) = Enc(s, start + 1, Len(s))
         /\ Enc(s, start + 1, Len(s)) \in Nat
         /\ Enc(s, start + 1, Len(s)) <= Enc(s, p + 1, Len(s))
    <3>1. /\ p + 1 \in Int /\ start \in Int /\ start + 1 \in Int /\ Len(s) \in Int
          /\ 1 <= p + 1 /\ p + 1 <= start + 1 /\ start <= Len(s) /\ 1 <= start + 1
          /\ start + 1 <= Len(s) + 1
      BY <1>1, <2>4, <2>9
    <3>2. Enc(s, p + 1, Len(s)) = Enc(s, p + 1, start) + Enc(s, start + 1, Len(s))
      BY <3>1, EncSplit
    <3>3. /\ escaped_len(SubSeq(s, start + 1, Len(s))) = Enc(s, start + 1, Len(s))
          /\ Enc(s, start + 1, Len(s)) \in Nat
      BY <3>1, EncOfPart
    <3>4. Enc(s, p + 1, start) \in Nat
      BY <3>1, EncOfPart
    <3>5. QED
      BY <3>2, <3>3, <3>4
  <2>15. /\ escaped_len(HeadPart(s, t)) \in Nat /\ escaped_len(TailPart(s, t)) \in Nat
         /\ escaped_len(HeadPart(s, t)) + escaped_len(TailPart(s, t)) <= b
    <3>1. /\ escaped_len(HeadPart(s, t)) = Enc(s, 1, head)
          /\ escaped_len(TailPart(s, t)) = Enc(s, start + 1, Len(s))
      BY <2>12, <2>13, <2>14, Zenon
    <3>2. Enc(s, 1, h) <= b \div 2 /\ Enc(s, p + 1, Len(s)) <= b - b \div 2
      BY <2>2, <2>3, <2>5
    <3>3. Enc(s, 1, head) + Enc(s, start + 1, Len(s)) <= b
      BY <1>1, <2>5, <2>13, <2>14, <3>2
    <3>4. QED
      BY <2>13, <2>14, <3>1, <3>3, Zenon
  <2>16. t.cut /\ t.head = head /\ t.tail = Len(s) - start
    BY <2>1
  <2>17. Trimmed(s, b, t)
    <3> HIDE DEF t
    <3>1. /\ Len(s) - t.tail = start /\ t.head + t.tail <= Len(s)
          /\ t.head \in Nat /\ t.tail \in Nat
      BY <1>1, <2>2, <2>4, <2>9, <2>16
    <3>2. QED
      BY <2>10, <2>11, <2>15, <2>16, <3>1 DEF Trimmed
  <2>18. QED
    BY <2>17
<1>4. QED
  BY <1>2, <1>3

-----------------------------------------------------------------------------
(* The text block. *)

(* Two whole streams joined are a whole stream, and so are the parts of    *)
(* one cut between two characters.                                         *)
LEMMA UnsplitJoin ==
    ASSUME NEW s \in Seq(ByteKinds), NEW u \in Seq(ByteKinds), Unsplit(s), Unsplit(u)
    PROVE  s \o u \in Seq(ByteKinds) /\ Unsplit(s \o u)
<1> DEFINE w == s \o u
<1>1. /\ Len(s) \in Nat /\ Len(u) \in Nat /\ w \in Seq(ByteKinds)
      /\ Len(w) = Len(s) + Len(u)
      /\ \A i \in 1..Len(s) + Len(u) : w[i] = IF i <= Len(s) THEN s[i] ELSE u[i - Len(s)]
  BY ConcatProperties, LenProperties
<1> HIDE DEF w
<1>2. ASSUME NEW j \in 1..Len(w), w[j] = "c" PROVE j > 1 /\ w[j - 1] \in {"l", "c"}
  <2>1. CASE j <= Len(s)
    <3>1. j \in 1..Len(s) /\ s[j] = "c"
      BY <1>1, <1>2, <2>1
    <3>2. j > 1 /\ s[j - 1] \in {"l", "c"}
      BY <3>1 DEF Unsplit
    <3>3. w[j - 1] = s[j - 1]
      <4>1. j - 1 \in 1..Len(s) + Len(u) /\ j - 1 <= Len(s)
        BY <1>1, <2>1, <3>1, <3>2
      <4>2. QED
        BY <1>1, <4>1
    <3>4. QED
      BY <3>2, <3>3
  <2>2. CASE ~(j <= Len(s))
    <3>1. j - Len(s) \in 1..Len(u) /\ u[j - Len(s)] = "c"
      BY <1>1, <1>2, <2>2
    <3>2. j - Len(s) > 1 /\ u[j - Len(s) - 1] \in {"l", "c"}
      BY <3>1 DEF Unsplit
    <3>3. w[j - 1] = u[j - Len(s) - 1]
      <4>1. j - 1 \in 1..Len(s) + Len(u) /\ ~(j - 1 <= Len(s)) /\ j - 1 - Len(s) = j - Len(s) - 1
        BY <1>1, <2>2, <3>1, <3>2
      <4>2. QED
        BY <1>1, <4>1
    <3>4. j > 1
      BY <1>1, <3>1, <3>2
    <3>5. QED
      BY <3>2, <3>3, <3>4
  <2>3. QED
    BY <2>1, <2>2
<1>3. Unsplit(w)
  BY <1>2 DEF Unsplit
<1>4. QED
  BY <1>1, <1>3 DEF w

(* A prefix of a whole stream lacks no first byte, nor does a suffix that  *)
(* starts between two characters.                                          *)
LEMMA UnsplitParts ==
    ASSUME NEW s \in Seq(ByteKinds), Unsplit(s), NEW k \in 0..Len(s)
    PROVE  /\ SubSeq(s, 1, k) \in Seq(ByteKinds) /\ Unsplit(SubSeq(s, 1, k))
           /\ SubSeq(s, k + 1, Len(s)) \in Seq(ByteKinds)
           /\ Boundary(s, k) => Unsplit(SubSeq(s, k + 1, Len(s)))
<1> DEFINE w == SubSeq(s, 1, k)
           v == SubSeq(s, k + 1, Len(s))
<1>1. Len(s) \in Nat /\ k \in Int /\ \A i \in 1..Len(s) : s[i] \in ByteKinds
  BY LenProperties
<1>2. w \in Seq(ByteKinds) /\ Len(w) = k /\ \A i \in 1..k : w[i] = s[i]
  BY <1>1, SubSeqProperties
<1>3. /\ v \in Seq(ByteKinds) /\ Len(v) = Len(s) - k
      /\ \A i \in 1..Len(s) - k : v[i] = s[k + i]
  BY <1>1, SubSeqProperties
<1> HIDE DEF w, v
<1>4. Unsplit(w)
  <2>1. ASSUME NEW j \in 1..Len(w), w[j] = "c" PROVE j > 1 /\ w[j - 1] \in {"l", "c"}
    <3>1. j \in 1..Len(s) /\ s[j] = "c" /\ j \in 1..k
      BY <1>1, <1>2, <2>1
    <3>2. j > 1 /\ s[j - 1] \in {"l", "c"}
      BY <3>1 DEF Unsplit
    <3>3. j - 1 \in 1..k
      BY <1>1, <3>1, <3>2
    <3>4. QED
      BY <1>2, <3>2, <3>3
  <2>2. QED
    BY <2>1 DEF Unsplit
<1>5. ASSUME Boundary(s, k) PROVE Unsplit(v)
  <2>1. ASSUME NEW j \in 1..Len(v), v[j] = "c" PROVE j > 1 /\ v[j - 1] \in {"l", "c"}
    <3>1. j \in 1..Len(s) - k /\ k + j \in 1..Len(s) /\ s[k + j] = "c" /\ j \in Int
      BY <1>1, <1>3, <2>1
    <3>2. k + j > 1 /\ s[k + j - 1] \in {"l", "c"}
      BY <3>1 DEF Unsplit
    <3>3. j > 1
      <4>1. SUFFICES ASSUME j = 1 PROVE FALSE
        BY <3>1
      <4>2. k # Len(s) /\ s[k + 1] = "c"
        BY <1>1, <3>1, <4>1
      <4>3. QED
        BY <1>5, <4>2 DEF Boundary
    <3>4. j - 1 \in 1..Len(s) - k /\ k + (j - 1) = k + j - 1
      BY <1>1, <3>1, <3>3
    <3>5. v[j - 1] = s[k + j - 1]
      BY <1>3, <3>4
    <3>6. QED
      BY <3>2, <3>3, <3>5
  <2>2. QED
    BY <2>1 DEF Unsplit
<1>6. QED
  BY <1>2, <1>3, <1>4, <1>5 DEF w, v

(* utf8_floor finds a place between two characters.                        *)
LEMMA FloorBoundary ==
    ASSUME NEW s \in Seq(ByteKinds), Unsplit(s), NEW i \in Nat
    PROVE  utf8_floor(s, i) \in 0..Len(s) /\ Boundary(s, utf8_floor(s, i))
<1> DEFINE T == {k \in 0..i : k = 0 \/ Boundary(s, k)}
<1>1. Len(s) \in Nat
  BY LenProperties
<1>2. CASE i >= Len(s)
  BY <1>1, <1>2 DEF utf8_floor, Boundary
<1>3. CASE ~(i >= Len(s))
  <2>1. T \subseteq 0..i /\ 0 \in T
    OBVIOUS
  <2>2. Max(T) \in T
    <3> HIDE DEF T
    <3> QED BY <2>1, GreatestIn
  <2>3. utf8_floor(s, i) = Max(T)
    BY <1>3, Zenon DEF utf8_floor
  <2>4. Max(T) \in 0..Len(s) /\ (Max(T) = 0 \/ Boundary(s, Max(T)))
    BY <1>1, <1>3, <2>2
  <2>5. QED
    BY <2>3, <2>4, CutAtLine
<1>4. QED
  BY <1>2, <1>3

(* head_tail_reduce keeps characters in one piece.                         *)
LEMMA ReduceUnsplit ==
    ASSUME NEW s \in Seq(ByteKinds), Unsplit(s)
    PROVE  head_tail_reduce(s) \in Seq(ByteKinds) /\ Unsplit(head_tail_reduce(s))
<1>1. /\ Len(s) \in Nat /\ HeadBytes \in Nat /\ TailBytes \in Nat
  BY LenProperties, BudgetAssumption
<1>2. CASE Len(s) <= HeadBytes + TailBytes
  BY <1>2 DEF head_tail_reduce
<1>3. CASE ~(Len(s) <= HeadBytes + TailBytes)
  <2> DEFINE head == HeadEnd(s)
             tail == Max({head, TailStart(s)})
  <2>1. head \in 0..Len(s)
    <3> DEFINE floor == utf8_floor(s, HeadBytes)
               lines == {j \in 1..Len(s) : j <= floor + 1 /\ s[j] = "n"}
    <3>1. floor \in 0..Len(s)
      BY <1>1, FloorBoundary
    <3>2. head = floor \/ (lines # {} /\ head = Max(lines))
      BY Zenon DEF HeadEnd
    <3>3. lines \subseteq 0..Len(s)
      BY <1>1
    <3> HIDE DEF head, floor, lines
    <3>4. lines # {} => Max(lines) \in 0..Len(s)
      BY <1>1, <3>3, GreatestIn
    <3>5. QED
      BY <3>1, <3>2, <3>4
  <2>2. head = Len(s) \/ Boundary(s, head)
    <3> DEFINE floor == utf8_floor(s, HeadBytes)
               lines == {j \in 1..Len(s) : j <= floor + 1 /\ s[j] = "n"}
    <3>1. Boundary(s, floor)
      BY <1>1, FloorBoundary
    <3>2. head = floor \/ (lines # {} /\ head = Max(lines))
      BY Zenon DEF HeadEnd
    <3>3. lines \subseteq 0..Len(s) /\ \A j \in lines : s[j] = "n"
      BY <1>1
    <3> HIDE DEF floor, lines
    <3>4. lines # {} => s[Max(lines)] = "n"
      BY <1>1, <3>3, GreatestIn
    <3>5. QED
      <4> HIDE DEF head
      <4> QED BY <2>1, <3>1, <3>2, <3>4, CutAtLine
  <2>3. TailStart(s) \in 0..Len(s) /\ Boundary(s, TailStart(s))
    <3> DEFINE floor == utf8_floor(s, Len(s) - TailBytes)
               lines == {j \in floor + 1..Len(s) : s[j] = "n"}
               next == IF lines = {} THEN Len(s) ELSE Min(lines)
    <3>1. Len(s) - TailBytes \in Nat
      BY <1>1, <1>3
    <3>2. floor \in 0..Len(s) /\ Boundary(s, floor)
      BY <3>1, FloorBoundary
    <3>3. TailStart(s) = next \/ TailStart(s) = floor
      BY Zenon DEF TailStart
    <3> HIDE DEF floor
    <3>4. lines \subseteq Nat /\ \A j \in lines : j \in 0..Len(s) /\ s[j] = "n"
      BY <1>1, <3>2
    <3>5. lines # {} => Min(lines) \in lines
      <4> HIDE DEF lines
      <4> QED BY <3>4, LeastIn
    <3>6. next \in 0..Len(s) /\ (next = Len(s) \/ s[next] = "n")
      BY <1>1, <3>4, <3>5
    <3> HIDE DEF next
    <3>7. Boundary(s, next)
      BY <3>6, CutAtLine
    <3>8. QED
      BY <3>2, <3>3, <3>6, <3>7
  <2> HIDE DEF head
  <2>4. tail \in {head, TailStart(s)}
    <3>1. {head, TailStart(s)} \subseteq 0..Len(s) /\ {head, TailStart(s)} # {}
      BY <2>1, <2>3
    <3>2. QED
      BY <1>1, <3>1, GreatestIn
  <2>5. tail \in 0..Len(s) /\ Boundary(s, tail)
    <3> HIDE DEF tail
    <3> QED BY <2>1, <2>2, <2>3, <2>4 DEF Boundary
  <2>6. head_tail_reduce(s) = SubSeq(s, 1, head) \o Marker \o SubSeq(s, tail + 1, Len(s))
    BY <1>3, Zenon DEF head_tail_reduce, head
  <2> HIDE DEF tail
  <2>7. /\ SubSeq(s, 1, head) \in Seq(ByteKinds) /\ Unsplit(SubSeq(s, 1, head))
        /\ SubSeq(s, tail + 1, Len(s)) \in Seq(ByteKinds)
        /\ Unsplit(SubSeq(s, tail + 1, Len(s)))
    BY <2>1, <2>5, UnsplitParts
  <2>8. Marker \in Seq(ByteKinds) /\ Unsplit(Marker)
    BY DEF Marker, ByteKinds, Unsplit
  <2>9. /\ SubSeq(s, 1, head) \o Marker \in Seq(ByteKinds)
        /\ Unsplit(SubSeq(s, 1, head) \o Marker)
    BY <2>7, <2>8, UnsplitJoin
  <2>10. QED
    BY <2>6, <2>7, <2>9, UnsplitJoin
<1>4. QED
  BY <1>2, <1>3

(* A final newline splits nothing.                                         *)
LEMMA EndLineUnsplit ==
    ASSUME NEW s \in Seq(ByteKinds), Unsplit(s)
    PROVE  EndLine(s) \in Seq(ByteKinds) /\ Unsplit(EndLine(s))
<1>1. <<"n">> \in Seq(ByteKinds) /\ Unsplit(<<"n">>)
  BY DEF ByteKinds, Unsplit
<1>2. Append(s, "n") = s \o <<"n">>
  OBVIOUS
<1>3. QED
  BY <1>1, <1>2, UnsplitJoin DEF EndLine

(* So the text block of a result is a whole stream (bash_result_text).     *)
LEMMA TextUnsplit ==
    ASSUME NEW r, r.out \in Seq(ByteKinds), Unsplit(r.out), r.err \in Seq(ByteKinds), Unsplit(r.err)
    PROVE  bash_result_text(r) \in Seq(ByteKinds) /\ Unsplit(bash_result_text(r))
<1> DEFINE Good(s) == s \in Seq(ByteKinds) /\ Unsplit(s)
           label == IF r.err = <<>> THEN <<>> ELSE Label
           outs == IF r.out = <<>> THEN <<>> ELSE EndLine(label \o r.out)
           errs == IF r.err = <<>> THEN <<>> ELSE EndLine(Label \o r.err)
           code == IF r.exit = 0 THEN <<>> ELSE Label
           body == outs \o errs \o code
<1>1. Good(Label) /\ Good(<<>>)
  BY DEF Label, ByteKinds, Unsplit
<1>2. \A s, u : Good(s) /\ Good(u) => Good(s \o u)
  BY UnsplitJoin
<1>3. \A s : Good(s) => Good(EndLine(s)) /\ Good(head_tail_reduce(s))
  BY EndLineUnsplit, ReduceUnsplit
<1>4. Good(r.out) /\ Good(r.err)
  OBVIOUS
<1> HIDE DEF Good
<1>5. Good(label) /\ Good(code)
  BY <1>1
<1>6. Good(outs) /\ Good(errs)
  <2> HIDE DEF label
  <2> QED BY <1>1, <1>2, <1>3, <1>4, <1>5
<1>7. Good(body)
  <2> HIDE DEF outs, errs, code
  <2> QED BY <1>2, <1>5, <1>6
<1>8. bash_result_text(r) = head_tail_reduce(IF body = <<>> THEN Label ELSE body)
  BY Zenon DEF bash_result_text
<1>9. Good(bash_result_text(r))
  <2> HIDE DEF body
  <2> QED BY <1>1, <1>3, <1>7, <1>8
<1>10. QED
  BY <1>9 DEF Good

-----------------------------------------------------------------------------
(* enforce_result_budget. *)

(* What a trimmed value costs: its share and a marker, or the whole of a   *)
(* value that fits.                                                        *)
LEMMA TrimmedCost ==
    ASSUME NEW s \in Seq(ByteKinds), NEW b \in Nat, NEW t, Trimmed(s, b, t), b > 0 \/ s = <<>>
    PROVE  TrimmedLen(s, t) \in Nat /\ TrimmedLen(s, t) <= b + MarkerLen
<1>1. Len(s) \in Nat /\ MarkerLen \in Nat
  BY LenProperties, BudgetAssumption
<1>2. CASE t.cut
  <2>1. /\ escaped_len(HeadPart(s, t)) \in Nat /\ escaped_len(TailPart(s, t)) \in Nat
        /\ escaped_len(HeadPart(s, t)) + escaped_len(TailPart(s, t)) <= b
    BY <1>2 DEF Trimmed
  <2>2. TrimmedLen(s, t) = escaped_len(HeadPart(s, t)) + escaped_len(TailPart(s, t)) + MarkerLen
    BY <1>2 DEF TrimmedLen
  <2>3. QED
    BY <1>1, <2>1, <2>2
<1>3. CASE ~t.cut
  <2>1. t.head = Len(s) /\ t.tail = 0 /\ (b = 0 \/ escaped_len(s) <= b)
    BY <1>3 DEF Trimmed
  <2>2. HeadPart(s, t) = s
    BY <2>1, SubSeqFull DEF HeadPart
  <2>3. TailPart(s, t) = <<>>
    <3>1. Len(s) - 0 + 1 \in Int /\ Len(s) < Len(s) - 0 + 1 /\ Len(s) \in Int
      BY <1>1
    <3>2. SubSeq(s, Len(s) - 0 + 1, Len(s)) = <<>>
      BY <3>1, SubSeqEmpty
    <3>3. QED
      BY <2>1, <3>2 DEF TailPart
  <2>4. escaped_len(s) \in Nat /\ escaped_len(<<>>) = 0
    BY EncWhole
  <2>5. escaped_len(s) <= b
    BY <2>1, <2>4
  <2>6. TrimmedLen(s, t) = escaped_len(s) + 0 + 0
    BY <1>3, <2>2, <2>3, <2>4, Zenon DEF TrimmedLen
  <2>7. QED
    BY <1>1, <2>4, <2>5, <2>6
<1>4. QED
  BY <1>2, <1>3

(* What a trimmed value says was dropped is what is missing.               *)
LEMMA TrimmedDropped ==
    ASSUME NEW s \in Seq(ByteKinds), NEW b, NEW t, Trimmed(s, b, t)
    PROVE  /\ Dropped(s, t) = Len(s) - t.head - t.tail
           /\ Len(s) \in Nat /\ t.head \in Nat /\ t.tail \in Nat
<1>1. Len(s) \in Nat
  BY LenProperties
<1>2. t.head \in Nat /\ t.tail \in Nat /\ (~t.cut => t.head = Len(s) /\ t.tail = 0)
  BY DEF Trimmed
<1>3. ~t.cut => Len(s) - t.head - t.tail = 0
  BY <1>1, <1>2
<1>4. QED
  BY <1>1, <1>2, <1>3 DEF Dropped

(* The tails of three trimmed values start with a character each.          *)
LEMMA CharactersAtTail ==
    ASSUME NEW v, NEW t, Trimmed(v[1], 0, t[1]), Trimmed(v[2], 0, t[2]), Trimmed(v[3], 0, t[3])
    PROVE  \A i \in 1..3 : Boundary(v[i], Len(v[i]) - t[i].tail)
<1>1. \A s, u : Trimmed(s, 0, u) => Boundary(s, Len(s) - u.tail)
  BY Zenon DEF Trimmed
<1>2. \A i \in 1..3 : Trimmed(v[i], 0, t[i])
  OBVIOUS
<1>3. QED
  BY <1>1, <1>2, Zenon

(* Three values that fit their shares fit the budget uncut.                *)
LEMMA RoomForValues ==
    ASSUME NEW b \in Nat, NEW base \in Nat, NEW slack \in Nat,
           NEW x1 \in Nat, NEW x2 \in Nat, NEW x3 \in Nat,
           NEW c1 \in Nat, NEW c2 \in Nat, NEW c3 \in Nat,
           x1 + x2 + x3 <= b - base - slack, c1 <= x1, c2 <= x2, c3 <= x3
    PROVE  base + (c1 + c2 + c3) <= b
OBVIOUS

(* The cuts made on the way to a reply.                                    *)
LEMMA CutsOK ==
    ASSUME NEW b \in Nat, NEW v1 \in Seq(ByteKinds), NEW v2 \in Seq(ByteKinds), NEW v3 \in Seq(ByteKinds),
           Unsplit(v1), Unsplit(v2), Unsplit(v3)
    PROVE  LET v == <<v1, v2, v3>>
               sh == SharesOf(v, b)
               t == Trims(v, sh, b)
           IN  /\ Fits(v, b) \/ Base >= b =>
                      /\ t = <<Uncut(v1), Uncut(v2), Uncut(v3)>>
                      /\ Trimmed(v1, 0, t[1]) /\ Trimmed(v2, 0, t[2]) /\ Trimmed(v3, 0, t[3])
               /\ ~(Fits(v, b) \/ Base >= b) =>
                      /\ sh.text \in Nat /\ sh.first \in Nat /\ sh.second \in Nat
                      /\ sh.text + sh.first + sh.second <= Available(b, Base)
                      /\ Trimmed(v1, sh.text, t[1])
                      /\ Trimmed(v2, sh.first, t[2])
                      /\ Trimmed(v3, sh.second, t[3])
<1> DEFINE v == <<v1, v2, v3>>
           sh == SharesOf(v, b)
           t == Trims(v, sh, b)
<1>1. v[1] = v1 /\ v[2] = v2 /\ v[3] = v3
  OBVIOUS
<1> HIDE DEF v
<1>2. ASSUME Fits(v, b) \/ Base >= b
      PROVE  /\ t = <<Uncut(v1), Uncut(v2), Uncut(v3)>>
             /\ Trimmed(v1, 0, t[1]) /\ Trimmed(v2, 0, t[2]) /\ Trimmed(v3, 0, t[3])
  <2>1. t = <<Uncut(v1), Uncut(v2), Uncut(v3)>>
    BY <1>1, <1>2, Zenon DEF Trims
  <2>2. Trimmed(v1, 0, Uncut(v1)) /\ Trimmed(v2, 0, Uncut(v2)) /\ Trimmed(v3, 0, Uncut(v3))
    BY UncutTrimmed
  <2>3. QED
    BY <2>1, <2>2
<1>3. ASSUME ~(Fits(v, b) \/ Base >= b)
      PROVE  /\ sh.text \in Nat /\ sh.first \in Nat /\ sh.second \in Nat
             /\ sh.text + sh.first + sh.second <= Available(b, Base)
             /\ Trimmed(v1, sh.text, t[1])
             /\ Trimmed(v2, sh.first, t[2])
             /\ Trimmed(v3, sh.second, t[3])
  <2>1. Available(b, Base) \in Nat
    <3>1. Base \in Nat /\ b - Base \in Nat
      BY <1>3, BudgetAssumption
    <3>2. SlackOf(b) \in Nat
      BY SlackAssumption DEF SlackOf, Least
    <3>3. QED
      BY <3>1, <3>2 DEF Available
  <2>2. sh = Shares(Available(b, Base), escaped_len(v1), escaped_len(v2), escaped_len(v3))
    BY <1>1, Zenon DEF SharesOf
  <2>3. escaped_len(v1) \in Nat /\ escaped_len(v2) \in Nat /\ escaped_len(v3) \in Nat
    BY EncWhole
  <2>4. /\ sh.text \in Nat /\ sh.first \in Nat /\ sh.second \in Nat
        /\ sh.text + sh.first + sh.second <= Available(b, Base)
    <3> HIDE DEF sh
    <3> QED BY <2>1, <2>2, <2>3, SharesFit
  <2> HIDE DEF sh
  <2>5. t = <<trim_to_encoded_budget(v1, sh.text), trim_to_encoded_budget(v2, sh.first),
              trim_to_encoded_budget(v3, sh.second)>>
    BY <1>1, <1>3, Zenon DEF Trims
  <2>6. /\ Trimmed(v1, sh.text, trim_to_encoded_budget(v1, sh.text))
        /\ Trimmed(v2, sh.first, trim_to_encoded_budget(v2, sh.first))
        /\ Trimmed(v3, sh.second, trim_to_encoded_budget(v3, sh.second))
    BY <2>4, TrimOK
  <2>7. QED
    BY <2>4, <2>5, <2>6
<1>4. QED
  BY <1>2, <1>3 DEF v

(* A reply made of whole streams keeps within its budget, is cut exactly,  *)
(* and can be serialized but for a head without a line to end at.          *)
LEMMA ReplyOK ==
    ASSUME NEW b \in Nat, NEW v1 \in Seq(ByteKinds), NEW v2 \in Seq(ByteKinds), NEW v3 \in Seq(ByteKinds),
           Unsplit(v1), Unsplit(v2), Unsplit(v3)
    PROVE  LET v == <<v1, v2, v3>>
               sh == SharesOf(v, b)
               t == Trims(v, sh, b)
               e == Enforce(v, t, b)
           IN  /\ WithinBudget(v, sh, e, b)
               /\ CutExactly(v, sh, t, e)
               /\ SplitOnlyAtHead(v, t, e)
<1> DEFINE v == <<v1, v2, v3>>
           sh == SharesOf(v, b)
           t == Trims(v, sh, b)
           e == Enforce(v, t, b)
           broken == \E i \in 1..3 : Broken(v[i], t[i])
<1>1. v[1] = v1 /\ v[2] = v2 /\ v[3] = v3
  OBVIOUS
<1>2. /\ Fits(v, b) \/ Base >= b =>
            /\ t = <<Uncut(v1), Uncut(v2), Uncut(v3)>>
            /\ Trimmed(v1, 0, t[1]) /\ Trimmed(v2, 0, t[2]) /\ Trimmed(v3, 0, t[3])
      /\ ~(Fits(v, b) \/ Base >= b) =>
            /\ sh.text \in Nat /\ sh.first \in Nat /\ sh.second \in Nat
            /\ sh.text + sh.first + sh.second <= Available(b, Base)
            /\ Trimmed(v1, sh.text, t[1])
            /\ Trimmed(v2, sh.first, t[2])
            /\ Trimmed(v3, sh.second, t[3])
  BY CutsOK
<1>3. /\ Base \in Nat /\ MarkerLen \in Nat /\ FlagsLen \in Nat /\ FooterLen \in Nat
      /\ escaped_len(v1) \in Nat /\ escaped_len(v2) \in Nat /\ escaped_len(v3) \in Nat
      /\ SlackOf(b) \in Nat
  BY BudgetAssumption, SlackAssumption, EncWhole DEF SlackOf, Least
<1>4. /\ Payload(v) = escaped_len(v1) + escaped_len(v2) + escaped_len(v3)
      /\ Payload(v) \in Nat
  <2>1. Payload(v) = escaped_len(v1) + escaped_len(v2) + escaped_len(v3)
    BY <1>1, Zenon DEF Payload
  <2>2. QED
    BY <1>3, <2>1
<1> HIDE DEF v, sh, t
<1>5. CASE Fits(v, b)
  <2>1. e = [how |-> "whole", size |-> Base + Payload(v)]
    BY <1>5, Zenon DEF Enforce
  <2>2. e.how = "whole" /\ e.size = Base + Payload(v)
    BY <2>1
  <2> HIDE DEF e
  <2>3. b > 0 => e.size <= b + 6
    <3>1. b > 0 => Base + Payload(v) - 6 <= b
      BY <1>5 DEF Fits
    <3>2. QED
      BY <1>3, <1>4, <2>2, <3>1, SMTT(30)
  <2>4. WithinBudget(v, sh, e, b)
    BY <2>2, <2>3 DEF WithinBudget
  <2>5. CutExactly(v, sh, t, e)
    BY <2>2 DEF CutExactly
  <2>6. e.how # "throws"
    BY <2>2
  <2>7. Trimmed(v1, 0, t[1]) /\ Trimmed(v2, 0, t[2]) /\ Trimmed(v3, 0, t[3])
    BY <1>2, <1>5
  <2>8. \A i \in 1..3 : Boundary(v[i], Len(v[i]) - t[i].tail)
    BY <1>1, <2>7, CharactersAtTail
  <2>9. QED
    BY <1>1, <2>4, <2>5, <2>6, <2>8 DEF SplitOnlyAtHead, v, sh, t, e
<1>6. CASE ~Fits(v, b) /\ Base >= b
  <2>1. e = [how |-> "minimal", size |-> Base]
    BY <1>3, <1>6 DEF Enforce
  <2>2. e.how = "minimal"
    BY <2>1
  <2> HIDE DEF e
  <2>3. ~Roomy(v, sh, b)
    BY <1>3, <1>6 DEF Roomy
  <2>4. WithinBudget(v, sh, e, b)
    BY <1>6, <2>3 DEF WithinBudget
  <2>5. CutExactly(v, sh, t, e)
    BY <2>2 DEF CutExactly
  <2>6. e.how # "throws"
    BY <2>2
  <2>7. Trimmed(v1, 0, t[1]) /\ Trimmed(v2, 0, t[2]) /\ Trimmed(v3, 0, t[3])
    BY <1>2, <1>6
  <2>8. \A i \in 1..3 : Boundary(v[i], Len(v[i]) - t[i].tail)
    BY <1>1, <2>7, CharactersAtTail
  <2>9. QED
    BY <1>1, <2>4, <2>5, <2>6, <2>8 DEF SplitOnlyAtHead, v, sh, t, e
<1>7. CASE ~(Fits(v, b) \/ Base >= b)
  <2>1. /\ sh.text \in Nat /\ sh.first \in Nat /\ sh.second \in Nat
        /\ sh.text + sh.first + sh.second <= Available(b, Base)
        /\ Trimmed(v1, sh.text, t[1])
        /\ Trimmed(v2, sh.first, t[2])
        /\ Trimmed(v3, sh.second, t[3])
    BY <1>2, <1>7
  <2>2. /\ e.how = "whole" => e.size = Base + Payload(v) /\ \A i \in 1..3 : ~t[i].cut
        /\ e.how = "throws" => broken /\ e.size = 0
        /\ e.how = "emptied" => CutSize(v, t) > b
        /\ e.how = "cut" => e.size = CutSize(v, t)
        /\ e.how \in {"whole", "throws", "emptied", "cut"}
    <3>1. CASE \A i \in 1..3 : ~t[i].cut
      <4>1. e = [how |-> "whole", size |-> Base + Payload(v)]
        BY <1>3, <1>7, <3>1 DEF Enforce
      <4>2. e.how = "whole" /\ e.size = Base + Payload(v)
        BY <4>1
      <4> HIDE DEF e
      <4>3. QED
        BY <3>1, <4>2
    <3>2. CASE ~(\A i \in 1..3 : ~t[i].cut)
      <4>1. e = IF broken THEN [how |-> "throws", size |-> 0]
                ELSE IF CutSize(v, t) > b THEN [how |-> "emptied", size |-> EmptiedSize(v, t)]
                     ELSE [how |-> "cut", size |-> CutSize(v, t)]
        BY <1>3, <1>7, <3>2, Zenon DEF Enforce
      <4> HIDE DEF e, broken
      <4>2. CASE broken
        BY <4>1, <4>2
      <4>3. CASE ~broken /\ CutSize(v, t) > b
        BY <4>1, <4>3
      <4>4. CASE ~broken /\ ~(CutSize(v, t) > b)
        BY <4>1, <4>4
      <4>5. QED
        BY <4>2, <4>3, <4>4
    <3>3. QED
      BY <3>1, <3>2
  <2> HIDE DEF e
  <2>3. WithinBudget(v, sh, e, b)
    <3>1. SUFFICES ASSUME Roomy(v, sh, b) PROVE e.size <= b + 0 /\ e.how # "emptied" /\ b + 0 <= b + 6
      <4>1. SUFFICES ASSUME b > 0, Roomy(v, sh, b)
                     PROVE  e.size <= b + (IF e.how = "whole" THEN 6 ELSE 0) /\ e.how # "emptied"
        BY <1>7 DEF WithinBudget
      <4>2. e.size <= b /\ e.how # "emptied"
        BY <4>1
      <4>3. CASE e.how = "whole"
        BY <1>3, <1>4, <2>2, <4>2, <4>3, SMTT(30)
      <4>4. CASE e.how # "whole"
        BY <4>2, <4>4
      <4>5. QED
        BY <4>3, <4>4
    <3>2. /\ b - Base > SlackOf(b) /\ SlackOf(b) >= 3 * MarkerLen + FlagsLen + FooterLen
          /\ sh.text > 0 /\ (sh.first > 0 \/ v2 = <<>>) /\ (sh.second > 0 \/ v3 = <<>>)
      BY <1>1, <3>1 DEF Roomy
    <3>3. Available(b, Base) = b - Base - SlackOf(b)
      BY <3>2 DEF Available
    <3> DEFINE c1 == TrimmedLen(v1, t[1])
               c2 == TrimmedLen(v2, t[2])
               c3 == TrimmedLen(v3, t[3])
    <3>4. /\ c1 \in Nat /\ c1 <= sh.text + MarkerLen
          /\ c2 \in Nat /\ c2 <= sh.first + MarkerLen
          /\ c3 \in Nat /\ c3 <= sh.second + MarkerLen
      BY <2>1, <3>2, TrimmedCost
    <3>5. CutSize(v, t) = Base + FlagsLen + FooterLen + c1 + c2 + c3
      BY <1>1, Zenon DEF CutSize, EmptiedSize
    <3> HIDE DEF c1, c2, c3
    <3>6. CutSize(v, t) <= b /\ CutSize(v, t) \in Nat
      <4>1. sh.text + sh.first + sh.second <= b - Base - SlackOf(b)
        BY <2>1, <3>3
      <4>2. /\ Base + FlagsLen + FooterLen + c1 + c2 + c3 <= b
            /\ Base + FlagsLen + FooterLen + c1 + c2 + c3 \in Nat
        <5> DEFINE x == sh.text + sh.first + sh.second
                   c == c1 + c2 + c3
        <5>1. x \in Nat /\ c \in Nat /\ c <= x + 3 * MarkerLen
          <6>1. sh.text \in Nat /\ sh.first \in Nat /\ sh.second \in Nat /\ MarkerLen \in Nat
            BY <1>3, <2>1, Zenon
          <6> DEFINE x1 == sh.text  x2 == sh.first  x3 == sh.second
          <6>2. /\ x1 \in Nat /\ x2 \in Nat /\ x3 \in Nat /\ x = x1 + x2 + x3
                /\ c1 \in Nat /\ c1 <= x1 + MarkerLen
                /\ c2 \in Nat /\ c2 <= x2 + MarkerLen
                /\ c3 \in Nat /\ c3 <= x3 + MarkerLen
            BY <3>4, <6>1, Zenon
          <6> HIDE DEF x1, x2, x3, x
          <6>3. QED
            BY <6>1, <6>2
        <5>2. x <= b - Base - SlackOf(b)
          BY <4>1
        <5>3. Base + FlagsLen + FooterLen + c1 + c2 + c3 = Base + FlagsLen + FooterLen + c
          BY <1>3, <3>4
        <5> HIDE DEF x, c
        <5>4. QED
          BY <1>3, <3>2, <5>1, <5>2, <5>3, SMTT(30)
      <4>3. QED
        BY <3>5, <4>2
    <3>7. e.how = "whole" => e.size <= b
      <4>1. SUFFICES ASSUME e.how = "whole" PROVE Base + Payload(v) <= b
        BY <2>2
      <4>2. ~t[1].cut /\ ~t[2].cut /\ ~t[3].cut
        BY <2>2, <4>1
      <4>3. sh.text = 0 \/ escaped_len(v1) <= sh.text
        BY <2>1, <4>2 DEF Trimmed
      <4>4. sh.first = 0 \/ escaped_len(v2) <= sh.first
        BY <2>1, <4>2 DEF Trimmed
      <4>5. sh.second = 0 \/ escaped_len(v3) <= sh.second
        BY <2>1, <4>2 DEF Trimmed
      <4>6. escaped_len(<<>>) = 0
        BY EncWhole
      <4>7. escaped_len(v1) <= sh.text /\ escaped_len(v2) <= sh.first /\ escaped_len(v3) <= sh.second
        <5>1. escaped_len(v1) <= sh.text
          BY <2>1, <3>2, <4>3
        <5>2. escaped_len(v2) <= sh.first
          <6>1. CASE v2 = <<>>
            BY <2>1, <4>6, <6>1
          <6>2. CASE sh.first > 0
            BY <2>1, <4>4, <6>2
          <6>3. QED
            BY <3>2, <6>1, <6>2
        <5>3. escaped_len(v3) <= sh.second
          <6>1. CASE v3 = <<>>
            BY <2>1, <4>6, <6>1
          <6>2. CASE sh.second > 0
            BY <2>1, <4>5, <6>2
          <6>3. QED
            BY <3>2, <6>1, <6>2
        <5>4. QED
          BY <5>1, <5>2, <5>3
      <4>8. QED
        <5>1. sh.text + sh.first + sh.second <= b - Base - SlackOf(b)
          BY <2>1, <3>3
        <5>2. Base + (escaped_len(v1) + escaped_len(v2) + escaped_len(v3)) <= b
          BY <1>3, <2>1, <4>7, <5>1, RoomForValues
        <5>3. QED
          BY <1>4, <5>2
    <3>8. e.how # "emptied"
      BY <2>2, <3>6
    <3>9. QED
      BY <2>2, <3>6, <3>7, <3>8
  <2>4. CutExactly(v, sh, t, e)
    <3>1. ASSUME NEW i \in 1..3, t[i].cut
          PROVE  /\ t[i].head + t[i].tail <= Len(v[i])
                 /\ escaped_len(HeadPart(v[i], t[i])) + escaped_len(TailPart(v[i], t[i]))
                        <= <<sh.text, sh.first, sh.second>>[i]
      <4>1. \A s, x, u : Trimmed(s, x, u) /\ u.cut =>
                /\ u.head + u.tail <= Len(s)
                /\ escaped_len(HeadPart(s, u)) + escaped_len(TailPart(s, u)) <= x
        BY ZenonT(60) DEF Trimmed
      <4>2. CASE i = 1
        BY <1>1, <2>1, <3>1, <4>1, <4>2
      <4>3. CASE i = 2
        BY <1>1, <2>1, <3>1, <4>1, <4>3
      <4>4. CASE i = 3
        BY <1>1, <2>1, <3>1, <4>1, <4>4
      <4>5. QED
        BY <4>2, <4>3, <4>4
    <3>2. Lost(v, t) = Len(v1 \o v2 \o v3)
                       - (t[1].head + t[1].tail + t[2].head + t[2].tail + t[3].head + t[3].tail)
      <4>1. /\ Dropped(v1, t[1]) = Len(v1) - t[1].head - t[1].tail
            /\ Len(v1) \in Nat /\ t[1].head \in Nat /\ t[1].tail \in Nat
        BY <2>1, TrimmedDropped
      <4>2. /\ Dropped(v2, t[2]) = Len(v2) - t[2].head - t[2].tail
            /\ Len(v2) \in Nat /\ t[2].head \in Nat /\ t[2].tail \in Nat
        BY <2>1, TrimmedDropped
      <4>3. /\ Dropped(v3, t[3]) = Len(v3) - t[3].head - t[3].tail
            /\ Len(v3) \in Nat /\ t[3].head \in Nat /\ t[3].tail \in Nat
        BY <2>1, TrimmedDropped
      <4>4. Lost(v, t) = Dropped(v1, t[1]) + Dropped(v2, t[2]) + Dropped(v3, t[3])
        BY <1>1, Zenon DEF Lost
      <4>5. Len(v1 \o v2 \o v3) = Len(v1) + Len(v2) + Len(v3)
        <5>1. v1 \o v2 \in Seq(ByteKinds) /\ Len(v1 \o v2) = Len(v1) + Len(v2)
          BY ConcatProperties
        <5>2. QED
          BY <5>1, ConcatProperties
      <4>6. QED
        <5> DEFINE n1 == Len(v1)  h1 == t[1].head  t1 == t[1].tail
                   n2 == Len(v2)  h2 == t[2].head  t2 == t[2].tail
                   n3 == Len(v3)  h3 == t[3].head  t3 == t[3].tail
        <5>1. Lost(v, t) = (n1 - h1 - t1) + (n2 - h2 - t2) + (n3 - h3 - t3)
          BY <4>1, <4>2, <4>3, <4>4, Zenon
        <5>2. /\ n1 \in Nat /\ h1 \in Nat /\ t1 \in Nat
              /\ n2 \in Nat /\ h2 \in Nat /\ t2 \in Nat
              /\ n3 \in Nat /\ h3 \in Nat /\ t3 \in Nat
          BY <4>1, <4>2, <4>3, Zenon
        <5>3. Len(v1 \o v2 \o v3) = n1 + n2 + n3
          BY <4>5
        <5> HIDE DEF n1, n2, n3, h1, h2, h3, t1, t2, t3
        <5>4. Lost(v, t) = Len(v1 \o v2 \o v3) - (h1 + t1 + h2 + t2 + h3 + t3)
          BY <5>1, <5>2, <5>3
        <5>5. QED
          BY <5>4 DEF h1, h2, h3, t1, t2, t3
    <3>3. QED
      BY <1>1, <3>1, <3>2 DEF CutExactly
  <2>5. SplitOnlyAtHead(v, t, e)
    <3>1. \A i \in 1..3 : \E x : Trimmed(v[i], x, t[i])
      <4>1. (\E x : Trimmed(v1, x, t[1])) /\ (\E x : Trimmed(v2, x, t[2])) /\ (\E x : Trimmed(v3, x, t[3]))
        BY <2>1, Zenon
      <4>2. QED
        BY <1>1, <4>1
    <3>2. \A i \in 1..3 : Boundary(v[i], Len(v[i]) - t[i].tail)
      BY <3>1, Zenon DEF Trimmed
    <3>3. ASSUME e.how = "throws"
          PROVE  \E i \in 1..3 :
                    /\ ~Boundary(v[i], t[i].head)
                    /\ LooksLikeText(v[i]) =>
                           \A k \in 1..t[i].head : t[i].head - k < Window => v[i][k] # "n"
      <4>1. PICK i \in 1..3 : Broken(v[i], t[i])
        BY <2>2, <3>3
      <4>2. t[i].cut /\ ~Boundary(v[i], t[i].head)
        BY <3>2, <4>1 DEF Broken
      <4>3. LooksLikeText(v[i]) =>
                \A k \in 1..t[i].head : t[i].head - k < Window => v[i][k] # "n"
        BY <3>1, <4>2 DEF Trimmed
      <4>4. QED
        BY <4>2, <4>3
    <3>4. QED
      BY <1>1, <3>2, <3>3 DEF SplitOnlyAtHead
  <2>6. QED
    BY <2>3, <2>4, <2>5 DEF v, sh, t, e
<1>8. QED
  BY <1>5, <1>6, <1>7

-----------------------------------------------------------------------------
(* The budget of the reply being written. *)

(* What serializing will make of the result is settled by the scenario.    *)
Serialized ==
    /\ sc \in Scenarios
    /\ vals = Values(sc.result)
    /\ shares = SharesOf(vals, sc.budget)
    /\ trims = Trims(vals, shares, sc.budget)
    /\ fate = Enforce(vals, trims, sc.budget)

(* No step changes it.                                                     *)
LEMMA StepKeepsScenario == [Next]_vars => UNCHANGED <<sc, vals, shares, trims, fate>>
BY DEF Next, vars, serial, NextLine, LinesDone, Fill, FillEof, PollFails, Done, Complete,
       CompleteUnread, CompleteThrows

(* So every result is serialized as its scenario says.                     *)
LEMMA AlwaysSerialized == Spec => []Serialized
<1>1. Init => Serialized
  BY DEF Init, Serialized
<1>2. Serialized /\ [Next]_vars => Serialized'
  BY StepKeepsScenario DEF Serialized
<1>3. QED
  BY <1>1, <1>2, PTL DEF Spec

(* Whatever a command's streams hold and however small the budget is: the  *)
(* reply is within it when there is room for the bookkeeping, what it says *)
(* was dropped is what is missing, and serializing fails only for a head   *)
(* that ends inside a character with no line end near (BudgetKept).        *)
THEOREM BudgetAlwaysKept == Spec => []BudgetKept
<1>1. Serialized => BudgetKept
  <2>1. SUFFICES ASSUME Serialized PROVE BudgetKept
    OBVIOUS
  <2> DEFINE r == sc.result
             v1 == bash_result_text(r)
  <2>2. /\ sc.budget \in Nat
        /\ r.out \in Seq(ByteKinds) /\ Unsplit(r.out)
        /\ r.err \in Seq(ByteKinds) /\ Unsplit(r.err)
    BY <2>1, ScenarioAssumption DEF Serialized
  <2>3. v1 \in Seq(ByteKinds) /\ Unsplit(v1)
    BY <2>2, TextUnsplit
  <2>4. vals = <<v1, r.out, r.err>>
    BY <2>1 DEF Serialized, Values
  <2>5. /\ shares = SharesOf(vals, sc.budget)
        /\ trims = Trims(vals, shares, sc.budget)
        /\ fate = Enforce(vals, trims, sc.budget)
    BY <2>1 DEF Serialized
  <2> HIDE DEF r, v1
  <2>6. /\ WithinBudget(vals, shares, fate, sc.budget)
        /\ CutExactly(vals, shares, trims, fate)
        /\ SplitOnlyAtHead(vals, trims, fate)
    BY <2>2, <2>3, <2>4, <2>5, ReplyOK, Zenon
  <2>7. QED
    BY <2>6 DEF BudgetKept
<1>2. QED
  BY <1>1, AlwaysSerialized, PTL

-----------------------------------------------------------------------------
(* What each call is judged to be. *)

(* The classes of the values of a field are few enough to compare one by   *)
(* one: the parser accepts a call exactly when the schema of its tool does, *)
(* but for the named differences.                                          *)
LEMMA Agreement ==
    ASSUME NEW tool \in Tools, NEW args \in [DOMAIN Checks[tool] -> Classes]
    PROVE  AgreesWithSchema(tool, args)
<1>1. CASE tool = "bash"
  <2>1. /\ Checks[tool] = BashArgs
        /\ DOMAIN Checks[tool] = {"command", "timeout"}
    BY <1>1 DEF Checks, BashArgs
  <2>2. DOMAIN Schema[tool] = {"command", "timeout"}
    BY <1>1 DEF Schema
  <2>3. DOMAIN args = {"command", "timeout"}
    BY <2>1
  <2>4. args.command \in Classes /\ args.timeout \in Classes
    BY <2>1
  <2>5. ArgsPass(tool, args) <=>
            args.command \in BashArgs.command /\ args.timeout \in BashArgs.timeout
    BY <1>1, <2>1 DEF ArgsPass
  <2>6. SchemaPass(tool, args) <=>
            args.command \in Schema.bash.command /\ args.timeout \in Schema.bash.timeout
    BY <1>1, <2>2 DEF SchemaPass
  <2>7. (args.timeout \in {"zero", "neg", "huge", "frac"} => Stricter(tool, args))
    BY <1>1, <2>3 DEF Stricter
  <2>8. ArgsPass(tool, args) => SchemaPass(tool, args) \/ Laxer(tool, args)
    BY <1>1, <2>4, <2>5, <2>6 DEF Laxer, BashArgs, Schema, WaitSchema, ReadOpts, Req, Opt, GetInt,
        Strings, Integer, Number, Classes
  <2>9. SchemaPass(tool, args) => ArgsPass(tool, args) \/ Stricter(tool, args)
    BY <2>4, <2>5, <2>6, <2>7 DEF BashArgs, Schema, WaitSchema, ReadOpts, Req, Opt, GetInt,
        Strings, Integer, Number, Classes
  <2>10. QED
    BY <2>8, <2>9 DEF AgreesWithSchema
<1>2. CASE tool = "read"
  <2>1. /\ Checks[tool] = ReadArgs
        /\ DOMAIN Checks[tool] = {"path", "offset", "limit"}
    BY <1>2 DEF Checks, ReadArgs
  <2>2. DOMAIN Schema[tool] = {"path", "offset", "limit"}
    BY <1>2 DEF Schema
  <2>3. DOMAIN args = {"path", "offset", "limit"}
    BY <2>1
  <2>4. args.path \in Classes /\ args.offset \in Classes /\ args.limit \in Classes
    BY <2>1
  <2>5. ArgsPass(tool, args) <=>
            /\ args.path \in ReadArgs.path /\ args.offset \in ReadArgs.offset
            /\ args.limit \in ReadArgs.limit
    BY <1>2, <2>1 DEF ArgsPass
  <2>6. SchemaPass(tool, args) <=>
            /\ args.path \in Schema.read.path /\ args.offset \in Schema.read.offset
            /\ args.limit \in Schema.read.limit
    BY <1>2, <2>2 DEF SchemaPass
  <2>7. /\ (args.offset \in {"zero", "neg", "huge", "frac"} => Stricter(tool, args))
        /\ (args.limit \in {"zero", "neg", "huge", "frac"} => Stricter(tool, args))
    BY <1>2, <2>3 DEF Stricter
  <2>8. ArgsPass(tool, args) => SchemaPass(tool, args) \/ Laxer(tool, args)
    BY <1>2, <2>4, <2>5, <2>6 DEF Laxer, ReadArgs, Schema, WaitSchema, ReadOpts, Req, Opt, GetInt,
        Strings, Integer, Number, Classes
  <2>9. SchemaPass(tool, args) => ArgsPass(tool, args) \/ Stricter(tool, args)
    BY <2>4, <2>5, <2>6, <2>7 DEF ReadArgs, Schema, WaitSchema, ReadOpts, Req, Opt, GetInt,
        Strings, Integer, Number, Classes
  <2>10. QED
    BY <2>8, <2>9 DEF AgreesWithSchema
<1>3. CASE tool = "write"
  <2>1. /\ Checks[tool] = WriteArgs
        /\ DOMAIN Checks[tool] = {"path", "content", "encoding"}
    BY <1>3 DEF Checks, WriteArgs
  <2>2. DOMAIN Schema[tool] = {"path", "content", "encoding"}
    BY <1>3 DEF Schema
  <2>3. DOMAIN args = {"path", "content", "encoding"}
    BY <2>1
  <2>4. args.path \in Classes /\ args.content \in Classes /\ args.encoding \in Classes
    BY <2>1
  <2>5. ArgsPass(tool, args) <=>
            /\ args.path \in WriteArgs.path /\ args.content \in WriteArgs.content
            /\ args.encoding \in WriteArgs.encoding
    BY <1>3, <2>1 DEF ArgsPass
  <2>6. SchemaPass(tool, args) <=>
            /\ args.path \in Schema.write.path /\ args.content \in Schema.write.content
            /\ args.encoding \in Schema.write.encoding
    BY <1>3, <2>2 DEF SchemaPass
  <2>8. ArgsPass(tool, args) => SchemaPass(tool, args) \/ Laxer(tool, args)
    BY <1>3, <2>4, <2>5, <2>6 DEF Laxer, WriteArgs, Schema, WaitSchema, ReadOpts, Req, Opt, GetInt,
        Strings, Integer, Number, Classes
  <2>9. SchemaPass(tool, args) => ArgsPass(tool, args) \/ Stricter(tool, args)
    BY <2>4, <2>5, <2>6 DEF WriteArgs, Schema, WaitSchema, ReadOpts, Req, Opt, GetInt,
        Strings, Integer, Number, Classes
  <2>10. QED
    BY <2>8, <2>9 DEF AgreesWithSchema
<1>4. CASE tool = "edit"
  <2>1. /\ Checks[tool] = EditArgs
        /\ DOMAIN Checks[tool] = {"path", "edits"}
    BY <1>4 DEF Checks, EditArgs
  <2>2. DOMAIN Schema[tool] = {"path", "edits"}
    BY <1>4 DEF Schema
  <2>3. DOMAIN args = {"path", "edits"}
    BY <2>1
  <2>4. args.path \in Classes /\ args.edits \in Classes
    BY <2>1
  <2>5. ArgsPass(tool, args) <=>
            args.path \in EditArgs.path /\ args.edits \in EditArgs.edits
    BY <1>4, <2>1 DEF ArgsPass
  <2>6. SchemaPass(tool, args) <=>
            args.path \in Schema.edit.path /\ args.edits \in Schema.edit.edits
    BY <1>4, <2>2 DEF SchemaPass
  <2>8. ArgsPass(tool, args) => SchemaPass(tool, args) \/ Laxer(tool, args)
    BY <1>4, <2>4, <2>5, <2>6 DEF Laxer, EditArgs, Schema, WaitSchema, ReadOpts, Req, Opt, GetInt,
        Strings, Integer, Number, Classes
  <2>9. SchemaPass(tool, args) => ArgsPass(tool, args) \/ Stricter(tool, args)
    BY <2>4, <2>5, <2>6 DEF EditArgs, Schema, WaitSchema, ReadOpts, Req, Opt, GetInt,
        Strings, Integer, Number, Classes
  <2>10. QED
    BY <2>8, <2>9 DEF AgreesWithSchema
<1>5. CASE tool = "view_image"
  <2>1. /\ Checks[tool] = ImageArgs
        /\ DOMAIN Checks[tool] = {"path", "detail"}
    BY <1>5 DEF Checks, ImageArgs
  <2>2. DOMAIN Schema[tool] = {"path", "detail"}
    BY <1>5 DEF Schema
  <2>3. DOMAIN args = {"path", "detail"}
    BY <2>1
  <2>4. args.path \in Classes /\ args.detail \in Classes
    BY <2>1
  <2>5. ArgsPass(tool, args) <=>
            args.path \in ImageArgs.path /\ args.detail \in ImageArgs.detail
    BY <1>5, <2>1 DEF ArgsPass
  <2>6. SchemaPass(tool, args) <=>
            /\ args.path \in Schema.view_image.path
            /\ args.detail \in Schema.view_image.detail
    BY <1>5, <2>2 DEF SchemaPass
  <2>8. ArgsPass(tool, args) => SchemaPass(tool, args) \/ Laxer(tool, args)
    BY <1>5, <2>4, <2>5, <2>6 DEF Laxer, ImageArgs, Schema, WaitSchema, ReadOpts, Req, Opt, GetInt,
        Strings, Integer, Number, Classes
  <2>9. SchemaPass(tool, args) => ArgsPass(tool, args) \/ Stricter(tool, args)
    BY <2>4, <2>5, <2>6 DEF ImageArgs, Schema, WaitSchema, ReadOpts, Req, Opt, GetInt,
        Strings, Integer, Number, Classes
  <2>10. QED
    BY <2>8, <2>9 DEF AgreesWithSchema
<1>6. CASE tool = "run_in_terminal"
  <2>1. /\ Checks[tool] = RunArgs
        /\ DOMAIN Checks[tool] = {"command", "cols", "rows", "wait_ms", "wait_for", "cursor"}
    BY <1>6 DEF Checks, RunArgs
  <2>2. DOMAIN Schema[tool] = {"command", "cols", "rows", "wait_ms", "wait_for", "cursor"}
    BY <1>6 DEF Schema
  <2>3. DOMAIN args = {"command", "cols", "rows", "wait_ms", "wait_for", "cursor"}
    BY <2>1
  <2>4. /\ args.command \in Classes /\ args.cols \in Classes /\ args.rows \in Classes
        /\ args.wait_ms \in Classes /\ args.wait_for \in Classes /\ args.cursor \in Classes
    BY <2>1
  <2>5. ArgsPass(tool, args) <=>
            /\ args.command \in RunArgs.command /\ args.cols \in RunArgs.cols
            /\ args.rows \in RunArgs.rows /\ args.wait_ms \in RunArgs.wait_ms
            /\ args.wait_for \in RunArgs.wait_for /\ args.cursor \in RunArgs.cursor
    BY <1>6, <2>1 DEF ArgsPass
  <2>6. SchemaPass(tool, args) <=>
            /\ args.command \in Schema.run_in_terminal.command
            /\ args.cols \in Schema.run_in_terminal.cols
            /\ args.rows \in Schema.run_in_terminal.rows
            /\ args.wait_ms \in Schema.run_in_terminal.wait_ms
            /\ args.wait_for \in Schema.run_in_terminal.wait_for
            /\ args.cursor \in Schema.run_in_terminal.cursor
    BY <1>6, <2>2 DEF SchemaPass
  <2>7. /\ (args.cols \in {"zero", "neg", "huge", "frac"} => Stricter(tool, args))
        /\ (args.rows \in {"zero", "neg", "huge", "frac"} => Stricter(tool, args))
        /\ (args.wait_ms \in {"zero", "neg", "huge", "frac"} => Stricter(tool, args))
        /\ (args.cursor \notin {"absent", "fit", "zero", "huge"} => Stricter(tool, args))
    BY <1>6, <2>3 DEF Stricter
  <2>8. ArgsPass(tool, args) => SchemaPass(tool, args) \/ Laxer(tool, args)
    BY <1>6, <2>4, <2>5, <2>6 DEF Laxer, RunArgs, Schema, WaitSchema, ReadOpts, Req, Opt, GetInt,
        Strings, Integer, Number, Classes
  <2>9. SchemaPass(tool, args) => ArgsPass(tool, args) \/ Stricter(tool, args)
    BY <2>4, <2>5, <2>6, <2>7 DEF RunArgs, Schema, WaitSchema, ReadOpts, Req, Opt, GetInt,
        Strings, Integer, Number, Classes
  <2>10. QED
    BY <2>8, <2>9 DEF AgreesWithSchema
<1>7. CASE tool = "send_to_terminal"
  <2>1. /\ Checks[tool] = SendArgs
        /\ DOMAIN Checks[tool] = {"id", "signal", "command", "capture_status", "wait_ms", "wait_for", "cursor"}
    BY <1>7 DEF Checks, SendArgs
  <2>2. DOMAIN Schema[tool] = {"id", "signal", "command", "capture_status", "wait_ms", "wait_for", "cursor"}
    BY <1>7 DEF Schema
  <2>3. DOMAIN args = {"id", "signal", "command", "capture_status", "wait_ms", "wait_for", "cursor"}
    BY <2>1
  <2>4. /\ args.id \in Classes /\ args.signal \in Classes /\ args.command \in Classes
        /\ args.capture_status \in Classes /\ args.wait_ms \in Classes
        /\ args.wait_for \in Classes /\ args.cursor \in Classes
    BY <2>1
  <2>5. ArgsPass(tool, args) <=>
            /\ args.id \in SendArgs.id /\ args.signal \in SendArgs.signal
            /\ args.command \in SendArgs.command
            /\ args.capture_status \in SendArgs.capture_status
            /\ args.wait_ms \in SendArgs.wait_ms /\ args.wait_for \in SendArgs.wait_for
            /\ args.cursor \in SendArgs.cursor /\ SendHasWork(args)
    BY <1>7, <2>1 DEF ArgsPass
  <2>6. SchemaPass(tool, args) <=>
            /\ args.id \in Schema.send_to_terminal.id
            /\ args.signal \in Schema.send_to_terminal.signal
            /\ args.command \in Schema.send_to_terminal.command
            /\ args.capture_status \in Schema.send_to_terminal.capture_status
            /\ args.wait_ms \in Schema.send_to_terminal.wait_ms
            /\ args.wait_for \in Schema.send_to_terminal.wait_for
            /\ args.cursor \in Schema.send_to_terminal.cursor
    BY <1>7, <2>2 DEF SchemaPass
  <2>7. /\ (args.wait_ms \in {"zero", "neg", "huge", "frac"} => Stricter(tool, args))
        /\ (args.cursor \notin {"absent", "fit", "zero", "huge"} => Stricter(tool, args))
        /\ (~SendHasWork(args) => Stricter(tool, args))
    BY <1>7, <2>3 DEF Stricter
  <2>8. ArgsPass(tool, args) => SchemaPass(tool, args) \/ Laxer(tool, args)
    BY <1>7, <2>4, <2>5, <2>6 DEF Laxer, SendArgs, Schema, WaitSchema, ReadOpts, Req, Opt, GetInt,
        Strings, Integer, Number, Classes
  <2>9. SchemaPass(tool, args) => ArgsPass(tool, args) \/ Stricter(tool, args)
    BY <2>4, <2>5, <2>6, <2>7 DEF SendArgs, Schema, WaitSchema, ReadOpts, Req, Opt, GetInt,
        Strings, Integer, Number, Classes
  <2>10. QED
    BY <2>8, <2>9 DEF AgreesWithSchema
<1>8. CASE tool = "get_terminal_output"
  <2>1. /\ Checks[tool] = OutputArgs
        /\ DOMAIN Checks[tool] = {"id", "wait_ms", "wait_for", "cursor"}
    BY <1>8 DEF Checks, OutputArgs
  <2>2. DOMAIN Schema[tool] = {"id", "wait_ms", "wait_for", "cursor"}
    BY <1>8 DEF Schema
  <2>3. DOMAIN args = {"id", "wait_ms", "wait_for", "cursor"}
    BY <2>1
  <2>4. /\ args.id \in Classes /\ args.wait_ms \in Classes /\ args.wait_for \in Classes
        /\ args.cursor \in Classes
    BY <2>1
  <2>5. ArgsPass(tool, args) <=>
            /\ args.id \in OutputArgs.id /\ args.wait_ms \in OutputArgs.wait_ms
            /\ args.wait_for \in OutputArgs.wait_for /\ args.cursor \in OutputArgs.cursor
    BY <1>8, <2>1 DEF ArgsPass
  <2>6. SchemaPass(tool, args) <=>
            /\ args.id \in Schema.get_terminal_output.id
            /\ args.wait_ms \in Schema.get_terminal_output.wait_ms
            /\ args.wait_for \in Schema.get_terminal_output.wait_for
            /\ args.cursor \in Schema.get_terminal_output.cursor
    BY <1>8, <2>2 DEF SchemaPass
  <2>7. /\ (args.wait_ms \in {"zero", "neg", "huge", "frac"} => Stricter(tool, args))
        /\ (args.cursor \notin {"absent", "fit", "zero", "huge"} => Stricter(tool, args))
    BY <1>8, <2>3 DEF Stricter
  <2>8. ArgsPass(tool, args) => SchemaPass(tool, args) \/ Laxer(tool, args)
    BY <1>8, <2>4, <2>5, <2>6 DEF Laxer, OutputArgs, Schema, WaitSchema, ReadOpts, Req, Opt, GetInt,
        Strings, Integer, Number, Classes
  <2>9. SchemaPass(tool, args) => ArgsPass(tool, args) \/ Stricter(tool, args)
    BY <2>4, <2>5, <2>6, <2>7 DEF OutputArgs, Schema, WaitSchema, ReadOpts, Req, Opt, GetInt,
        Strings, Integer, Number, Classes
  <2>10. QED
    BY <2>8, <2>9 DEF AgreesWithSchema
<1>9. CASE tool = "kill_terminal"
  <2>1. /\ Checks[tool] = KillArgs
        /\ DOMAIN Checks[tool] = {"id"}
    BY <1>9 DEF Checks, KillArgs
  <2>2. DOMAIN Schema[tool] = {"id"}
    BY <1>9 DEF Schema
  <2>3. DOMAIN args = {"id"}
    BY <2>1
  <2>4. args.id \in Classes
    BY <2>1
  <2>5. ArgsPass(tool, args) <=>
            args.id \in KillArgs.id
    BY <1>9, <2>1 DEF ArgsPass
  <2>6. SchemaPass(tool, args) <=>
            args.id \in Schema.kill_terminal.id
    BY <1>9, <2>2 DEF SchemaPass
  <2>8. ArgsPass(tool, args) => SchemaPass(tool, args) \/ Laxer(tool, args)
    BY <1>9, <2>4, <2>5, <2>6 DEF Laxer, KillArgs, Schema, WaitSchema, ReadOpts, Req, Opt, GetInt,
        Strings, Integer, Number, Classes
  <2>9. SchemaPass(tool, args) => ArgsPass(tool, args) \/ Stricter(tool, args)
    BY <2>4, <2>5, <2>6 DEF KillArgs, Schema, WaitSchema, ReadOpts, Req, Opt, GetInt,
        Strings, Integer, Number, Classes
  <2>10. QED
    BY <2>8, <2>9 DEF AgreesWithSchema
<1>10. CASE tool = "list_terminals"
  <2>1. /\ Checks[tool] = ListArgs
        /\ DOMAIN Checks[tool] = {"include_exited"}
    BY <1>10 DEF Checks, ListArgs
  <2>2. DOMAIN Schema[tool] = {"include_exited"}
    BY <1>10 DEF Schema
  <2>3. DOMAIN args = {"include_exited"}
    BY <2>1
  <2>4. args.include_exited \in Classes
    BY <2>1
  <2>5. ArgsPass(tool, args) <=>
            args.include_exited \in ListArgs.include_exited
    BY <1>10, <2>1 DEF ArgsPass
  <2>6. SchemaPass(tool, args) <=>
            args.include_exited \in Schema.list_terminals.include_exited
    BY <1>10, <2>2 DEF SchemaPass
  <2>8. ArgsPass(tool, args) => SchemaPass(tool, args) \/ Laxer(tool, args)
    BY <1>10, <2>4, <2>5, <2>6 DEF Laxer, ListArgs, Schema, WaitSchema, ReadOpts, Req, Opt, GetInt,
        Strings, Integer, Number, Classes
  <2>9. SchemaPass(tool, args) => ArgsPass(tool, args) \/ Stricter(tool, args)
    BY <2>4, <2>5, <2>6 DEF ListArgs, Schema, WaitSchema, ReadOpts, Req, Opt, GetInt,
        Strings, Integer, Number, Classes
  <2>10. QED
    BY <2>8, <2>9 DEF AgreesWithSchema
<1>11. QED
  BY <1>1, <1>2, <1>3, <1>4, <1>5, <1>6, <1>7, <1>8, <1>9, <1>10 DEF Tools, Checks

(* What rpc_parse_request makes of a request.                              *)
LEMMA Verdicts ==
    ASSUME NEW j
    PROVE  /\ rpc_parse_request(j) \in
                  {"refused", "protocol", "cancel", "notification", "cmd", "tool", "arg_error"}
           /\ rpc_parse_request(NoRequest) = "refused"
<1>1. ParseCall(j) \in {"refused", "cmd", "tool", "arg_error"}
  BY DEF ParseCall
<1>2. QED
  BY <1>1 DEF rpc_parse_request, NoRequest

-----------------------------------------------------------------------------
(* The input: what is in the buffer is a stretch of the wire. *)

(* The units from b + 1 to e of the wire are in the buffer, and those from *)
(* e + 1 are still to come, unless the input was given up.                 *)
InBuffer(b, e) ==
    /\ b \in 0..e /\ e \in 0..Len(sc.wire)
    /\ buf = SubSeq(sc.wire, b + 1, e)
    /\ ~eof => wire = SubSeq(sc.wire, e + 1, Len(sc.wire))

(* The requests taken lie in front of b.                                   *)
Taken(b) ==
    \A k \in 1..Len(got) : got[k] # 0 => \E p \in 1..b : sc.wire[p] = <<"head", got[k]>>

Input ==
    /\ sc \in Scenarios
    /\ eof \in BOOLEAN /\ framed \in BOOLEAN
    /\ scanned \in Nat /\ Len(buf) <= MaxBuf
    /\ got \in Seq(0..Len(sc.reqs))
    /\ \A i, k \in 1..Len(got) : i < k /\ got[k] # 0 => got[i] < got[k]
    /\ \E b, e \in Nat : InBuffer(b, e) /\ Taken(b)

(* The lengths and elements of a stretch of a sequence.                    *)
LEMMA Stretch ==
    ASSUME NEW S, NEW s \in Seq(S), NEW a \in Nat, NEW b \in Nat, a <= b, b <= Len(s)
    PROVE  LET u == SubSeq(s, a + 1, b)
           IN  /\ u \in Seq(S) /\ Len(u) = b - a
               /\ \A i \in 1..b - a : u[i] = s[a + i]
<1>1. Len(s) \in Nat /\ \A i \in a + 1..b : s[i] \in S
  BY LenProperties
<1>2. QED
  BY <1>1, SubSeqProperties

(* A stretch of a stretch.                                                 *)
LEMMA StretchOfStretch ==
    ASSUME NEW S, NEW s \in Seq(S), NEW a \in Nat, NEW b \in Nat, a <= b, b <= Len(s),
           NEW x \in Nat, NEW y \in Nat, x <= y, y <= b - a
    PROVE  SubSeq(SubSeq(s, a + 1, b), x + 1, y) = SubSeq(s, a + x + 1, a + y)
<1> DEFINE u == SubSeq(s, a + 1, b)
           v == SubSeq(u, x + 1, y)
           w == SubSeq(s, (a + x) + 1, a + y)
<1>1. u \in Seq(S) /\ Len(u) = b - a /\ \A i \in 1..b - a : u[i] = s[a + i]
  BY Stretch
<1> HIDE DEF u
<1>2. v \in Seq(S) /\ Len(v) = y - x /\ \A i \in 1..y - x : v[i] = u[x + i]
  <2>1. y <= Len(u)
    BY <1>1
  <2>2. QED
    BY <1>1, <2>1, Stretch
<1>3. w \in Seq(S) /\ Len(w) = y - x /\ \A i \in 1..y - x : w[i] = s[a + x + i]
  <2>1. Len(s) \in Nat
    BY LenProperties
  <2>2. a + x \in Nat /\ a + y \in Nat /\ a + x <= a + y /\ a + y <= Len(s) /\ (a + y) - (a + x) = y - x
    BY <2>1
  <2>3. w \in Seq(S) /\ Len(w) = (a + y) - (a + x) /\ \A i \in 1..(a + y) - (a + x) : w[i] = s[(a + x) + i]
    BY <2>2, Stretch
  <2>4. QED
    BY <2>2, <2>3
<1> HIDE DEF v, w
<1>4. ASSUME NEW i \in 1..Len(v) PROVE v[i] = w[i]
  <2>1. i \in 1..y - x /\ x + i \in 1..b - a /\ a + (x + i) = a + x + i
    BY <1>2
  <2>2. v[i] = u[x + i] /\ u[x + i] = s[a + (x + i)]
    BY <1>1, <1>2, <2>1
  <2>3. w[i] = s[a + x + i]
    BY <1>3, <2>1
  <2>4. QED
    BY <2>1, <2>2, <2>3
<1>5. v = w
  <2>1. Len(v) = Len(w)
    BY <1>2, <1>3
  <2>2. QED
    BY <1>2, <1>3, <1>4, <2>1, SeqEqual
<1>6. QED
  BY <1>5 DEF u, v, w

(* get_line takes a line from the front of the buffer.                     *)
LEMMA LineFromFront ==
    ASSUME buf \in Seq(Units), scanned \in Nat, NEW f \in BOOLEAN, has_line(f)
    PROVE  LET g == get_line(f)
           IN  /\ g.scanned \in Nat
               /\ \E x, y, m \in Nat :
                     /\ x <= y /\ y <= m /\ m <= Len(buf)
                     /\ g.line = SubSeq(buf, x + 1, y)
                     /\ g.rest = SubSeq(buf, m + 1, Len(buf))
<1>1. Len(buf) \in Nat
  BY LenProperties
<1>2. CASE f
  <2>1. HeaderEnds # {} /\ content_length >= 0 /\ Len(buf) >= BodyEnd
    BY <1>2 DEF has_line, HasFramed
  <2>2. HeaderEnd \in Nat
    <3>1. HeaderEnds \subseteq Nat /\ \A p \in HeaderEnds : p >= 1
      BY <1>1 DEF HeaderEnds
    <3>2. PICK p \in HeaderEnds : p = Min(HeaderEnds)
      <4> HIDE DEF HeaderEnds
      <4> QED BY <2>1, <3>1, LeastIn
    <3>3. p \in Nat /\ p >= 1 /\ HeaderEnd = p - 1
      BY <3>1, <3>2 DEF HeaderEnd
    <3>4. QED
      BY <3>3
  <2>3. content_length \in Nat
    <3>1. LengthFields # {} /\ content_length = buf[Min(LengthFields) + 1][2]
      BY <2>1 DEF content_length
    <3>2. LengthFields \subseteq Nat
      BY <2>2 DEF LengthFields
    <3>3. Min(LengthFields) \in LengthFields
      BY <3>1, <3>2, LeastIn
    <3>4. Min(LengthFields) + 1 \in 1..Len(buf)
      <4>1. HeaderEnd <= Len(buf)
        <5>1. HeaderEnd + 4 <= BodyEnd \/ content_length < 0 \/ TRUE
          OBVIOUS
        <5>2. HeaderEnds \subseteq 1..Len(buf) - 3
          BY DEF HeaderEnds
        <5>3. HeaderEnds \subseteq Nat
          BY <1>1, <5>2
        <5>4. Min(HeaderEnds) \in 1..Len(buf) - 3
          BY <2>1, <5>2, <5>3, LeastIn
        <5>5. QED
          BY <1>1, <5>4 DEF HeaderEnd
      <4>2. QED
        BY <1>1, <2>2, <3>3, <4>1 DEF LengthFields
    <3>5. buf[Min(LengthFields) + 1] \in Units
      BY <3>4
    <3>6. QED
      BY <3>1, <3>5 DEF Units
  <2>4. /\ BodyStart \in Nat /\ BodyEnd \in Nat /\ BodyStart <= BodyEnd /\ BodyEnd <= Len(buf)
    BY <1>1, <2>1, <2>2, <2>3 DEF BodyStart, BodyEnd
  <2>5. get_line(f) = [line |-> SubSeq(buf, BodyStart + 1, BodyEnd),
                       rest |-> SubSeq(buf, BodyEnd + 1, Len(buf)), scanned |-> scanned]
    BY <1>2, Zenon DEF get_line
  <2>6. /\ get_line(f).line = SubSeq(buf, BodyStart + 1, BodyEnd)
        /\ get_line(f).rest = SubSeq(buf, BodyEnd + 1, Len(buf))
        /\ get_line(f).scanned = scanned
    <3> DEFINE l == SubSeq(buf, BodyStart + 1, BodyEnd)
               r == SubSeq(buf, BodyEnd + 1, Len(buf))
               g == get_line(f)
    <3>1. g = [line |-> l, rest |-> r, scanned |-> scanned]
      BY <2>5
    <3> HIDE DEF l, r, g
    <3>2. g.line = l /\ g.rest = r /\ g.scanned = scanned
      BY <3>1
    <3>3. QED
      BY <3>2 DEF l, r, g
  <2>7. \E x, y, m \in Nat :
            /\ x <= y /\ y <= m /\ m <= Len(buf)
            /\ get_line(f).line = SubSeq(buf, x + 1, y)
            /\ get_line(f).rest = SubSeq(buf, m + 1, Len(buf))
    <3> BodyStart \in Nat /\ BodyEnd \in Nat
      BY <2>4
    <3> WITNESS BodyStart \in Nat, BodyEnd \in Nat, BodyEnd \in Nat
    <3> QED BY <2>4, <2>6
  <2>8. QED
    BY <2>6, <2>7
<1>3. CASE ~f
  <2>1. Newlines # {}
    BY <1>3 DEF has_line
  <2>2. PICK p \in Newlines : p = Min(Newlines)
    <3>1. Newlines \subseteq Nat
      BY <1>1 DEF Newlines
    <3>2. QED
      BY <2>1, <3>1, LeastIn
  <2>3. p \in Nat /\ p >= 1 /\ p <= Len(buf)
    BY <1>1, <2>2 DEF Newlines
  <2>4. LineEnd(p) \in Nat /\ LineEnd(p) <= p /\ 0 <= LineEnd(p)
    BY <2>3 DEF LineEnd
  <2>5. get_line(f) = [line |-> SubSeq(buf, 1, LineEnd(p)),
                       rest |-> SubSeq(buf, p + 1, Len(buf)), scanned |-> Rescan(p)]
    BY <1>3, <2>2, Zenon DEF get_line
  <2>6. Rescan(p) \in Nat
    BY <2>3 DEF Rescan
  <2>7. /\ get_line(f).line = SubSeq(buf, 1, LineEnd(p))
        /\ get_line(f).rest = SubSeq(buf, p + 1, Len(buf))
        /\ get_line(f).scanned = Rescan(p)
    <3> DEFINE l == SubSeq(buf, 1, LineEnd(p))
               r == SubSeq(buf, p + 1, Len(buf))
               c == Rescan(p)
               g == get_line(f)
    <3>1. g = [line |-> l, rest |-> r, scanned |-> c]
      BY <2>5
    <3> HIDE DEF l, r, g, c
    <3>2. g.line = l /\ g.rest = r /\ g.scanned = c
      BY <3>1
    <3>3. QED
      BY <3>2 DEF l, r, g, c
  <2>8. \E x, y, m \in Nat :
            /\ x <= y /\ y <= m /\ m <= Len(buf)
            /\ get_line(f).line = SubSeq(buf, x + 1, y)
            /\ get_line(f).rest = SubSeq(buf, m + 1, Len(buf))
    <3> LineEnd(p) \in Nat /\ p \in Nat
      BY <2>3, <2>4
    <3> WITNESS 0 \in Nat, LineEnd(p) \in Nat, p \in Nat
    <3> QED BY <2>3, <2>4, <2>7
  <2>9. QED
    BY <2>6, <2>7, <2>8
<1>4. QED
  BY <1>2, <1>3

(* The line holds a request only if the request's first half is in it.     *)
LEMMA RequestInLine ==
    ASSUME NEW line \in Seq(Units), RequestIn(line) # 0
    PROVE  Len(line) = 2 /\ line[1] = <<"head", RequestIn(line)>>
<1>1. /\ Len(line) = 2 /\ Kind(line[1]) = "head" /\ RequestIn(line) = line[1][2]
  BY DEF RequestIn
<1>2. line[1] \in Units
  BY <1>1
<1>3. line[1] = <<line[1][1], line[1][2]>>
  BY <1>2 DEF Units
<1>4. QED
  BY <1>1, <1>3 DEF Kind

(* Appending to what has been taken.                                       *)
LEMMA AppendTaken ==
    ASSUME NEW S, NEW s \in Seq(S), NEW n \in S
    PROVE  /\ Append(s, n) \in Seq(S) /\ Len(Append(s, n)) = Len(s) + 1 /\ Len(s) \in Nat
           /\ \A i \in 1..Len(s) : Append(s, n)[i] = s[i]
           /\ Append(s, n)[Len(s) + 1] = n
           /\ ToSet(Append(s, n)) = ToSet(s) \cup {n}
<1>1. /\ Append(s, n) \in Seq(S) /\ Len(Append(s, n)) = Len(s) + 1 /\ Len(s) \in Nat
      /\ \A i \in 1..Len(s) : Append(s, n)[i] = s[i]
      /\ Append(s, n)[Len(s) + 1] = n
      /\ DOMAIN s = 1..Len(s) /\ DOMAIN Append(s, n) = 1..Len(s) + 1
  BY AppendProperties, LenProperties
<1>2. ToSet(Append(s, n)) = ToSet(s) \cup {n}
  <2> DEFINE u == Append(s, n)
  <2> HIDE DEF u
  <2>1. /\ \A i \in 1..Len(s) : u[i] = s[i]
        /\ u[Len(s) + 1] = n /\ Len(s) \in Nat
        /\ DOMAIN s = 1..Len(s) /\ DOMAIN u = 1..Len(s) + 1
    BY <1>1 DEF u
  <2>2. ASSUME NEW x \in ToSet(u) PROVE x \in ToSet(s) \cup {n}
    <3>1. PICK i \in 1..Len(s) + 1 : x = u[i]
      BY <2>1 DEF ToSet
    <3>2. CASE i = Len(s) + 1
      BY <2>1, <3>1, <3>2
    <3>3. CASE i # Len(s) + 1
      <4>1. i \in 1..Len(s)
        BY <2>1, <3>3
      <4>2. QED
        BY <2>1, <3>1, <4>1 DEF ToSet
    <3>4. QED
      BY <3>2, <3>3
  <2>3. ASSUME NEW x \in ToSet(s) PROVE x \in ToSet(u)
    <3>1. PICK i \in 1..Len(s) : x = s[i]
      BY <2>1 DEF ToSet
    <3>2. i \in 1..Len(s) + 1 /\ u[i] = x
      BY <2>1, <3>1
    <3>3. QED
      BY <2>1, <3>2 DEF ToSet
  <2>4. n \in ToSet(u)
    <3>1. Len(s) + 1 \in 1..Len(s) + 1
      BY <2>1
    <3>2. QED
      BY <2>1, <3>1 DEF ToSet
  <2>5. ToSet(u) = ToSet(s) \cup {n}
    BY <2>2, <2>3, <2>4
  <2>6. QED
    BY <2>5 DEF u
<1>3. QED
  BY <1>1, <1>2

(* The types of what is read.                                              *)
LEMMA InputTypes ==
    ASSUME Input
    PROVE  /\ sc.wire \in Seq(Units) /\ Len(sc.wire) \in Nat
           /\ buf \in Seq(Units) /\ Len(buf) \in Nat /\ Len(sc.reqs) \in Nat
           /\ \A b, e \in Nat : InBuffer(b, e) =>
                  /\ b <= e /\ e <= Len(sc.wire) /\ Len(buf) = e - b
                  /\ \A i \in 1..e - b : buf[i] = sc.wire[b + i]
<1>1. sc.wire \in Seq(Units) /\ Len(sc.wire) \in Nat /\ Len(sc.reqs) \in Nat
  BY ScenarioAssumption, LenProperties DEF Input
<1>2. ASSUME NEW b \in Nat, NEW e \in Nat, InBuffer(b, e)
      PROVE  /\ b <= e /\ e <= Len(sc.wire) /\ Len(buf) = e - b /\ buf \in Seq(Units)
             /\ \A i \in 1..e - b : buf[i] = sc.wire[b + i]
  <2>1. b <= e /\ e <= Len(sc.wire) /\ buf = SubSeq(sc.wire, b + 1, e)
    BY <1>1, <1>2 DEF InBuffer
  <2>2. QED
    BY <1>1, <2>1, Stretch
<1>3. \E b, e \in Nat : InBuffer(b, e)
  BY DEF Input
<1>4. buf \in Seq(Units)
  BY <1>2, <1>3
<1>5. QED
  BY <1>1, <1>2, <1>4, LenProperties

(* Two adjacent stretches make one.                                        *)
LEMMA JoinStretches ==
    ASSUME NEW S, NEW s \in Seq(S), NEW a \in Nat, NEW b \in Nat, NEW c \in Nat,
           a <= b, b <= c, c <= Len(s)
    PROVE  SubSeq(s, a + 1, b) \o SubSeq(s, b + 1, c) = SubSeq(s, a + 1, c)
<1> DEFINE u == SubSeq(s, a + 1, b)
           v == SubSeq(s, b + 1, c)
           w == SubSeq(s, a + 1, c)
           j == u \o v
<1>1. Len(s) \in Nat
  BY LenProperties
<1>2. u \in Seq(S) /\ Len(u) = b - a /\ \A i \in 1..b - a : u[i] = s[a + i]
  <2>1. b <= Len(s)
    BY <1>1
  <2>2. QED
    BY <2>1, Stretch
<1>3. v \in Seq(S) /\ Len(v) = c - b /\ \A i \in 1..c - b : v[i] = s[b + i]
  BY Stretch
<1>4. w \in Seq(S) /\ Len(w) = c - a /\ \A i \in 1..c - a : w[i] = s[a + i]
  <2>1. a <= c
    OBVIOUS
  <2>2. QED
    BY <2>1, Stretch
<1> HIDE DEF u, v, w
<1>5. /\ j \in Seq(S) /\ Len(j) = Len(u) + Len(v)
      /\ \A i \in 1..Len(u) + Len(v) : j[i] = IF i <= Len(u) THEN u[i] ELSE v[i - Len(u)]
  BY <1>2, <1>3, ConcatProperties
<1> HIDE DEF j
<1>6. Len(j) = c - a
  BY <1>2, <1>3, <1>5
<1>7. ASSUME NEW i \in 1..Len(j) PROVE j[i] = w[i]
  <2>1. i \in 1..c - a /\ i \in 1..Len(u) + Len(v) /\ Len(u) = b - a
    BY <1>2, <1>3, <1>5, <1>6
  <2>2. w[i] = s[a + i]
    BY <1>4, <2>1
  <2>3. j[i] = IF i <= b - a THEN u[i] ELSE v[i - (b - a)]
    BY <1>5, <2>1
  <2>4. CASE i <= b - a
    <3>1. i \in 1..b - a
      BY <2>1, <2>4
    <3>2. QED
      BY <1>2, <2>2, <2>3, <3>1, <2>4
  <2>5. CASE ~(i <= b - a)
    <3>1. i - (b - a) \in 1..c - b /\ b + (i - (b - a)) = a + i
      BY <2>1, <2>5
    <3>2. v[i - (b - a)] = s[b + (i - (b - a))]
      BY <1>3, <3>1
    <3>3. QED
      BY <2>2, <2>3, <3>1, <3>2, <2>5
  <2>6. QED
    BY <2>4, <2>5
<1>8. j = w
  BY <1>4, <1>5, <1>6, <1>7, SeqEqual
<1>9. QED
  BY <1>8 DEF j, u, v, w

\* Nothing has been read in the beginning.
LEMMA InputInit == Init => Input
<1> SUFFICES ASSUME Init PROVE Input
  OBVIOUS
<1>1. /\ sc \in Scenarios /\ wire = sc.wire /\ buf = <<>> /\ scanned = 0
      /\ eof = FALSE /\ framed = FALSE /\ got = <<>>
  BY DEF Init
<1>2. sc.wire \in Seq(Units) /\ Len(sc.wire) \in Nat /\ Len(sc.reqs) \in Nat
  BY <1>1, ScenarioAssumption, LenProperties
<1>3. got \in Seq(0..Len(sc.reqs)) /\ Len(got) = 0 /\ Len(buf) = 0
  BY <1>1, EmptySeq
<1>4. InBuffer(0, 0)
  <2>1. SubSeq(sc.wire, 1, Len(sc.wire)) = sc.wire
    BY <1>2, SubSeqFull
  <2>2. SubSeq(sc.wire, 1, 0) = <<>>
    BY <1>2, SubSeqEmpty
  <2>3. 0 \in 0..0 /\ 0 \in 0..Len(sc.wire) /\ 0 + 1 = 1
    BY <1>2
  <2>4. QED
    BY <1>1, <2>1, <2>2, <2>3 DEF InBuffer
<1>5. Taken(0)
  BY <1>3 DEF Taken
<1>6. 0 <= MaxBuf
  BY TransportAssumption
<1>7. \E b, e \in Nat : InBuffer(b, e) /\ Taken(b)
  BY <1>4, <1>5
<1>8. scanned \in Nat /\ Len(buf) <= MaxBuf
  BY <1>1, <1>3, <1>6
<1>9. \A i, k \in 1..Len(got) : i < k /\ got[k] # 0 => got[i] < got[k]
  BY <1>3
<1>10. QED
  BY <1>1, <1>3, <1>7, <1>8, <1>9 DEF Input

(* Steps that take nothing from the input.                                 *)
LEMMA InputKept ==
    ASSUME Input, sc' = sc, buf' = buf, got' = got, scanned' \in Nat, framed' \in BOOLEAN,
           \/ wire' = wire /\ eof' = eof
           \/ eof' = TRUE
    PROVE  Input'
<1>1. PICK b \in Nat, e \in Nat : InBuffer(b, e) /\ Taken(b)
  BY DEF Input
<1>2. InBuffer(b, e)'
  BY <1>1 DEF InBuffer
<1>3. Taken(b)'
  BY <1>1 DEF Taken
<1>4. QED
  BY <1>2, <1>3 DEF Input


(* Reading: what arrives is the next stretch of the wire.                  *)
LEMMA InputFill ==
    ASSUME Input, Fill
    PROVE  Input'
<1>1. PICK b \in Nat, e \in Nat : InBuffer(b, e) /\ Taken(b)
  BY DEF Input
<1> DEFINE W == sc.wire
           w == SubSeq(W, e + 1, Len(W))
<1>2. /\ W \in Seq(Units) /\ Len(W) \in Nat /\ Len(buf) \in Nat
      /\ b <= e /\ e <= Len(W) /\ Len(buf) = e - b
      /\ buf = SubSeq(W, b + 1, e)
  BY <1>1, InputTypes DEF InBuffer
<1>3. ~eof /\ wire = w /\ UNCHANGED <<sc, scanned, framed, got>>
  BY <1>1 DEF Fill, InBuffer
<1> HIDE DEF W
<1>4. w \in Seq(Units) /\ Len(w) = Len(W) - e
  BY <1>2, Stretch
<1> HIDE DEF w
<1>5. PICK k \in 1..Len(w) :
          LET fits == k <= MaxBuf - Len(buf)
          IN  /\ \E r \in IF fits THEN {k} ELSE 0..MaxBuf - Len(buf) :
                     buf' = buf \o SubSeq(w, 1, r)
              /\ wire' = SubSeq(w, k + 1, Len(w))
              /\ eof' = ~fits
  BY <1>3, Zenon DEF Fill
<1> DEFINE left == MaxBuf - Len(buf)
<1>6. left \in Nat /\ k \in Nat /\ k >= 1 /\ k <= Len(W) - e /\ Len(w) \in Nat
  <2>1. MaxBuf \in Nat /\ Len(buf) <= MaxBuf
    BY TransportAssumption DEF Input
  <2>2. QED
    BY <1>2, <1>4, <2>1
<1>7. PICK r \in IF k <= left THEN {k} ELSE 0..left : buf' = buf \o SubSeq(w, 1, r)
  BY <1>5
<1>8. wire' = SubSeq(w, k + 1, Len(w)) /\ eof' = ~(k <= left)
  BY <1>5
<1> HIDE DEF left
<1>9. r \in Nat /\ r <= k /\ r <= left /\ (k <= left => r = k)
  BY <1>6
<1>10. /\ r <= k /\ r <= left
       /\ buf' = buf \o SubSeq(w, 1, r)
  BY <1>7, <1>9
<1>11. r \in Nat /\ e + r \in Nat /\ e <= e + r /\ e + r <= Len(W)
  BY <1>2, <1>6, <1>9
<1>12. buf' = SubSeq(W, b + 1, e + r) /\ Len(buf') = e + r - b
  <2>1. SubSeq(w, 0 + 1, r) = SubSeq(W, e + 0 + 1, e + r)
    <3>1. 0 <= r /\ r <= Len(W) - e /\ Len(W) <= Len(W)
      BY <1>2, <1>6, <1>10, <1>11
    <3>2. QED
      BY <1>2, <1>11, <3>1, StretchOfStretch DEF w
  <2>2. SubSeq(w, 1, r) = SubSeq(W, e + 1, e + r)
    <3>1. 0 + 1 = 1 /\ e + 0 + 1 = e + 1
      BY <1>2
    <3>2. QED
      BY <2>1, <3>1
  <2>3. buf' = SubSeq(W, b + 1, e + r)
    <3>1. SubSeq(W, b + 1, e) \o SubSeq(W, e + 1, e + r) = SubSeq(W, b + 1, e + r)
      BY <1>2, <1>11, JoinStretches
    <3>2. QED
      BY <1>2, <1>10, <2>2, <3>1
  <2>4. Len(SubSeq(W, b + 1, e + r)) = e + r - b
    <3>1. b <= e + r
      BY <1>2, <1>11
    <3>2. QED
      BY <1>2, <1>11, <3>1, Stretch, SMTT(30)
  <2>5. QED
    BY <2>3, <2>4
<1>13. Len(buf') <= MaxBuf
  <2>1. MaxBuf \in Nat
    BY TransportAssumption
  <2>2. Len(buf') = Len(buf) + r
    BY <1>2, <1>11, <1>12
  <2>3. QED
    BY <1>2, <1>10, <1>11, <2>1, <2>2 DEF left
<1>14. ~eof' => wire' = SubSeq(W, e + r + 1, Len(W))
  <2>1. SUFFICES ASSUME ~eof' PROVE wire' = SubSeq(W, e + r + 1, Len(W))
    OBVIOUS
  <2>2. r = k
    BY <1>8, <1>9, <2>1
  <2> DEFINE n == Len(W) - e
  <2>3. n \in Nat /\ k <= n /\ e + n = Len(W) /\ Len(w) = n /\ n <= n
    BY <1>2, <1>4, <1>6
  <2> HIDE DEF n
  <2>4. SubSeq(w, k + 1, n) = SubSeq(W, e + k + 1, e + n)
    <3>1. n <= Len(W) - e /\ e <= Len(W) /\ Len(W) <= Len(W)
      BY <1>2, <2>3
    <3>2. QED
      BY <1>2, <1>6, <2>3, <3>1, StretchOfStretch DEF w
  <2>5. QED
    BY <1>8, <2>2, <2>3, <2>4
<1>15. InBuffer(b, e + r)'
  <2>1. b \in 0..e + r /\ e + r \in 0..Len(W)
    BY <1>2, <1>11
  <2>2. QED
    BY <1>3, <1>12, <1>14, <2>1 DEF InBuffer, W
<1>16. Taken(b)'
  BY <1>1, <1>3 DEF Taken
<1>17. \E x, y \in Nat : (InBuffer(x, y) /\ Taken(x))'
  BY <1>11, <1>15, <1>16
<1>18. eof' \in BOOLEAN
  BY <1>8
<1>19. QED
  BY <1>3, <1>13, <1>17, <1>18 DEF Input

(* What the line loop does with a line.                                    *)
LEMMA LineTaken ==
    ASSUME framed \in BOOLEAN, NextLine
    PROVE  \E f \in BOOLEAN :
              /\ has_line(f)
              /\ buf' = get_line(f).rest /\ scanned' = get_line(f).scanned
              /\ \/ get_line(f).line = <<>> /\ UNCHANGED <<got, pending, dropped, out>>
                 \/ get_line(f).line # <<>> /\ Handle(RequestIn(get_line(f).line))
              /\ framed' = f
<1>1. ModeNow \in BOOLEAN
  <2>1. StartsFramed \in BOOLEAN
    BY Zenon DEF StartsFramed
  <2>2. QED
    BY <2>1 DEF ModeNow
<1>2. has_line(ModeNow) /\ framed' = ModeNow
  BY DEF NextLine, DetectMode
<1>3. PICK g \in {get_line(ModeNow)} :
          /\ buf' = g.rest /\ scanned' = g.scanned
          /\ \/ g.line = <<>> /\ UNCHANGED <<got, pending, dropped, out>>
             \/ g.line # <<>> /\ \E n \in {RequestIn(g.line)} : Handle(n)
  BY Zenon DEF NextLine
<1>4. g = get_line(ModeNow)
  BY <1>3
<1>5. g.line # <<>> /\ (\E n \in {RequestIn(g.line)} : Handle(n)) => Handle(RequestIn(g.line))
  <2> SUFFICES ASSUME NEW n \in {RequestIn(g.line)}, Handle(n)
               PROVE  Handle(RequestIn(g.line))
    OBVIOUS
  <2>1. n = RequestIn(g.line)
    OBVIOUS
  <2>2. QED
    BY <2>1
<1>6. QED
  BY <1>1, <1>2, <1>3, <1>4, <1>5, Zenon

(* Taking a line: the request in it comes after all taken before.          *)
LEMMA InputLine ==
    ASSUME Input, NextLine
    PROVE  Input'
<1>1. PICK b \in Nat, e \in Nat : InBuffer(b, e) /\ Taken(b)
  BY DEF Input
<1> DEFINE W == sc.wire
<1>2. /\ W \in Seq(Units) /\ Len(W) \in Nat /\ Len(buf) \in Nat /\ buf \in Seq(Units)
      /\ b <= e /\ e <= Len(W) /\ Len(buf) = e - b /\ Len(sc.reqs) \in Nat
      /\ buf = SubSeq(W, b + 1, e)
  BY <1>1, InputTypes DEF InBuffer
<1>3. UNCHANGED <<sc, wire, eof>>
  BY DEF NextLine
<1>4. PICK f \in BOOLEAN :
              /\ has_line(f)
              /\ buf' = get_line(f).rest /\ scanned' = get_line(f).scanned
              /\ \/ get_line(f).line = <<>> /\ UNCHANGED <<got, pending, dropped, out>>
                 \/ get_line(f).line # <<>> /\ Handle(RequestIn(get_line(f).line))
              /\ framed' = f
  BY LineTaken DEF Input
<1> DEFINE line == get_line(f).line
<1>5. /\ scanned' \in Nat
      /\ \E x, y, m \in Nat :
            /\ x <= y /\ y <= m /\ m <= Len(buf)
            /\ line = SubSeq(buf, x + 1, y)
            /\ buf' = SubSeq(buf, m + 1, Len(buf))
  <2>1. scanned \in Nat
    BY DEF Input
  <2>2. LET g == get_line(f)
        IN  /\ g.scanned \in Nat
            /\ \E x, y, m \in Nat :
                     /\ x <= y /\ y <= m /\ m <= Len(buf)
                     /\ g.line = SubSeq(buf, x + 1, y)
                     /\ g.rest = SubSeq(buf, m + 1, Len(buf))
    BY <1>2, <1>4, <2>1, LineFromFront, Zenon
  <2>3. QED
    BY <1>4, <2>2, Zenon
<1>6. PICK x \in Nat, y \in Nat, m \in Nat :
            /\ x <= y /\ y <= m /\ m <= Len(buf)
            /\ line = SubSeq(buf, x + 1, y)
            /\ buf' = SubSeq(buf, m + 1, Len(buf))
  BY <1>5
<1>7. /\ line = SubSeq(buf, x + 1, y)
      /\ \/ line = <<>> /\ UNCHANGED <<got, pending, dropped, out>>
         \/ line # <<>> /\ Handle(RequestIn(line))
  BY <1>4, <1>6
<1> HIDE DEF W, line
<1>8. line \in Seq(Units) /\ Len(line) = y - x /\ \A i \in 1..y - x : line[i] = buf[x + i]
  <2>1. y <= Len(buf)
    BY <1>2, <1>6
  <2>2. QED
    BY <1>2, <1>6, <1>7, <2>1, Stretch
<1>9. b + m \in Nat /\ b <= b + m /\ b + m <= e /\ e <= Len(W)
  BY <1>2, <1>6
<1>10. buf' = SubSeq(W, b + m + 1, e) /\ Len(buf') = e - (b + m)
  <2>1. SubSeq(buf, m + 1, e - b) = SubSeq(W, b + m + 1, b + (e - b))
    <3>1. e - b \in Nat /\ m <= e - b /\ e - b <= e - b
      BY <1>2, <1>6
    <3>2. QED
      BY <1>2, <1>6, <3>1, StretchOfStretch
  <2>2. b + (e - b) = e
    BY <1>2
  <2>3. buf' = SubSeq(W, b + m + 1, e)
    BY <1>2, <1>6, <2>1, <2>2
  <2>4. Len(SubSeq(W, b + m + 1, e)) = e - (b + m)
    BY <1>2, <1>9, Stretch
  <2>5. QED
    BY <2>3, <2>4
<1>11. Len(buf') <= MaxBuf
  <2>1. MaxBuf \in Nat /\ Len(buf) <= MaxBuf
    BY TransportAssumption DEF Input
  <2>2. Len(buf') = Len(buf) - m
    BY <1>2, <1>9, <1>10
  <2>3. QED
    BY <1>2, <1>6, <2>1, <2>2
<1>12. InBuffer(b + m, e)'
  <2>1. b + m \in 0..e /\ e \in 0..Len(W)
    BY <1>9, <1>2
  <2>2. ~eof' => wire' = SubSeq(W, e + 1, Len(W))
    BY <1>1, <1>3 DEF InBuffer, W
  <2>3. QED
    BY <1>3, <1>10, <2>1, <2>2 DEF InBuffer, W
<1>13. /\ got \in Seq(0..Len(sc.reqs)) /\ Len(got) \in Nat
       /\ \A i, k \in 1..Len(got) : i < k /\ got[k] # 0 => got[i] < got[k]
  BY LenProperties DEF Input
<1>14. \A k \in 1..Len(got) : got[k] # 0 => \E p \in 1..b : W[p] = <<"head", got[k]>>
  BY <1>1 DEF Taken, W
<1>15. /\ got' \in Seq(0..Len(sc.reqs))
       /\ \A i, k \in 1..Len(got') : i < k /\ got'[k] # 0 => got'[i] < got'[k]
       /\ \A k \in 1..Len(got') : got'[k] # 0 => \E p \in 1..b + m : W[p] = <<"head", got'[k]>>
  <2>0. \A p \in 1..b : p \in 1..b + m
    BY <1>9
  <2>1. CASE got' = got
    BY <1>13, <1>14, <2>0, <2>1
  <2>2. CASE line # <<>> /\ got' = Append(got, RequestIn(line))
    <3> DEFINE n == RequestIn(line)
               G == Append(got, n)
    <3>1. n # 0 => \E p \in b + 1..b + m : W[p] = <<"head", n>>
      <4> SUFFICES ASSUME n # 0 PROVE \E p \in b + 1..b + m : W[p] = <<"head", n>>
        OBVIOUS
      <4>1. Len(line) = 2 /\ line[1] = <<"head", n>>
        BY <1>8, RequestInLine
      <4>2. 1 \in 1..y - x /\ x + 1 \in 1..e - b /\ b + (x + 1) \in b + 1..b + m
        BY <1>2, <1>6, <1>8, <4>1
      <4>3. line[1] = buf[x + 1]
        BY <1>8, <4>2
      <4>4. buf[x + 1] = W[b + (x + 1)]
        BY <1>1, <4>2, InputTypes DEF W
      <4>5. QED
        BY <4>1, <4>2, <4>3, <4>4
    <3> HIDE DEF n
    <3>2. \A p, q \in 1..Len(W) :
             /\ Kind(W[p]) = "head" => W[p][2] \in 1..Len(sc.reqs)
             /\ Kind(W[p]) = "head" /\ Kind(W[q]) = "head" /\ p < q => W[p][2] < W[q][2]
      BY ScenarioAssumption DEF Input, W
    <3>3. \A v : Kind(<<"head", v>>) = "head" /\ <<"head", v>>[2] = v
      BY DEF Kind
    <3>4. n \in 0..Len(sc.reqs)
      <4>1. CASE n = 0
        BY <1>2, <4>1
      <4>2. CASE n # 0
        <5>1. PICK p \in b + 1..b + m : W[p] = <<"head", n>>
          BY <3>1, <4>2
        <5>2. p \in 1..Len(W)
          BY <1>2, <1>9
        <5>3. Kind(W[p]) = "head" /\ W[p][2] = n
          BY <3>3, <5>1
        <5>4. n \in 1..Len(sc.reqs)
          BY <3>2, <5>2, <5>3
        <5>5. QED
          BY <1>2, <5>4
      <4>3. QED
        BY <4>1, <4>2
    <3>5. \A i \in 1..Len(got) : n # 0 => got[i] < n
      <4> SUFFICES ASSUME NEW i \in 1..Len(got), n # 0 PROVE got[i] < n
        OBVIOUS
      <4>1. got[i] \in 0..Len(sc.reqs)
        BY <1>13
      <4>2. n \in Nat /\ n > 0
        BY <1>2, <3>4
      <4>3. CASE got[i] = 0
        BY <4>2, <4>3
      <4>4. CASE got[i] # 0
        <5>1. PICK p \in b + 1..b + m : W[p] = <<"head", n>>
          BY <3>1
        <5>2. PICK q \in 1..b : W[q] = <<"head", got[i]>>
          BY <1>14, <4>4
        <5>3. q < p /\ p \in 1..Len(W) /\ q \in 1..Len(W)
          BY <1>2, <1>9
        <5>4. Kind(W[p]) = "head" /\ Kind(W[q]) = "head" /\ W[p][2] = n /\ W[q][2] = got[i]
          BY <3>3, <5>1, <5>2
        <5>5. QED
          BY <3>2, <5>3, <5>4
      <4>5. QED
        BY <4>3, <4>4
    <3>6. /\ G \in Seq(0..Len(sc.reqs)) /\ Len(G) = Len(got) + 1
          /\ \A i \in 1..Len(got) : G[i] = got[i]
          /\ G[Len(got) + 1] = n
      BY <1>13, <3>4, AppendTaken
    <3>7. got' = G
      BY <2>2 DEF n
    <3> HIDE DEF G
    <3>8. \A i, k \in 1..Len(G) : i < k /\ G[k] # 0 => G[i] < G[k]
      <4> SUFFICES ASSUME NEW i \in 1..Len(G), NEW k \in 1..Len(G), i < k, G[k] # 0
                   PROVE  G[i] < G[k]
        OBVIOUS
      <4>1. i \in 1..Len(got)
        BY <1>13, <3>6
      <4>2. G[i] = got[i]
        BY <3>6, <4>1
      <4>3. CASE k = Len(got) + 1
        BY <3>5, <3>6, <4>1, <4>2, <4>3
      <4>4. CASE k # Len(got) + 1
        <5>1. k \in 1..Len(got)
          BY <1>13, <3>6, <4>4, SMTT(30)
        <5>2. QED
          BY <1>13, <3>6, <4>1, <4>2, <5>1
      <4>5. QED
        BY <4>3, <4>4
    <3>9. \A k \in 1..Len(G) : G[k] # 0 => \E p \in 1..b + m : W[p] = <<"head", G[k]>>
      <4> SUFFICES ASSUME NEW k \in 1..Len(G), G[k] # 0
                   PROVE  \E p \in 1..b + m : W[p] = <<"head", G[k]>>
        OBVIOUS
      <4>1. CASE k = Len(got) + 1
        <5>1. G[k] = n
          BY <3>6, <4>1
        <5>2. PICK p \in b + 1..b + m : W[p] = <<"head", n>>
          BY <3>1, <5>1
        <5>3. p \in 1..b + m
          BY <1>9
        <5>4. QED
          BY <5>1, <5>2, <5>3
      <4>2. CASE k # Len(got) + 1
        <5>1. k \in 1..Len(got)
          BY <1>13, <3>6, <4>2
        <5>2. G[k] = got[k]
          BY <3>6, <5>1
        <5>3. QED
          BY <1>14, <2>0, <5>1, <5>2
      <4>3. QED
        BY <4>1, <4>2
    <3>10. QED
      BY <3>6, <3>7, <3>8, <3>9
  <2>3. QED
    BY <1>7, <2>1, <2>2 DEF Handle
<1>16. Taken(b + m)'
  BY <1>3, <1>15 DEF Taken, W
<1>17. \E v, w \in Nat : (InBuffer(v, w) /\ Taken(v))'
  BY <1>9, <1>12, <1>16
<1>18. QED
  BY <1>3, <1>4, <1>5, <1>11, <1>15, <1>17 DEF Input

\* The buffer is always a stretch of the wire, and the requests taken lie before
\* it (LineReader).
LEMMA AlwaysInput == Spec => []Input
<1>1. Input /\ [Next]_vars => Input'
  <2> SUFFICES ASSUME Input, [Next]_vars PROVE Input'
    OBVIOUS
  <2>0. framed \in BOOLEAN /\ eof \in BOOLEAN /\ scanned \in Nat /\ Len(buf) <= MaxBuf
    BY DEF Input
  <2>1. CASE NextLine
    BY <2>1, InputLine
  <2>2. CASE LinesDone
    <3>1. ModeNow \in BOOLEAN
      <4>1. StartsFramed \in BOOLEAN
        BY Zenon DEF StartsFramed
      <4>2. QED
        BY <2>0, <4>1 DEF ModeNow
    <3>2. Len(buf) \in Nat
      BY InputTypes
    <3>3. framed' \in BOOLEAN /\ scanned' \in Nat /\ UNCHANGED <<sc, wire, buf, eof, got>>
      BY <2>0, <2>2, <3>1, <3>2 DEF LinesDone, DetectMode
    <3>4. QED
      BY <3>3, InputKept
  <2>3. CASE Fill
    BY <2>3, InputFill
  <2>4. CASE FillEof
    <3>1. eof' = TRUE /\ UNCHANGED <<sc, buf, scanned, framed, got>>
      BY <2>4 DEF FillEof
    <3>2. QED
      BY <2>0, <3>1, InputKept
  <2>5. ASSUME NEW n \in pending, Complete(n) \/ CompleteUnread(n) \/ CompleteThrows(n) PROVE Input'
    <3>1. UNCHANGED <<sc, wire, buf, scanned, eof, framed, got>>
      BY <2>5 DEF Complete, CompleteUnread, CompleteThrows, reader
    <3>2. QED
      BY <2>0, <3>1, InputKept
  <2>6. CASE PollFails \/ UNCHANGED vars
    <3>1. UNCHANGED <<sc, wire, buf, scanned, eof, framed, got>>
      BY <2>6 DEF PollFails, vars, reader
    <3>2. QED
      BY <2>0, <3>1, InputKept
  <2>7. QED
    BY <2>1, <2>2, <2>3, <2>4, <2>5, <2>6 DEF Next, Done
<1>2. QED
  BY <1>1, InputInit, PTL DEF Spec


-----------------------------------------------------------------------------
(* One reply for every request taken. *)

Verdict(n) == rpc_parse_request(Request(n))

ReplyRecords == [req : Nat, id : {"own", "null"}, framed : BOOLEAN,
                 what : {"error", "answer", "toolerror", "result"}]

(* A reply is to a request that was taken and is no longer pending, has    *)
(* its id, and is the only one; what is taken is pending, answered, not to *)
(* be answered, or given up.                                               *)
Replied ==
    /\ out \in Seq(ReplyRecords)
    /\ pending \subseteq ToSet(got) \ {0}
    /\ \A n \in pending : Verdict(n) \in {"cmd", "tool", "arg_error"}
    /\ \A i \in 1..Len(out) :
           out[i].req # 0 =>
               /\ out[i].req \in ToSet(got) \ pending
               /\ out[i].id = IdOf(Request(out[i].req))
               /\ Verdict(out[i].req) \notin {"notification", "cancel"}
    /\ \A i, k \in 1..Len(out) : out[i].req = out[k].req /\ out[i].req # 0 => i = k
    /\ \A n \in ToSet(got) \ {0} :
           \/ Verdict(n) \in {"notification", "cancel"}
           \/ n \in dropped \cup lost \cup pending
           \/ \E i \in 1..Len(out) : out[i].req = n
    /\ pc = "exit" => pending = {}

\* What the client sent, and how it has to be answered, does not change.
LEMMA SameRequests ==
    ASSUME sc' = sc
    PROVE  \A n : Request(n)' = Request(n) /\ Verdict(n)' = Verdict(n)
<1>1. \A n : Request(n)' = Request(n)
  BY DEF Request
<1>2. QED
  BY <1>1 DEF Verdict

(* A reply is written to a request that is taken and has none.             *)
LEMMA ReplyWritten ==
    ASSUME Replied, sc' = sc, dropped \subseteq dropped', lost' = lost, pc' # "exit",
           NEW r \in ReplyRecords, out' = Append(out, r), r.id = IdOf(Request(r.req)) \/ r.req = 0,
           Verdict(r.req) \notin {"notification", "cancel"},
           ToSet(got) \subseteq ToSet(got'), ToSet(got') \subseteq ToSet(got) \cup {r.req},
           r.req # 0 => r.req \in ToSet(got') /\ \A i \in 1..Len(out) : out[i].req # r.req,
           pending' = pending \ {r.req}
    PROVE  Replied'
<1>1. \A n : Request(n)' = Request(n) /\ Verdict(n)' = Verdict(n)
  BY SameRequests
<1>2. /\ out' \in Seq(ReplyRecords) /\ Len(out) \in Nat /\ Len(out') = Len(out) + 1
      /\ \A i \in 1..Len(out) : out'[i] = out[i]
      /\ out'[Len(out) + 1] = r
  BY AppendProperties, LenProperties DEF Replied
<1>3. \A i \in 1..Len(out') : i = Len(out) + 1 \/ i \in 1..Len(out)
  BY <1>2
<1>4. pending' \subseteq ToSet(got') \ {0}
  BY DEF Replied
<1>5. \A n \in pending' : Verdict(n)' \in {"cmd", "tool", "arg_error"}
  BY <1>1 DEF Replied
<1>6. ASSUME NEW i \in 1..Len(out'), out'[i].req # 0
      PROVE  /\ out'[i].req \in ToSet(got') \ pending'
             /\ out'[i].id = IdOf(Request(out'[i].req))
             /\ Verdict(out'[i].req) \notin {"notification", "cancel"}
  <2>1. CASE i = Len(out) + 1
    BY <1>2, <1>6, <2>1
  <2>2. CASE i \in 1..Len(out)
    BY <1>2, <1>6, <2>2 DEF Replied
  <2>3. QED
    BY <1>3, <2>1, <2>2
<1>7. ASSUME NEW i \in 1..Len(out'), NEW k \in 1..Len(out'), out'[i].req = out'[k].req, out'[i].req # 0
      PROVE  i = k
  <2>1. CASE i \in 1..Len(out) /\ k \in 1..Len(out)
    BY <1>2, <1>7, <2>1 DEF Replied
  <2>2. CASE i = Len(out) + 1 /\ k \in 1..Len(out)
    BY <1>2, <1>7, <2>2
  <2>3. CASE i \in 1..Len(out) /\ k = Len(out) + 1
    BY <1>2, <1>7, <2>3
  <2>4. QED
    BY <1>3, <2>1, <2>2, <2>3
<1>8. ASSUME NEW n \in ToSet(got') \ {0}
      PROVE  \/ Verdict(n)' \in {"notification", "cancel"}
             \/ n \in dropped' \cup lost' \cup pending'
             \/ \E i \in 1..Len(out') : out'[i].req = n
  <2>1. CASE n = r.req
    <3>1. Len(out) + 1 \in 1..Len(out') /\ out'[Len(out) + 1].req = n
      BY <1>2, <2>1
    <3>2. QED
      BY <3>1
  <2>2. CASE n # r.req
    <3>1. n \in ToSet(got) \ {0}
      BY <2>2
    <3>2. CASE \E i \in 1..Len(out) : out[i].req = n
      <4>1. PICK i \in 1..Len(out) : out[i].req = n
        BY <3>2
      <4>2. i \in 1..Len(out') /\ out'[i].req = n
        BY <1>2, <4>1
      <4>3. QED
        BY <4>2
    <3>3. QED
      BY <1>1, <2>2, <3>1, <3>2 DEF Replied
  <2>3. QED
    BY <2>1, <2>2
<1>9. \A n : IdOf(Request(n))' = IdOf(Request(n))
  BY <1>1
<1>10. (\A i \in 1..Len(out) : out[i].req # 0 =>
               /\ out[i].req \in ToSet(got) \ pending
               /\ out[i].id = IdOf(Request(out[i].req))
               /\ Verdict(out[i].req) \notin {"notification", "cancel"})'
  BY <1>6 DEF Request, Verdict
<1>11. QED
  BY <1>2, <1>4, <1>5, <1>7, <1>8, <1>10 DEF Replied


(* A step without a reply leaves everything accounted for, if it accounts  *)
(* for what it takes and for what it makes no longer pending.              *)
LEMMA NothingWritten ==
    ASSUME Replied, sc' = sc, out' = out, dropped \subseteq dropped', lost \subseteq lost',
           ToSet(got) \subseteq ToSet(got'), pending' \subseteq ToSet(got') \ {0},
           \A n \in pending' : /\ Verdict(n) \in {"cmd", "tool", "arg_error"}
                               /\ \A i \in 1..Len(out) : out[i].req # n,
           \A n \in ToSet(got') \ ToSet(got) :
               n # 0 => n \in pending' \/ Verdict(n) \in {"notification", "cancel"},
           \A n \in pending : n \in pending' \cup dropped' \cup lost',
           pc' = "exit" => pending' = {}
    PROVE  Replied'
<1>1. \A n : Request(n)' = Request(n) /\ Verdict(n)' = Verdict(n)
  BY SameRequests
<1>2. (\A n \in pending : Verdict(n) \in {"cmd", "tool", "arg_error"})'
  BY <1>1
<1>3. (\A i \in 1..Len(out) : out[i].req # 0 =>
               /\ out[i].req \in ToSet(got) \ pending
               /\ out[i].id = IdOf(Request(out[i].req))
               /\ Verdict(out[i].req) \notin {"notification", "cancel"})'
  <2>1. \A i \in 1..Len(out) : out[i].req # 0 =>
               /\ out[i].req \in ToSet(got') \ pending'
               /\ out[i].id = IdOf(Request(out[i].req))
               /\ Verdict(out[i].req) \notin {"notification", "cancel"}
    BY DEF Replied
  <2>2. QED
    BY <2>1 DEF Request, Verdict
<1>4. ASSUME NEW n \in ToSet(got') \ {0}
      PROVE  \/ Verdict(n)' \in {"notification", "cancel"}
             \/ n \in dropped' \cup lost' \cup pending'
             \/ \E i \in 1..Len(out') : out'[i].req = n
  <2>1. CASE n \in ToSet(got)
    BY <1>1, <2>1 DEF Replied
  <2>2. CASE n \notin ToSet(got)
    BY <1>1, <2>2
  <2>3. QED
    BY <2>1, <2>2
<1>5. QED
  BY <1>2, <1>3, <1>4 DEF Replied

(* What is taken is the number of a request, or 0.                         *)
LEMMA TakenKnown ==
    ASSUME Input, Input', sc' = sc, NEW n, got' = Append(got, n)
    PROVE  n \in 0..Len(sc.reqs)
<1>1. got \in Seq(0..Len(sc.reqs)) /\ Len(got) \in Nat /\ got' \in Seq(0..Len(sc.reqs))
  BY LenProperties DEF Input
<1>2. got \in Seq(0..Len(sc.reqs) \cup {n}) /\ n \in 0..Len(sc.reqs) \cup {n}
  <2>1. 0..Len(sc.reqs) \subseteq 0..Len(sc.reqs) \cup {n}
    OBVIOUS
  <2>2. QED
    BY <1>1, <2>1, SMTT(30)
<1>3. Len(got') = Len(got) + 1 /\ got'[Len(got) + 1] = n
  BY <1>2, AppendTaken
<1>4. Len(got) + 1 \in 1..Len(got')
  BY <1>1, <1>3
<1>5. QED
  BY <1>1, <1>3, <1>4

(* A line: what is taken is answered, left alone or dispatched.            *)
LEMMA RepliedLine ==
    ASSUME Input, Input', Replied, NextLine
    PROVE  Replied'
<1>1. sc' = sc /\ lost' = lost /\ pc' = pc /\ pc = "lines"
  BY DEF NextLine
<1>2. framed' \in BOOLEAN
  BY DEF Input
<1>3. PICK f \in BOOLEAN :
              \/ get_line(f).line = <<>> /\ UNCHANGED <<got, pending, dropped, out>>
              \/ get_line(f).line # <<>> /\ Handle(RequestIn(get_line(f).line))
  BY LineTaken DEF Input
<1>4. CASE UNCHANGED <<got, pending, dropped, out>>
  <2>1. \A n \in pending : \A i \in 1..Len(out) : out[i].req # n
    BY DEF Replied
  <2>2. ToSet(got') = ToSet(got)
    BY <1>4
  <2>3. pending' \subseteq ToSet(got') \ {0} /\ \A n \in pending' : Verdict(n) \in {"cmd", "tool", "arg_error"}
    BY <1>4, <2>2 DEF Replied
  <2>4. QED
    BY <1>1, <1>4, <2>1, <2>2, <2>3, NothingWritten
<1>5. ASSUME NEW n, Handle(n) PROVE Replied'
  <2> DEFINE j == Request(n)
             v == Verdict(n)
  <2>1. /\ got' = Append(got, n)
        /\ out' = IF v \in {"refused", "protocol"}
                  THEN Append(out, Reply(n, IdOf(j), IF v = "refused" THEN "error" ELSE "answer"))
                  ELSE out
        /\ dropped' = IF v = "cancel" THEN dropped \cup ({j.target} \cap pending) ELSE dropped
        /\ pending' = IF v \in {"cmd", "tool", "arg_error"} THEN pending \cup {n} ELSE pending
    BY <1>5, Zenon DEF Handle, Verdict
  <2>2. v \in {"refused", "protocol", "cancel", "notification", "cmd", "tool", "arg_error"}
    BY Verdicts DEF Verdict
  <2>3. n = 0 => v = "refused"
    BY Verdicts DEF Verdict, Request
  <2>4. got \in Seq(0..Len(sc.reqs)) /\ Len(got) \in Nat /\ got' \in Seq(0..Len(sc.reqs))
    BY <1>1, LenProperties DEF Input
  <2>5. n \in 0..Len(sc.reqs) /\ Len(got') = Len(got) + 1 /\ got'[Len(got) + 1] = n
    <3>1. n \in 0..Len(sc.reqs)
      BY <1>1, <2>1, TakenKnown
    <3>2. QED
      BY <2>1, <2>4, <3>1, AppendTaken
  <2>6. /\ ToSet(got') = ToSet(got) \cup {n}
        /\ \A i \in 1..Len(got) : got'[i] = got[i]
        /\ DOMAIN got = 1..Len(got)
    BY <2>1, <2>4, <2>5, AppendTaken
  <2>7. n # 0 => n \notin ToSet(got)
    <3> SUFFICES ASSUME n # 0, n \in ToSet(got) PROVE FALSE
      OBVIOUS
    <3>1. PICK i \in 1..Len(got) : got[i] = n
      BY <2>6 DEF ToSet
    <3>2. i \in 1..Len(got') /\ Len(got) + 1 \in 1..Len(got') /\ i < Len(got) + 1
      BY <2>4, <2>5
    <3>3. got'[i] < got'[Len(got) + 1]
      BY <2>5, <3>2 DEF Input
    <3>4. n < n /\ n \in Nat
      BY <2>5, <2>6, <3>1, <3>3
    <3>5. QED
      BY <3>4
  <2>8. \A m \in pending : \A i \in 1..Len(out) : out[i].req # m
    BY DEF Replied
  <2>9. n # 0 => \A i \in 1..Len(out) : out[i].req # n
    BY <2>7 DEF Replied
  <2>10. n # 0 => n \notin pending
    BY <2>7 DEF Replied
  <2>11. CASE v \in {"refused", "protocol"}
    <3> DEFINE r == Reply(n, IdOf(j), IF v = "refused" THEN "error" ELSE "answer")
    <3>1. IdOf(j) \in {"own", "null"}
      BY DEF IdOf
    <3>2. r \in ReplyRecords /\ r.req = n /\ r.id = IdOf(Request(n))
      <4>1. n \in Nat
        BY <2>5
      <4>2. QED
        BY <1>2, <3>1, <4>1 DEF Reply, ReplyRecords
    <3>3. out' = Append(out, r) /\ dropped' = dropped /\ pending' = pending
      BY <2>1, <2>11
    <3>4. Verdict(r.req) \notin {"notification", "cancel"}
      BY <2>11, <3>2
    <3> HIDE DEF r
    <3>5. pending' = pending \ {r.req}
      <4>1. 0 \notin pending
        BY DEF Replied
      <4>2. QED
        BY <2>10, <3>2, <3>3, <4>1
    <3>6. r.id = IdOf(Request(r.req))
      BY <3>2
    <3>7. r.req # 0 => r.req \in ToSet(got') /\ \A i \in 1..Len(out) : out[i].req # r.req
      BY <2>6, <2>9, <3>2
    <3>8. ToSet(got) \subseteq ToSet(got') /\ ToSet(got') \subseteq ToSet(got) \cup {r.req}
      BY <2>6, <3>2
    <3>9. QED
      BY <1>1, <3>2, <3>3, <3>4, <3>5, <3>6, <3>7, <3>8, ReplyWritten
  <2>12. CASE v \notin {"refused", "protocol"}
    <3>1. n # 0 /\ out' = out
      BY <2>1, <2>3, <2>12
    <3>2. dropped \subseteq dropped' /\ pending \subseteq pending'
      BY <2>1
    <3>3. pending' \subseteq ToSet(got') \ {0}
      BY <2>1, <2>6, <3>1 DEF Replied
    <3>4. \A m \in pending' : Verdict(m) \in {"cmd", "tool", "arg_error"}
      BY <2>1 DEF Replied
    <3>5. \A m \in pending' : \A i \in 1..Len(out) : out[i].req # m
      BY <2>1, <2>8, <2>9, <3>1
    <3>6. \A m \in ToSet(got') \ ToSet(got) : m \in pending' \/ Verdict(m) \in {"notification", "cancel"}
      BY <2>1, <2>2, <2>6, <2>12
    <3>7. QED
      BY <1>1, <2>6, <3>1, <3>2, <3>3, <3>4, <3>5, <3>6, NothingWritten
  <2>13. QED
    BY <2>11, <2>12
<1>6. QED
  BY <1>3, <1>4, <1>5


(* Steps that neither take nor answer anything.                            *)
LEMMA RepliedKept ==
    ASSUME Replied, UNCHANGED <<sc, out, got, pending, dropped, lost>>, pc' = "exit" => pending = {}
    PROVE  Replied'
<1>1. \A n \in pending : \A i \in 1..Len(out) : out[i].req # n
  BY DEF Replied
<1>2. ToSet(got') = ToSet(got)
  OBVIOUS
<1>3. pending' \subseteq ToSet(got') \ {0} /\ \A n \in pending' : Verdict(n) \in {"cmd", "tool", "arg_error"}
  BY <1>2 DEF Replied
<1>4. QED
  BY <1>1, <1>2, <1>3, NothingWritten

\* Every request taken is still pending, has its one reply, needs none, or was
\* dropped or lost away (handle_request).
LEMMA AlwaysReplied == Spec => [](Input /\ Replied)
<1>1. Init => Replied
  <2> SUFFICES ASSUME Init PROVE Replied
    OBVIOUS
  <2>1. got = <<>> /\ out = <<>> /\ pending = {} /\ pc = "lines"
    BY DEF Init
  <2>2. ToSet(got) = {} /\ Len(out) = 0 /\ out \in Seq(ReplyRecords)
    BY <2>1, EmptySeq DEF ToSet
  <2>3. \A i \in 1..Len(out) : FALSE
    BY <2>2
  <2>4. QED
    BY <2>1, <2>2, <2>3 DEF Replied
<1>2. Input /\ Input' /\ Replied /\ [Next]_vars => Replied'
  <2> SUFFICES ASSUME Input, Input', Replied, [Next]_vars PROVE Replied'
    OBVIOUS
  <2>1. CASE NextLine
    BY <2>1, RepliedLine
  <2>2. CASE LinesDone
    BY <2>2, RepliedKept DEF LinesDone
  <2>3. CASE Fill
    <3>1. /\ UNCHANGED <<sc, got, pending, dropped, lost>> /\ pc' = "lines"
          /\ \/ out' = out
             \/ out' = Append(out, Overflow)
      BY <2>3 DEF Fill
    <3>2. CASE out' = out
      BY <3>1, <3>2, RepliedKept
    <3>3. CASE out' = Append(out, Overflow)
      <4> DEFINE r == Overflow
      <4>1. r \in ReplyRecords /\ r.req = 0
        BY DEF Overflow, ReplyRecords, Input
      <4>2. Verdict(0) = "refused"
        BY Verdicts DEF Verdict, Request
      <4>3. Verdict(r.req) \notin {"notification", "cancel"}
        BY <4>1, <4>2
      <4>4. out' = Append(out, r)
        BY <3>3
      <4>5. pending' = pending \ {r.req}
        BY <3>1, <4>1 DEF Replied
      <4> HIDE DEF r
      <4>6. QED
        BY <3>1, <4>1, <4>3, <4>4, <4>5, ReplyWritten
    <3>4. QED
      BY <3>1, <3>2, <3>3
  <2>4. CASE FillEof
    BY <2>4, RepliedKept DEF FillEof
  <2>5. ASSUME NEW n \in pending, Complete(n) PROVE Replied'
    <3> DEFINE w == IF Verdict(n) = "arg_error" THEN "toolerror"
                    ELSE IF fate.how = "throws" THEN "error" ELSE "result"
               r == [req |-> n, id |-> IdOf(Request(n)), framed |-> framed, what |-> w]
    <3>1. /\ UNCHANGED <<sc, got, dropped, lost>> /\ pc' = "lines"
          /\ pending' = pending \ {n}
      BY <2>5 DEF Complete, reader
    <3>2. CASE n \in dropped
      <4>1. out' = out
        BY <2>5, <3>2 DEF Complete
      <4>2. \A m \in pending' : \A i \in 1..Len(out) : out[i].req # m
        BY <3>1 DEF Replied
      <4>3. /\ pending' \subseteq ToSet(got') \ {0}
            /\ \A m \in pending' : Verdict(m) \in {"cmd", "tool", "arg_error"}
            /\ ToSet(got') = ToSet(got)
        BY <3>1 DEF Replied
      <4>4. QED
        BY <3>1, <3>2, <4>1, <4>2, <4>3, NothingWritten
    <3>3. CASE n \notin dropped
      <4>1. out' = Append(out, r)
        BY <2>5, <3>3, Zenon DEF Complete, Verdict
      <4>2. IdOf(Request(n)) \in {"own", "null"}
        BY DEF IdOf
      <4>3. n \in 1..Len(sc.reqs) /\ n \in ToSet(got)
        <5>1. n \in ToSet(got) /\ n # 0
          BY DEF Replied
        <5>2. \A i \in DOMAIN got : got[i] \in 0..Len(sc.reqs)
          BY SMTT(30) DEF Input
        <5>3. n \in 0..Len(sc.reqs)
          BY <5>1, <5>2 DEF ToSet
        <5>4. QED
          BY <5>1, <5>3, InputTypes
      <4>4. r \in ReplyRecords /\ r.req = n /\ r.id = IdOf(Request(n))
        <5>1. w \in {"error", "answer", "toolerror", "result"}
          OBVIOUS
        <5>2. n \in Nat /\ framed \in BOOLEAN
          BY <4>3, InputTypes DEF Input
        <5> HIDE DEF w
        <5>3. QED
          BY <4>2, <5>1, <5>2 DEF ReplyRecords
      <4> HIDE DEF r
      <4>5. Verdict(r.req) \notin {"notification", "cancel"}
        BY <4>4 DEF Replied
      <4>6. \A i \in 1..Len(out) : out[i].req # n
        BY DEF Replied
      <4>7. r.id = IdOf(Request(r.req))
        BY <4>4
      <4>8. QED
        BY <3>1, <4>1, <4>3, <4>4, <4>5, <4>6, <4>7, ReplyWritten
    <3>4. QED
      BY <3>2, <3>3
  <2>9. ASSUME NEW n \in pending, CompleteUnread(n) PROVE Replied'
    <3>1. /\ UNCHANGED <<sc, got, dropped, out>> /\ pc' = "lines"
          /\ lost' = lost \cup {n} /\ pending' = pending \ {n}
      BY <2>9 DEF CompleteUnread, reader
    <3>2. \A m \in pending' : \A i \in 1..Len(out) : out[i].req # m
      BY <3>1 DEF Replied
    <3>3. /\ pending' \subseteq ToSet(got') \ {0}
          /\ \A m \in pending' : Verdict(m) \in {"cmd", "tool", "arg_error"}
          /\ ToSet(got') = ToSet(got)
      BY <3>1 DEF Replied
    <3>4. QED
      BY <3>1, <3>2, <3>3, NothingWritten
  <2>10. CASE PollFails
    BY <2>10, RepliedKept DEF PollFails
  <2>6. ASSUME NEW n \in pending, CompleteThrows(n) PROVE Replied'
    <3>1. /\ UNCHANGED <<sc, got, dropped, out>> /\ pc' = "lines"
          /\ lost' = lost \cup pending /\ pending' = {}
      BY <2>6 DEF CompleteThrows, reader
    <3>2. QED
      BY <3>1, NothingWritten
  <2>7. CASE UNCHANGED vars
    BY <2>7, RepliedKept DEF vars, Replied
  <2>8. QED
    BY <2>1, <2>2, <2>3, <2>4, <2>5, <2>6, <2>7, <2>9, <2>10 DEF Next, Done
<1>3. QED
  BY <1>1, <1>2, AlwaysInput, PTL DEF Spec

-----------------------------------------------------------------------------
(* One error for every line that is no request. *)

(* As many errors that answer no request as lines that were none, and one  *)
(* more for a buffer that overflowed, after which nothing is read.         *)
Refused ==
    /\ Cardinality(RepliesTo(0)) =
           Cardinality({i \in 1..Len(got) : got[i] = 0}) + (IF overflowed THEN 1 ELSE 0)
    /\ overflowed \in BOOLEAN /\ (overflowed => eof)

(* A set of the first n numbers and the next one.                          *)
LEMMA OneMore ==
    ASSUME NEW n \in Nat, NEW A, A \subseteq 1..n
    PROVE  /\ IsFiniteSet(A) /\ Cardinality(A) \in Nat
           /\ Cardinality(A \cup {n + 1}) = Cardinality(A) + 1
<1>1. IsFiniteSet(1..n)
  BY FS_Interval
<1>2. IsFiniteSet(A)
  BY <1>1, FS_Subset
<1>3. n + 1 \notin A
  OBVIOUS
<1>4. QED
  BY <1>2, <1>3, FS_CardinalityType, FS_AddElement

(* The replies that answer no request, when one more reply is written.     *)
LEMMA RepliesMore ==
    ASSUME out \in Seq(ReplyRecords), NEW r \in ReplyRecords, out' = Append(out, r)
    PROVE  /\ Cardinality(RepliesTo(0)) \in Nat
           /\ Cardinality(RepliesTo(0)') = Cardinality(RepliesTo(0)) + IF r.req = 0 THEN 1 ELSE 0
<1>1. /\ Len(out) \in Nat /\ Len(out') = Len(out) + 1
      /\ \A i \in 1..Len(out) : out'[i] = out[i]
      /\ out'[Len(out) + 1] = r
  BY AppendProperties, LenProperties
<1>2. RepliesTo(0) \subseteq 1..Len(out)
  BY DEF RepliesTo
<1>3. RepliesTo(0)' = {i \in 1..Len(out') : out'[i].req = 0}
  BY DEF RepliesTo
<1>4. 1..Len(out') = 1..Len(out) \cup {Len(out) + 1}
  BY <1>1
<1>5. RepliesTo(0)' = IF r.req = 0 THEN RepliesTo(0) \cup {Len(out) + 1} ELSE RepliesTo(0)
  <2>1. ASSUME NEW i \in 1..Len(out') PROVE i = Len(out) + 1 \/ i \in 1..Len(out)
    BY <1>4
  <2>2. QED
    BY <1>1, <1>3, <1>4, <2>1 DEF RepliesTo
<1>6. /\ Cardinality(RepliesTo(0)) \in Nat
      /\ Cardinality(RepliesTo(0) \cup {Len(out) + 1}) = Cardinality(RepliesTo(0)) + 1
  BY <1>1, <1>2, OneMore
<1>7. CASE r.req = 0
  BY <1>5, <1>6, <1>7
<1>8. CASE r.req # 0
  <2>1. RepliesTo(0)' = RepliesTo(0)
    BY <1>5, <1>8
  <2>2. Cardinality(RepliesTo(0)') = Cardinality(RepliesTo(0))
    BY <2>1
  <2>3. QED
    BY <1>6, <1>8, <2>2
<1>9. QED
  BY <1>7, <1>8

(* The lines that are no requests, when one more line is taken.            *)
LEMMA LinesMore ==
    ASSUME got \in Seq(0..Len(sc.reqs)), NEW n \in 0..Len(sc.reqs), got' = Append(got, n)
    PROVE  LET Z == {i \in 1..Len(got) : got[i] = 0}
           IN  /\ Cardinality(Z) \in Nat
               /\ Cardinality(Z') = Cardinality(Z) + IF n = 0 THEN 1 ELSE 0
<1> DEFINE Z == {i \in 1..Len(got) : got[i] = 0}
<1>1. /\ Len(got) \in Nat /\ Len(got') = Len(got) + 1
      /\ \A i \in 1..Len(got) : got'[i] = got[i]
      /\ got'[Len(got) + 1] = n
  BY AppendProperties, LenProperties
<1>2. 1..Len(got') = 1..Len(got) \cup {Len(got) + 1}
  BY <1>1
<1>3. Z' = IF n = 0 THEN Z \cup {Len(got) + 1} ELSE Z
  BY <1>1, <1>2
<1>4. Z \subseteq 1..Len(got)
  OBVIOUS
<1> HIDE DEF Z
<1>5. Cardinality(Z) \in Nat /\ Cardinality(Z \cup {Len(got) + 1}) = Cardinality(Z) + 1
  BY <1>1, <1>4, OneMore
<1>6. Cardinality(Z') = Cardinality(Z) + IF n = 0 THEN 1 ELSE 0
  BY <1>3, <1>5
<1>7. QED
  BY <1>5, <1>6 DEF Z

(* Only requests of the scenario are pending.                              *)
LEMMA PendingKnown ==
    ASSUME Input, Replied
    PROVE  pending \subseteq 1..Len(sc.reqs)
<1>1. \A i \in DOMAIN got : got[i] \in 0..Len(sc.reqs)
  BY DEF Input
<1>2. pending \subseteq ToSet(got) \ {0} /\ Len(sc.reqs) \in Nat
  BY InputTypes DEF Replied
<1>3. QED
  BY <1>1, <1>2 DEF ToSet

(* Each line that is no request is refused once, and so is the overflow.   *)
LEMMA AlwaysRefused == Spec => []Refused
<1>1. Init => Refused
  <2> SUFFICES ASSUME Init PROVE Refused
    OBVIOUS
  <2>1. got = <<>> /\ out = <<>> /\ overflowed = FALSE
    BY DEF Init
  <2>2. RepliesTo(0) = {} /\ {i \in 1..Len(got) : got[i] = 0} = {}
    BY <2>1 DEF RepliesTo
  <2>3. Cardinality({}) = 0
    BY FS_EmptySet
  <2>4. Cardinality(RepliesTo(0)) = 0
    BY <2>2, <2>3, Zenon
  <2>5. Cardinality({i \in 1..Len(got) : got[i] = 0}) = 0
    BY <2>2, <2>3, Zenon
  <2>6. overflowed \in BOOLEAN /\ (overflowed => eof) /\ (IF overflowed THEN 1 ELSE 0) = 0
    BY <2>1
  <2>7. QED
    <3>1. 0 = 0 + 0
      OBVIOUS
    <3>2. QED
      BY <2>4, <2>5, <2>6, <3>1, Zenon DEF Refused
<1>2. Input /\ Input' /\ Replied /\ Refused /\ [Next]_vars => Refused'
  <2> SUFFICES ASSUME Input, Input', Replied, Refused, [Next]_vars PROVE Refused'
    OBVIOUS
  <2>1. ASSUME UNCHANGED <<out, got, overflowed>>, eof' = eof \/ eof' = TRUE PROVE Refused'
    BY <2>1 DEF Refused, RepliesTo
  <2>2. ASSUME NEW r \in ReplyRecords, r.req # 0, out' = Append(out, r), UNCHANGED <<got, overflowed, eof>>
        PROVE  Refused'
    <3>1. Cardinality(RepliesTo(0)') = Cardinality(RepliesTo(0))
      BY <2>2, RepliesMore DEF Replied
    <3>2. QED
      BY <2>2, <3>1 DEF Refused
  <2>3. CASE NextLine
    <3>1. UNCHANGED <<sc, overflowed, eof>> /\ framed' \in BOOLEAN
      BY <2>3 DEF NextLine, Input
    <3>2. PICK f \in BOOLEAN :
                \/ get_line(f).line = <<>> /\ UNCHANGED <<got, pending, dropped, out>>
                \/ get_line(f).line # <<>> /\ Handle(RequestIn(get_line(f).line))
      BY <2>3, LineTaken DEF Input
    <3>3. ASSUME NEW n, Handle(n) PROVE Refused'
      <4> DEFINE j == Request(n)
                 v == Verdict(n)
      <4>1. /\ got' = Append(got, n)
            /\ out' = IF v \in {"refused", "protocol"}
                      THEN Append(out, Reply(n, IdOf(j), IF v = "refused" THEN "error" ELSE "answer"))
                      ELSE out
        BY <3>3, Zenon DEF Handle, Verdict
      <4>2. n = 0 => v = "refused"
        BY Verdicts DEF Verdict, Request
      <4>3. n \in 0..Len(sc.reqs)
        BY <3>1, <4>1, TakenKnown
      <4>4. LET Z == {i \in 1..Len(got) : got[i] = 0}
            IN  /\ Cardinality(Z) \in Nat
                /\ Cardinality(Z') = Cardinality(Z) + IF n = 0 THEN 1 ELSE 0
        BY <4>1, <4>3, LinesMore DEF Input
      <4>5. CASE v \in {"refused", "protocol"}
        <5> DEFINE r == Reply(n, IdOf(j), IF v = "refused" THEN "error" ELSE "answer")
        <5>1. IdOf(j) \in {"own", "null"}
          BY DEF IdOf
        <5>2. r \in ReplyRecords /\ r.req = n
          <6>1. n \in Nat
            BY <4>3
          <6>2. QED
            BY <3>1, <5>1, <6>1 DEF Reply, ReplyRecords
        <5>3. out' = Append(out, r)
          BY <4>1, <4>5
        <5> HIDE DEF r
        <5>4. /\ Cardinality(RepliesTo(0)) \in Nat
              /\ Cardinality(RepliesTo(0)') = Cardinality(RepliesTo(0)) + IF n = 0 THEN 1 ELSE 0
          BY <5>2, <5>3, RepliesMore DEF Replied
        <5>5. QED
          BY <3>1, <4>4, <5>4 DEF Refused
      <4>6. CASE v \notin {"refused", "protocol"}
        <5>1. n # 0 /\ out' = out
          BY <4>1, <4>2, <4>6
        <5>2. QED
          BY <3>1, <4>4, <5>1 DEF Refused, RepliesTo
      <4>7. QED
        BY <4>5, <4>6
    <3>4. QED
      BY <2>1, <3>1, <3>2, <3>3
  <2>4. CASE Fill
    <3>1. ~eof /\ got' = got
      BY <2>4 DEF Fill
    <3>2. ~overflowed
      BY <3>1 DEF Refused
    <3>3. \/ out' = out /\ overflowed' = FALSE
          \/ out' = Append(out, Overflow) /\ overflowed' = TRUE /\ eof' = TRUE
      BY <2>4, Zenon DEF Fill
    <3>4. CASE out' = out /\ overflowed' = FALSE
      BY <3>1, <3>2, <3>4 DEF Refused, RepliesTo
    <3>5. CASE out' = Append(out, Overflow) /\ overflowed' = TRUE /\ eof' = TRUE
      <4>1. Overflow \in ReplyRecords /\ Overflow.req = 0
        BY DEF Overflow, ReplyRecords, Input
      <4>2. /\ Cardinality(RepliesTo(0)) \in Nat
            /\ Cardinality(RepliesTo(0)') = Cardinality(RepliesTo(0)) + 1
        BY <3>5, <4>1, RepliesMore DEF Replied
      <4>3. Cardinality({i \in 1..Len(got) : got[i] = 0}) = Cardinality(RepliesTo(0))
        <5>1. Len(got) \in Nat
          BY LenProperties DEF Input
        <5>2. Cardinality({i \in 1..Len(got) : got[i] = 0}) \in Nat
          BY <5>1, OneMore
        <5>3. QED
          BY <3>2, <5>2 DEF Refused
      <4>4. QED
        BY <3>1, <3>5, <4>2, <4>3 DEF Refused
    <3>6. QED
      BY <3>3, <3>4, <3>5
  <2>5. ASSUME NEW n \in pending, Complete(n) PROVE Refused'
    <3> DEFINE w == IF Verdict(n) = "arg_error" THEN "toolerror"
                    ELSE IF fate.how = "throws" THEN "error" ELSE "result"
               r == [req |-> n, id |-> IdOf(Request(n)), framed |-> framed, what |-> w]
    <3>1. UNCHANGED <<got, overflowed, eof>> /\ (out' = out \/ out' = Append(out, r))
      BY <2>5, Zenon DEF Complete, Verdict, reader
    <3>2. n \in Nat /\ n # 0
      <4>1. n \in 1..Len(sc.reqs) /\ Len(sc.reqs) \in Nat
        BY PendingKnown, InputTypes
      <4>2. QED
        BY <4>1
    <3>3. IdOf(Request(n)) \in {"own", "null"} /\ w \in {"error", "answer", "toolerror", "result"}
      BY DEF IdOf
    <3>4. framed \in BOOLEAN
      BY DEF Input
    <3> HIDE DEF w
    <3>5. r \in ReplyRecords /\ r.req # 0
      BY <3>2, <3>3, <3>4 DEF ReplyRecords
    <3> HIDE DEF r
    <3>6. QED
      BY <2>1, <2>2, <3>1, <3>5
  <2>6. ASSUME NEW n \in pending, CompleteUnread(n) \/ CompleteThrows(n) PROVE Refused'
    BY <2>1, <2>6 DEF CompleteUnread, CompleteThrows, reader
  <2>7. CASE LinesDone \/ FillEof \/ PollFails \/ UNCHANGED vars
    BY <2>1, <2>7 DEF LinesDone, FillEof, PollFails, vars, reader
  <2>8. QED
    BY <2>3, <2>4, <2>5, <2>6, <2>7 DEF Next, Done
<1>3. QED
  BY <1>1, <1>2, AlwaysReplied, PTL DEF Spec

(* Whatever a client sends and in whatever pieces it arrives: each request *)
(* taken from the input has at most one reply, with its own id; exactly    *)
(* one at the end, unless it is a notification, was cancelled or was in    *)
(* flight when serializing threw; and a call is dispatched exactly when    *)
(* the published schema admits it, but for the differences named.          *)
THEOREM ProtocolAlwaysKept == Spec => []ProtocolKept
<1>1. Input /\ Replied /\ Refused => AnswersMatch
  <2> SUFFICES ASSUME Input, Replied, Refused, NEW n \in ToSet(got) \ {0}
               PROVE  /\ Cardinality(RepliesTo(n)) <= 1
                      /\ \A i \in RepliesTo(n) : out[i].id = IdOf(Request(n))
                      /\ Silent(n) => RepliesTo(n) = {}
                      /\ pc = "exit" /\ ~Silent(n) /\ n \notin dropped \cup lost => RepliesTo(n) # {}
    BY Zenon DEF AnswersMatch, Refused
  <2>1. \A i, k \in RepliesTo(n) : i = k
    BY DEF RepliesTo, Replied
  <2>2. Cardinality(RepliesTo(n)) <= 1
    <3>1. CASE RepliesTo(n) = {}
      <4>1. Cardinality({}) = 0 /\ 0 <= 1
        BY FS_EmptySet
      <4>2. QED
        BY <3>1, <4>1
    <3>2. CASE RepliesTo(n) # {}
      <4>1. PICK i \in RepliesTo(n) : TRUE
        BY <3>2
      <4>2. RepliesTo(n) = {i}
        BY <2>1, <4>1
      <4>3. Cardinality(RepliesTo(n)) = 1
        BY <4>2, FS_Singleton, Zenon
      <4>4. QED
        BY <4>3
    <3>3. QED
      BY <3>1, <3>2
  <2>3. \A i \in RepliesTo(n) : out[i].id = IdOf(Request(n))
    BY DEF RepliesTo, Replied
  <2>4. Silent(n) => RepliesTo(n) = {}
    BY DEF RepliesTo, Replied, Silent, Verdict
  <2>5. pc = "exit" /\ ~Silent(n) /\ n \notin dropped \cup lost => RepliesTo(n) # {}
    BY DEF RepliesTo, Replied, Silent, Verdict
  <2>6. QED
    BY <2>2, <2>3, <2>4, <2>5
<1>2. Input => SchemaKept
  <2> SUFFICES ASSUME Input, NEW n \in ToSet(got) \ {0}, Request(n).name \in Tools
               PROVE  AgreesWithSchema(Request(n).name, Request(n).args)
    BY DEF SchemaKept
  <2>1. n \in 1..Len(sc.reqs)
    <3>1. \A i \in DOMAIN got : got[i] \in 0..Len(sc.reqs)
      BY DEF Input
    <3>2. n \in 0..Len(sc.reqs)
      BY <3>1 DEF ToSet
    <3>3. QED
      BY <3>2, InputTypes
  <2>2. Request(n) = sc.reqs[n]
    BY <2>1 DEF Request
  <2>3. Request(n).args \in [DOMAIN Checks[Request(n).name] -> Classes]
    BY <2>1, <2>2, ScenarioAssumption DEF Input
  <2>4. QED
    BY <2>3, Agreement
<1>3. QED
  BY <1>1, <1>2, AlwaysReplied, AlwaysRefused, PTL DEF ProtocolKept


-----------------------------------------------------------------------------
(* The search for line ends. *)

(* What has been searched holds no newline, as long as lines end in them;  *)
(* once input is framed the mark is no longer used.                        *)
Searched ==
    /\ {overflowed, detected, early} \subseteq BOOLEAN
    /\ pc \in {"lines", "poll", "exit", "failed"}
    /\ framed => detected
    /\ ~framed => scanned <= Len(buf)
    /\ ScannedClean
    /\ dropped \subseteq 1..Len(sc.reqs) /\ lost \subseteq 1..Len(sc.reqs)

(* detect_mode decides once, and newlines are the mode until it has.       *)
LEMMA ModeDetected ==
    ASSUME Input, Searched, DetectMode
    PROVE  /\ {detected', early'} \subseteq BOOLEAN /\ framed' = ModeNow
           /\ framed' => detected'
           /\ framed => framed'
<1>1. detected \in BOOLEAN /\ early \in BOOLEAN /\ framed \in BOOLEAN
  BY DEF Searched, Input
<1>2. detected' \in BOOLEAN
  BY <1>1 DEF DetectMode
<1>3. early' \in BOOLEAN
  BY <1>1, Zenon DEF DetectMode
<1>4. framed' = ModeNow
  BY DEF DetectMode
<1>5. CASE DetectsNow
  BY <1>2, <1>3, <1>4, <1>5 DEF DetectMode, DetectsNow, Searched
<1>6. CASE ~DetectsNow
  BY <1>1, <1>2, <1>3, <1>4, <1>6 DEF DetectMode, ModeNow, Searched
<1>7. QED
  BY <1>5, <1>6

(* Taking a line: the mark was before its end, so the search starts over.  *)
LEMMA SearchedLine ==
    ASSUME Input, Input', Searched, Replied, NextLine
    PROVE  Searched'
<1>1. /\ UNCHANGED <<sc, overflowed, pc, lost>>
      /\ DetectMode /\ has_line(ModeNow)
  BY DEF NextLine
<1>2. /\ {detected', early'} \subseteq BOOLEAN /\ framed' = ModeNow
      /\ framed' => detected'
      /\ framed => framed'
  BY <1>1, ModeDetected
<1>3. PICK f \in BOOLEAN :
          /\ has_line(f) /\ framed' = f
          /\ scanned' = get_line(f).scanned
          /\ \/ UNCHANGED dropped
             \/ Handle(RequestIn(get_line(f).line))
  BY LineTaken, Zenon DEF Input
<1>4. dropped' \subseteq 1..Len(sc.reqs)
  <2>1. CASE UNCHANGED dropped
    BY <2>1 DEF Searched
  <2>2. ASSUME NEW n, Handle(n) PROVE dropped' \subseteq 1..Len(sc.reqs)
    <3>1. dropped' \subseteq dropped \cup pending
      BY <2>2 DEF Handle
    <3>2. QED
      BY <3>1, PendingKnown DEF Searched
  <2>3. QED
    BY <1>3, <2>1, <2>2
<1>5. ~f => scanned' = 0
  <2> SUFFICES ASSUME ~f PROVE scanned' = 0
    OBVIOUS
  <2>1. f = FALSE
    OBVIOUS
  <2>2. Newlines # {} /\ scanned' = Rescan(Min(Newlines))
    BY <1>3, <2>1 DEF has_line, get_line
  <2>3. scanned \in Nat /\ Len(buf) \in Nat
    BY InputTypes DEF Input
  <2>4. Newlines \subseteq scanned + 1..Len(buf)
    BY DEF Newlines
  <2>5. Newlines \subseteq Nat
    BY <2>3, <2>4
  <2>6. PICK p \in Newlines : p = Min(Newlines)
    BY <2>2, <2>5, LeastIn
  <2>7. p \in Nat /\ scanned < p
    BY <2>3, <2>4
  <2>8. scanned' = Rescan(p)
    BY <2>2, <2>6
  <2>9. QED
    BY <2>3, <2>7, <2>8 DEF Rescan
<1>6. ~framed' => scanned' <= Len(buf')
  <2>1. PICK b \in Nat, e \in Nat : InBuffer(b, e)'
    BY DEF Input
  <2>2. /\ sc.wire \in Seq(Units) /\ Len(sc.wire) \in Nat
        /\ b \in 0..e /\ e \in 0..Len(sc.wire) /\ buf' = SubSeq(sc.wire, b + 1, e)
    BY <1>1, <2>1, InputTypes DEF InBuffer
  <2>3. Len(buf') \in Nat /\ Len(buf') >= 0
    BY <2>2, Stretch
  <2>4. QED
    BY <1>3, <1>5, <2>3
<1>7. ScannedClean'
  BY <1>3, <1>5 DEF ScannedClean
<1>8. QED
  BY <1>1, <1>2, <1>4, <1>6, <1>7 DEF Searched

(* No line is left: all of the buffer has been searched.                   *)
LEMMA SearchedAll ==
    ASSUME Input, Searched, LinesDone
    PROVE  Searched'
<1>1. /\ UNCHANGED <<sc, overflowed, dropped, lost, buf>> /\ pc' \in {"exit", "poll"}
      /\ DetectMode /\ ~has_line(ModeNow)
      /\ scanned' = IF ModeNow THEN scanned ELSE Len(buf)
  BY DEF LinesDone
<1>2. /\ {detected', early'} \subseteq BOOLEAN /\ framed' = ModeNow
      /\ framed' => detected'
      /\ framed => framed'
  BY <1>1, ModeDetected
<1>3. Len(buf) \in Nat /\ scanned \in Nat
  BY InputTypes DEF Input
<1>4. ~framed' => scanned' <= Len(buf')
  BY <1>1, <1>2, <1>3
<1>5. ASSUME ~framed', NEW i \in 1..scanned' PROVE buf'[i] # Nl
  <2>1. ~framed /\ i \in 1..Len(buf) /\ Newlines = {}
    BY <1>1, <1>2, <1>5 DEF has_line
  <2>2. CASE i <= scanned
    BY <1>1, <1>3, <2>1, <2>2 DEF Searched, ScannedClean
  <2>3. CASE i > scanned
    BY <1>1, <1>3, <2>1, <2>3 DEF Newlines
  <2>4. QED
    BY <1>3, <2>1, <2>2, <2>3
<1>6. ScannedClean'
  BY <1>5 DEF ScannedClean
<1>7. QED
  BY <1>1, <1>2, <1>4, <1>6 DEF Searched

(* What arrives comes after what has been searched.                        *)
LEMMA SearchedFill ==
    ASSUME Input, Input', Searched, Fill
    PROVE  Searched'
<1>1. /\ UNCHANGED <<sc, scanned, detected, framed, early, dropped, lost>> /\ pc' = "lines"
      /\ overflowed' \in BOOLEAN
  BY DEF Fill
<1>2. PICK b \in Nat, e \in Nat : InBuffer(b, e)
  BY DEF Input
<1>3. /\ buf \in Seq(Units) /\ sc.wire \in Seq(Units) /\ Len(sc.wire) \in Nat /\ Len(buf) \in Nat
      /\ e <= Len(sc.wire) /\ scanned \in Nat
      /\ wire = SubSeq(sc.wire, e + 1, Len(sc.wire))
  BY <1>2, InputTypes DEF InBuffer, Fill, Input
<1>4. wire \in Seq(Units) /\ Len(wire) \in Nat
  BY <1>2, <1>3, Stretch
<1>5. PICK k \in 1..Len(wire) : \E r \in IF k <= MaxBuf - Len(buf) THEN {k} ELSE 0..MaxBuf - Len(buf) :
                                    buf' = buf \o SubSeq(wire, 1, r)
  BY Zenon DEF Fill
<1>6. MaxBuf - Len(buf) \in Nat /\ k \in Nat /\ k <= Len(wire)
  BY <1>3, <1>4, TransportAssumption DEF Input
<1>7. PICK r \in Nat : r <= Len(wire) /\ buf' = buf \o SubSeq(wire, 1, r)
  <2>1. CASE k <= MaxBuf - Len(buf)
    BY <1>5, <1>6, <2>1
  <2>2. CASE ~(k <= MaxBuf - Len(buf))
    <3>1. PICK r \in 0..MaxBuf - Len(buf) : buf' = buf \o SubSeq(wire, 1, r)
      BY <1>5, <2>2
    <3>2. r \in Nat /\ r <= Len(wire)
      BY <1>4, <1>6, <2>2
    <3>3. QED
      BY <3>1, <3>2
  <2>3. QED
    BY <2>1, <2>2
<1>8. /\ SubSeq(wire, 1, r) \in Seq(Units) /\ Len(SubSeq(wire, 1, r)) \in Nat
  <2>1. SubSeq(wire, 0 + 1, r) \in Seq(Units) /\ Len(SubSeq(wire, 0 + 1, r)) = r - 0
    BY <1>4, <1>7, Stretch
  <2>2. 0 + 1 = 1 /\ r - 0 \in Nat
    BY <1>6
  <2>3. QED
    BY <2>1, <2>2
<1>9. /\ Len(buf') >= Len(buf) /\ Len(buf') \in Nat
      /\ \A i \in 1..Len(buf) : buf'[i] = buf[i]
  BY <1>3, <1>7, <1>8, ConcatProperties
<1>10. ~framed' => scanned' <= Len(buf')
  BY <1>1, <1>3, <1>9 DEF Searched
<1>11. ScannedClean'
  <2> SUFFICES ASSUME ~framed, NEW i \in 1..scanned PROVE buf'[i] # Nl
    BY <1>1 DEF ScannedClean
  <2>1. i \in 1..Len(buf)
    BY <1>3 DEF Searched
  <2>2. QED
    BY <1>9, <2>1 DEF Searched, ScannedClean
<1>12. QED
  BY <1>1, <1>10, <1>11 DEF Searched

(* Which results there are (enforce_result_budget).                        *)
LEMMA FateKnown ==
    ASSUME Serialized
    PROVE  fate.how \in {"whole", "minimal", "cut", "emptied", "throws"}
BY Zenon DEF Serialized, Enforce

(* Whatever the wire and its chunks: every variable of the transport keeps *)
(* its type, the buffer its bound, and the incremental search for line     *)
(* ends never passes over a newline (LineReader::has_line).                *)
THEOREM ReaderScansClean == Spec => [](TypeOK /\ ScannedClean)
<1>1. Init => Searched
  <2> SUFFICES ASSUME Init PROVE Searched
    OBVIOUS
  <2>1. /\ scanned = 0 /\ buf = <<>> /\ dropped = {} /\ lost = {} /\ pc = "lines"
        /\ {overflowed, detected, early} \subseteq BOOLEAN /\ framed = FALSE
    BY DEF Init
  <2>2. Len(buf) = 0
    BY <2>1
  <2>3. QED
    BY <2>1, <2>2 DEF Searched, ScannedClean
<1>2. Input /\ Replied /\ Input' /\ Searched /\ [Next]_vars => Searched'
  <2> SUFFICES ASSUME Input, Replied, Input', Searched, [Next]_vars PROVE Searched'
    OBVIOUS
  <2>1. CASE NextLine
    BY <2>1, SearchedLine
  <2>2. CASE LinesDone
    BY <2>2, SearchedAll
  <2>3. CASE Fill
    BY <2>3, SearchedFill
  <2>4. CASE FillEof
    BY <2>4 DEF FillEof, Searched, ScannedClean
  <2>5. ASSUME NEW n \in pending, Complete(n) \/ CompleteUnread(n) \/ CompleteThrows(n) PROVE Searched'
    <3>1. /\ UNCHANGED <<sc, reader, dropped>> /\ pc' = "lines"
          /\ lost' \subseteq lost \cup pending
      BY <2>5 DEF Complete, CompleteUnread, CompleteThrows
    <3>2. lost' \subseteq 1..Len(sc.reqs)
      BY <3>1, PendingKnown DEF Searched
    <3>3. UNCHANGED <<buf, scanned, overflowed, detected, framed, early>>
      BY <3>1 DEF reader
    <3>4. QED
      BY <3>1, <3>2, <3>3 DEF Searched, ScannedClean
  <2>6. CASE PollFails \/ UNCHANGED vars
    <3>1. UNCHANGED <<sc, buf, scanned, overflowed, detected, framed, early, dropped, lost>>
      BY <2>6 DEF PollFails, vars, reader
    <3>2. pc' = "failed" \/ pc' = pc
      BY <2>6 DEF PollFails, vars
    <3>3. QED
      BY <3>1, <3>2, Zenon DEF Searched, ScannedClean
  <2>7. QED
    BY <2>1, <2>2, <2>3, <2>4, <2>5, <2>6 DEF Next, Done
<1>3. Input /\ Replied /\ Searched /\ Serialized => TypeOK /\ ScannedClean
  <2> SUFFICES ASSUME Input, Replied, Searched, Serialized PROVE TypeOK /\ ScannedClean
    OBVIOUS
  <2>1. pending \subseteq 1..Len(sc.reqs)
    BY PendingKnown
  <2>2. fate.how \in {"whole", "minimal", "cut", "emptied", "throws"}
    BY FateKnown
  <2>3. QED
    BY <2>1, <2>2 DEF TypeOK, Input, Searched
<1>4. QED
  BY <1>1, <1>2, <1>3, AlwaysReplied, AlwaysSerialized, PTL DEF Spec

=============================================================================
