--------------------------- MODULE ChatVerdictsProofs ---------------------------
(***************************************************************************)
(* The chats' rows keep their shape and their verdicts whoever writes      *)
(* them; a classifier's run judges what it was called for; an extractor's  *)
(* run passes over nothing, loses little and takes no text away.  All for  *)
(* any number of chats, messages, runs and verdicts and any batch size.    *)
(***************************************************************************)
EXTENDS Preflight, MediaExtract, SequenceTheorems, FiniteSetTheorems, WellFoundedInduction, TLAPS

(* ---------------------------- sets of numbers -------------------------- *)

\* Every set of numbers has a least one.
LEMMA SomeLeast ==
  ASSUME NEW S, S \subseteq Nat, S # {}
  PROVE  \E x \in S : \A y \in S : x <= y
<1> DEFINE R == OpToRel(<, Nat)
<1>1. IsWellFoundedOn(R, Nat)
  BY NatLessThanWellFounded
<1>2. \A x, y \in Nat : x < y => <<x, y>> \in R
  BY DEF OpToRel
<1> HIDE DEF R
<1>3. \E x \in S : \A y \in S : ~(<<y, x>> \in R)
  BY <1>1, WFMin
<1>4. PICK x \in S : \A y \in S : ~(<<y, x>> \in R)
  BY <1>3
<1>5. ASSUME NEW y \in S PROVE x <= y
  <2>1. x \in Nat /\ y \in Nat
    OBVIOUS
  <2>2. ~(y < x)
    BY <1>2, <1>4, <2>1
  <2> QED BY <2>1, <2>2
<1> QED BY <1>5

LEMMA LeastIsLeast ==
  ASSUME NEW S, S \subseteq Nat, S # {}
  PROVE  Least(S) \in S /\ \A y \in S : Least(S) <= y
BY SomeLeast DEF Least

\* What is before or after an element of a set of numbers.
LEMMA BeforeAfter ==
  ASSUME NEW S, S \subseteq Nat, NEW x \in S, NEW y \in S
  PROVE  /\ Before(S, x) \subseteq S /\ After(S, x) \subseteq S
         /\ x <= y => Before(S, x) \subseteq Before(S, y)
         /\ x < y => After(S, y) \subseteq After(S, x) /\ y \in After(S, x) /\ y \notin After(S, y)
         /\ (\A z \in S : x <= z) => Before(S, x) = {}
<1>0. x \in Int /\ y \in Int
  OBVIOUS
<1>1. Before(S, x) \subseteq S /\ After(S, x) \subseteq S
  BY DEF Before, After
<1>2. ASSUME x <= y, NEW z \in Before(S, x) PROVE z \in Before(S, y)
  <2>1. z \in S /\ z \in Int /\ z < x
    BY DEF Before
  <2>2. z < y
    BY <1>0, <1>2, <2>1
  <2> QED BY <2>1, <2>2 DEF Before
<1>3. ASSUME x < y, NEW z \in After(S, y) PROVE z \in After(S, x)
  <2>1. z \in S /\ z \in Int /\ z > y
    BY DEF After
  <2>2. z > x
    BY <1>0, <1>3, <2>1
  <2> QED BY <2>1, <2>2 DEF After
<1>4. ASSUME x < y PROVE y \in After(S, x) /\ y \notin After(S, y)
  <2>1. y > x /\ ~(y > y)
    BY <1>0, <1>4
  <2> QED BY <2>1 DEF After
<1>5. ASSUME \A z \in S : x <= z, NEW z \in Before(S, x) PROVE FALSE
  <2>1. z \in S /\ z \in Int /\ z < x
    BY DEF Before
  <2>2. x <= z
    BY <1>5, <2>1
  <2> QED BY <1>0, <2>1, <2>2
<1> QED BY <1>1, <1>2, <1>3, <1>4, <1>5

\* The element with the fewest after it.
LEMMA GreatestIsGreatest ==
  ASSUME NEW S, S \subseteq Nat, IsFiniteSet(S), S # {}
  PROVE  Greatest(S) \in S /\ \A y \in S : y <= Greatest(S)
<1> DEFINE N == {Cardinality(After(S, x)) : x \in S}
<1>1. \A x \in S : IsFiniteSet(After(S, x)) /\ Cardinality(After(S, x)) \in Nat
  <2> TAKE x \in S
  <2>1. After(S, x) \subseteq S
    BY DEF After
  <2> QED BY <2>1, FS_Subset, FS_CardinalityType
<1>2. N \subseteq Nat /\ N # {}
  BY <1>1
<1>3. PICK n \in N : \A k \in N : n <= k
  <2> HIDE DEF N
  <2> QED BY <1>2, SomeLeast
<1>4. PICK x \in S : \A y \in S : Cardinality(After(S, x)) <= Cardinality(After(S, y))
  BY <1>3
<1>5. ASSUME NEW y \in S, y > x PROVE FALSE
  <2>0. x < y
    BY <1>5
  <2>1. After(S, y) \subseteq After(S, x) /\ y \in After(S, x) /\ y \notin After(S, y)
    BY <2>0, BeforeAfter
  <2>2. Cardinality(After(S, y)) <= Cardinality(After(S, x))
        /\ (Cardinality(After(S, y)) = Cardinality(After(S, x)) => After(S, y) = After(S, x))
    BY <1>1, <2>1, FS_Subset
  <2> QED BY <1>1, <1>4, <2>1, <2>2
<1>6. \A y \in S : y <= x
  BY <1>5
<1> QED BY <1>6 DEF Greatest

\* A batch is the beginning of what there is, and empty only if nothing is.
LEMMA BatchIsBeginning ==
  ASSUME NEW S \in SUBSET Messages, NEW B, B = {m \in S : Cardinality(Before(S, m)) < BatchSize}
  PROVE  /\ B = {} => S = {}
         /\ B # {} => /\ Greatest(B) \in B
                      /\ \A m \in S : m <= Greatest(B) => m \in B
<1>1. IsFiniteSet(S) /\ S \subseteq Nat /\ IsFiniteSet(B) /\ B \subseteq Nat
  BY VerdictAssumption, FS_Subset
<1>2. ASSUME S # {} PROVE B # {}
  <2>1. Least(S) \in S /\ \A y \in S : Least(S) <= y
    BY <1>1, <1>2, LeastIsLeast
  <2>2. Before(S, Least(S)) = {}
    BY <1>1, <2>1, BeforeAfter
  <2>3. Cardinality(Before(S, Least(S))) < BatchSize
    BY <2>2, FS_EmptySet, MediaAssumption
  <2> QED BY <2>1, <2>3
<1>3. ASSUME B # {} PROVE /\ Greatest(B) \in B
                          /\ \A m \in S : m <= Greatest(B) => m \in B
  <2>1. Greatest(B) \in B
    BY <1>1, <1>3, GreatestIsGreatest
  <2>2. ASSUME NEW m \in S, m <= Greatest(B) PROVE m \in B
    <3>1. Before(S, m) \subseteq Before(S, Greatest(B)) /\ Before(S, Greatest(B)) \subseteq S
      BY <1>1, <2>1, <2>2, BeforeAfter
    <3>2. /\ IsFiniteSet(Before(S, Greatest(B)))
          /\ Cardinality(Before(S, m)) <= Cardinality(Before(S, Greatest(B)))
      BY <1>1, <3>1, FS_Subset
    <3>3. Cardinality(Before(S, Greatest(B))) < BatchSize
      BY <2>1
    <3>4. Cardinality(Before(S, m)) \in Nat /\ Cardinality(Before(S, Greatest(B))) \in Nat
      BY <3>1, <3>2, FS_Subset, FS_CardinalityType
    <3> QED BY <3>2, <3>3, <3>4, MediaAssumption
  <2> QED BY <2>1, <2>2
<1> QED BY <1>2, <1>3

(* ------------------------------ the tables ----------------------------- *)

Rows == Seq(Row)

\* Three versions: a history is a sequence of rows with one of each at most.
LEMMA ThreeVersions == Cardinality(Versions) = 3
<1>1. IsFiniteSet({}) /\ Cardinality({}) = 0
  BY FS_EmptySet
<1>2. IsFiniteSet({"legacy"}) /\ Cardinality({"legacy"}) = 1
  BY FS_Singleton
<1>3. {"legacy"} \cup {"preflight"} = {"legacy", "preflight"} /\ "preflight" \notin {"legacy"}
  OBVIOUS
<1>4. IsFiniteSet({"legacy", "preflight"}) /\ Cardinality({"legacy", "preflight"}) = 2
  BY <1>2, <1>3, FS_AddElement
<1>5. {"legacy", "preflight"} \cup {"full"} = Versions /\ "full" \notin {"legacy", "preflight"}
  BY DEF Versions
<1> QED BY <1>4, <1>5, FS_AddElement

LEMMA HistoryIsRows == \A s \in History : s \in Rows /\ DOMAIN s = 1..Len(s) /\ Len(s) \in Nat
<1> SUFFICES ASSUME NEW s \in History PROVE s \in Rows /\ DOMAIN s = 1..Len(s) /\ Len(s) \in Nat
  OBVIOUS
<1>1. PICK n \in 0..3 : s \in [1..n -> Row]
  BY ThreeVersions DEF History
<1>2. s \in Rows
  BY <1>1, IsASeq DEF Rows
<1> QED BY <1>2, LenProperties DEF Rows

LEMMA RowsAreHistory ==
  ASSUME NEW s \in Rows, OneOfEach(s)
  PROVE  s \in History
<1>1. Len(s) \in Nat /\ DOMAIN s = 1..Len(s) /\ s \in [1..Len(s) -> Row]
  BY LenProperties DEF Rows
<1>2. ASSUME Len(s) >= 4 PROVE FALSE
  <2>1. \A i \in {1, 2, 3, 4} : i \in DOMAIN s /\ s[i] \in Row
    BY <1>1, <1>2
  <2>2. \A i \in {1, 2, 3, 4} : s[i].version \in {"legacy", "preflight", "full"}
    BY <2>1 DEF Row, Versions
  <2>3. \A i, j \in {1, 2, 3, 4} : s[i].version = s[j].version => i = j
    BY <2>1 DEF OneOfEach
  <2> QED BY <2>2, <2>3
<1>3. Len(s) \in 0..3
  BY <1>1, <1>2
<1> QED BY <1>1, <1>3, ThreeVersions DEF History

\* A sequence without one of its rows.
LEMMA OneRowLess ==
  ASSUME NEW s \in Rows, OneOfEach(s), NEW i \in DOMAIN s, NEW w, w = RemoveAt(s, i)
  PROVE  /\ w \in Rows /\ OneOfEach(w)
         /\ \A j \in DOMAIN w : \E k \in DOMAIN s : k # i /\ w[j] = s[k]
         /\ \A k \in DOMAIN s : k # i => \E j \in DOMAIN w : w[j] = s[k]
<1> DEFINE a == SubSeq(s, 1, i - 1)
           b == SubSeq(s, i + 1, Len(s))
           n == Len(s)
<1>1. n \in Nat /\ DOMAIN s = 1..n /\ i \in 1..n /\ \A k \in 1..n : s[k] \in Row
  BY LenProperties, ElementOfSeq DEF Rows
<1>2. a \in Rows /\ Len(a) = i - 1 /\ \A k \in 1..(i-1) : a[k] = s[k]
  <2>1. i - 1 \in Int /\ 1 \in Int /\ \A k \in 1..(i-1) : s[k] \in Row
    BY <1>1
  <2>2. /\ a \in Seq(Row) /\ Len(a) = IF 1 <= i - 1 THEN i - 1 - 1 + 1 ELSE 0
        /\ \A k \in 1..(i - 1 - 1 + 1) : a[k] = s[1 + k - 1]
    BY <2>1, SubSeqProperties
  <2>3. (i - 1) - 1 + 1 = i - 1 /\ \A k \in 1..(i-1) : 1 + k - 1 = k
    BY <1>1
  <2>4. Len(a) = i - 1
    BY <1>1, <2>2
  <2> QED BY <2>2, <2>3, <2>4 DEF Rows
<1>3. b \in Rows /\ Len(b) = n - i /\ \A k \in 1..(n-i) : b[k] = s[k + i]
  <2>1. i + 1 \in Int /\ n \in Int /\ \A k \in (i+1)..n : s[k] \in Row
    BY <1>1
  <2>2. /\ b \in Seq(Row) /\ Len(b) = IF i + 1 <= n THEN n - (i + 1) + 1 ELSE 0
        /\ \A k \in 1..(n - (i + 1) + 1) : b[k] = s[(i + 1) + k - 1]
    BY <2>1, SubSeqProperties
  <2>3. n - (i + 1) + 1 = n - i /\ \A k \in 1..(n-i) : (i + 1) + k - 1 = k + i
    BY <1>1
  <2>4. Len(b) = n - i
    BY <1>1, <2>2
  <2> QED BY <2>2, <2>3, <2>4 DEF Rows
<1>4. w = a \o b
  BY DEF RemoveAt
<1> HIDE DEF a, b, n
<1>5. /\ w \in Rows /\ Len(w) = (i - 1) + (n - i)
      /\ \A k \in 1..((i - 1) + (n - i)) : w[k] = IF k <= i - 1 THEN a[k] ELSE b[k - (i - 1)]
  BY <1>2, <1>3, <1>4, ConcatProperties DEF Rows
<1>6. Len(w) = n - 1 /\ DOMAIN w = 1..(n - 1)
  BY <1>1, <1>5, LenProperties DEF Rows
<1>7. \A k \in 1..(n-1) : w[k] = IF k < i THEN s[k] ELSE s[k + 1]
  <2> SUFFICES ASSUME NEW k \in 1..(n-1) PROVE w[k] = IF k < i THEN s[k] ELSE s[k + 1]
    OBVIOUS
  <2>0. k \in 1..((i - 1) + (n - i))
    BY <1>1
  <2>1. CASE k < i
    <3>1. k \in 1..(i-1) /\ k <= i - 1
      BY <1>1, <2>1
    <3> QED BY <1>2, <1>5, <2>0, <2>1, <3>1
  <2>2. CASE ~(k < i)
    <3>1. k - (i - 1) \in 1..(n - i) /\ ~(k <= i - 1) /\ (k - (i - 1)) + i = k + 1
      BY <1>1, <2>2
    <3> QED BY <1>3, <1>5, <2>0, <2>2, <3>1
  <2> QED BY <2>1, <2>2
<1>8. ASSUME NEW j \in DOMAIN w
      PROVE  \E k \in DOMAIN s : k # i /\ w[j] = s[k] /\ k = (IF j < i THEN j ELSE j + 1)
  BY <1>1, <1>6, <1>7
<1>9. ASSUME NEW k \in DOMAIN s, k # i PROVE \E j \in DOMAIN w : w[j] = s[k]
  <2>1. CASE k < i
    <3>1. k \in 1..(n - 1)
      BY <1>1, <2>1
    <3> QED BY <1>6, <1>7, <2>1, <3>1
  <2>2. CASE k > i
    <3>1. k - 1 \in 1..(n - 1) /\ ~(k - 1 < i) /\ (k - 1) + 1 = k
      BY <1>1, <2>2
    <3> QED BY <1>6, <1>7, <3>1
  <2> QED BY <1>1, <1>9, <2>1, <2>2
<1>10. ASSUME NEW x \in DOMAIN w, NEW y \in DOMAIN w, w[x].version = w[y].version PROVE x = y
  <2>1. PICK kx \in DOMAIN s : w[x] = s[kx] /\ kx = (IF x < i THEN x ELSE x + 1)
    BY <1>8
  <2>2. PICK ky \in DOMAIN s : w[y] = s[ky] /\ ky = (IF y < i THEN y ELSE y + 1)
    BY <1>8
  <2>3. kx = ky
    BY <1>10, <2>1, <2>2 DEF OneOfEach
  <2> QED BY <1>1, <1>6, <2>1, <2>2, <2>3
<1> QED BY <1>5, <1>8, <1>9, <1>10 DEF OneOfEach

\* What a version's key finds, and what is left.
LEMMA WithoutKeeps ==
  ASSUME NEW s \in Rows, OneOfEach(s), NEW v, NEW w, w = Without(s, v)
  PROVE  /\ w \in Rows /\ OneOfEach(w)
         /\ \A j \in DOMAIN w : \E k \in DOMAIN s : s[k].version # v /\ w[j] = s[k]
         /\ \A k \in DOMAIN s : s[k].version # v => \E j \in DOMAIN w : w[j] = s[k]
<1>1. DOMAIN s = 1..Len(s)
  BY LenProperties DEF Rows
<1>2. CASE \E i \in 1..Len(s) : s[i].version = v
  <2>1. PICK i \in 1..Len(s) : s[i].version = v
    BY <1>2
  <2>2. {k \in 1..Len(s) : s[k].version = v} = {i}
    BY <1>1, <2>1 DEF OneOfEach
  <2>3. Min({i}) = i
    BY <2>1, LenProperties DEF Min, Rows
  <2>4. w = RemoveAt(s, i)
    BY <1>2, <2>2, <2>3 DEF Without, RemoveFirstMatch, SelectInSeq
  <2> QED BY <1>1, <2>1, <2>2, <2>4, OneRowLess
<1>3. CASE ~ \E i \in 1..Len(s) : s[i].version = v
  BY <1>1, <1>3 DEF Without, RemoveFirstMatch
<1> QED BY <1>2, <1>3

\* One row more.
OneMore(s, r) == Append(s, r)

LEMMA OneRowMore ==
  ASSUME NEW s \in Rows, OneOfEach(s), NEW r \in Row, NEW w, w = OneMore(s, r),
         \A k \in DOMAIN s : s[k].version # r.version
  PROVE  /\ w \in Rows /\ OneOfEach(w)
         /\ \A j \in DOMAIN w : w[j] = r \/ \E k \in DOMAIN s : w[j] = s[k]
         /\ \A k \in DOMAIN s : \E j \in DOMAIN w : w[j] = s[k]
         /\ \E j \in DOMAIN w : w[j] = r
<1>0. w = Append(s, r)
  BY DEF OneMore
<1> DEFINE n == Len(s)
<1>1. n \in Nat /\ DOMAIN s = 1..n
  BY LenProperties DEF Rows
<1>2. /\ w \in Rows /\ Len(w) = n + 1
      /\ \A i \in 1..n : w[i] = s[i]
      /\ w[n + 1] = r
  BY <1>0, AppendProperties DEF Rows
<1>3. DOMAIN w = 1..(n + 1)
  BY <1>2, LenProperties DEF Rows
<1> HIDE DEF n
<1>4. ASSUME NEW x \in DOMAIN w, NEW y \in DOMAIN w, w[x].version = w[y].version PROVE x = y
  <2>1. CASE x \in 1..n /\ y \in 1..n
    BY <1>1, <1>2, <1>4, <2>1 DEF OneOfEach
  <2>2. CASE x = n + 1 /\ y \in 1..n
    BY <1>1, <1>2, <1>4, <2>2
  <2>3. CASE y = n + 1 /\ x \in 1..n
    BY <1>1, <1>2, <1>4, <2>3
  <2>4. CASE x = n + 1 /\ y = n + 1
    BY <2>4
  <2>5. \A z \in 1..(n + 1) : z \in 1..n \/ z = n + 1
    BY <1>1
  <2> QED BY <1>3, <2>1, <2>2, <2>3, <2>4, <2>5
<1>5. ASSUME NEW j \in DOMAIN w PROVE w[j] = r \/ \E k \in DOMAIN s : w[j] = s[k]
  <2>1. j \in 1..n \/ j = n + 1
    BY <1>1, <1>3
  <2> QED BY <1>1, <1>2, <2>1
<1>6. \A k \in DOMAIN s : k \in DOMAIN w /\ w[k] = s[k]
  BY <1>1, <1>2, <1>3
<1>7. n + 1 \in DOMAIN w
  BY <1>1, <1>3
<1> QED BY <1>2, <1>4, <1>5, <1>6, <1>7 DEF OneOfEach

\* A chat's rows, its verdict, and that an analysis brings none.
ChatRows(s, open) == s \in History /\ OneOfEach(s) /\ OpenRows(s, open)
Told(s) == \E i \in DOMAIN s : s[i].committed /\ s[i].verdict # None
FullTellsNothing(s) == \A i \in DOMAIN s : s[i].version = "full" => s[i].verdict = None

LEMMA UpsertKeeps ==
  ASSUME NEW s, NEW open \in BOOLEAN, ChatRows(s, open),
         NEW r \in Row, r.committed, NEW w, w = OneMore(Without(s, r.version), r)
  PROVE  /\ ChatRows(w, open)
         /\ r.verdict # None => Told(w)
         /\ Told(s) /\ (\A i \in DOMAIN s : s[i].version = r.version => s[i].verdict = None) => Told(w)
         /\ FullTellsNothing(s) /\ (r.version = "full" => r.verdict = None) => FullTellsNothing(w)
<1>3. s \in Rows /\ OneOfEach(s) /\ OpenRows(s, open)
  BY HistoryIsRows DEF ChatRows
<1>4. PICK u : u = Without(s, r.version)
  OBVIOUS
<1>5. /\ u \in Rows /\ OneOfEach(u)
      /\ \A j \in DOMAIN u : \E k \in DOMAIN s : s[k].version # r.version /\ u[j] = s[k]
      /\ \A k \in DOMAIN s : s[k].version # r.version => \E j \in DOMAIN u : u[j] = s[k]
  BY <1>3, <1>4, WithoutKeeps
<1>6. \A k \in DOMAIN u : u[k].version # r.version
  BY <1>5
<1>7. w = OneMore(u, r)
  BY <1>4
<1>8. /\ w \in Rows /\ OneOfEach(w)
      /\ \A j \in DOMAIN w : w[j] = r \/ \E k \in DOMAIN u : w[j] = u[k]
      /\ \A k \in DOMAIN u : \E j \in DOMAIN w : w[j] = u[k]
      /\ \E j \in DOMAIN w : w[j] = r
  BY <1>5, <1>6, <1>7, OneRowMore
<1>9. \A j \in DOMAIN w : w[j] = r \/ \E k \in DOMAIN s : w[j] = s[k]
  BY <1>5, <1>8
<1>10. \A k \in DOMAIN s : s[k].version # r.version => \E j \in DOMAIN w : w[j] = s[k]
  BY <1>5, <1>8
<1>11. OpenRows(w, open)
  BY <1>3, <1>9 DEF OpenRows
<1>12. r.verdict # None => Told(w)
  BY <1>8 DEF Told
<1>13. Told(s) /\ (\A i \in DOMAIN s : s[i].version = r.version => s[i].verdict = None) => Told(w)
  BY <1>10 DEF Told
<1>14. FullTellsNothing(s) /\ (r.version = "full" => r.verdict = None) => FullTellsNothing(w)
  BY <1>9 DEF FullTellsNothing
<1> QED BY <1>8, <1>11, <1>12, <1>13, <1>14, RowsAreHistory DEF ChatRows

\* The import's row appears, is committed or goes again.
LEMMA BeginKeeps ==
  ASSUME NEW s, ChatRows(s, FALSE), \A i \in DOMAIN s : s[i].version # "legacy",
         NEW r \in Row, r.version = "legacy", NEW w, w = OneMore(s, r)
  PROVE  /\ ChatRows(w, TRUE)
         /\ Told(s) => Told(w)
         /\ FullTellsNothing(s) => FullTellsNothing(w)
<1>3. s \in Rows /\ OneOfEach(s) /\ OpenRows(s, FALSE)
  BY HistoryIsRows DEF ChatRows
<1>4. /\ w \in Rows /\ OneOfEach(w)
      /\ \A j \in DOMAIN w : w[j] = r \/ \E k \in DOMAIN s : w[j] = s[k]
      /\ \A k \in DOMAIN s : \E j \in DOMAIN w : w[j] = s[k]
  BY <1>3, OneRowMore
<1>5. OpenRows(w, TRUE)
  BY <1>3, <1>4 DEF OpenRows
<1>6. (Told(s) => Told(w)) /\ (FullTellsNothing(s) => FullTellsNothing(w))
  BY <1>4 DEF Told, FullTellsNothing
<1> QED BY <1>4, <1>5, <1>6, RowsAreHistory DEF ChatRows

LEMMA CommitKeeps ==
  ASSUME NEW s, NEW open \in BOOLEAN, ChatRows(s, open), NEW w,
         w = [i \in DOMAIN s |-> [s[i] EXCEPT !.committed = TRUE]]
  PROVE  /\ ChatRows(w, FALSE)
         /\ Told(s) => Told(w)
         /\ FullTellsNothing(s) => FullTellsNothing(w)
<1>1. s \in Rows /\ OneOfEach(s) /\ DOMAIN s = 1..Len(s) /\ Len(s) \in Nat
  BY HistoryIsRows DEF ChatRows
<1>2. \A i \in DOMAIN s : s[i] \in Row
  BY <1>1, ElementOfSeq DEF Rows
<1>3. DOMAIN w = DOMAIN s
  OBVIOUS
<1>4. \A i \in DOMAIN s : /\ w[i] \in Row /\ w[i].version = s[i].version
                          /\ w[i].verdict = s[i].verdict /\ w[i].committed = TRUE
  BY <1>2 DEF Row
<1>5. w \in Rows
  BY <1>1, <1>4, IsASeq DEF Rows
<1>6. OneOfEach(w) /\ OpenRows(w, FALSE)
  BY <1>1, <1>3, <1>4 DEF OneOfEach, OpenRows
<1>7. (Told(s) => Told(w)) /\ (FullTellsNothing(s) => FullTellsNothing(w))
  BY <1>3, <1>4 DEF Told, FullTellsNothing
<1> QED BY <1>5, <1>6, <1>7, RowsAreHistory DEF ChatRows

LEMMA RollbackKeeps ==
  ASSUME NEW s, NEW open \in BOOLEAN, ChatRows(s, open), NEW w,
         w = RemoveFirstMatch(s, LAMBDA r : ~r.committed)
  PROVE  /\ ChatRows(w, FALSE)
         /\ Told(s) => Told(w)
         /\ FullTellsNothing(s) => FullTellsNothing(w)
<1>1. /\ s \in Rows /\ OneOfEach(s) /\ OpenRows(s, open)
      /\ DOMAIN s = 1..Len(s) /\ Len(s) \in Nat
  BY HistoryIsRows DEF ChatRows
<1>2. CASE \E i \in 1..Len(s) : ~s[i].committed
  <2>1. PICK i \in 1..Len(s) : ~s[i].committed
    BY <1>2
  <2>2. \A k \in 1..Len(s) : ~s[k].committed => k = i
    BY <1>1, <2>1 DEF OneOfEach, OpenRows
  <2>3. {k \in 1..Len(s) : ~s[k].committed} = {i}
    BY <2>1, <2>2
  <2>4. Min({i}) = i
    BY <1>1, <2>1 DEF Min
  <2>5. w = RemoveAt(s, i)
    BY <1>2, <2>3, <2>4 DEF RemoveFirstMatch, SelectInSeq
  <2>10. i \in DOMAIN s /\ s \in Rows /\ OneOfEach(s)
    BY <1>1, <2>1
  <2>6. /\ w \in Rows /\ OneOfEach(w)
        /\ \A j \in DOMAIN w : \E k \in DOMAIN s : k # i /\ w[j] = s[k]
        /\ \A k \in DOMAIN s : k # i => \E j \in DOMAIN w : w[j] = s[k]
    BY <2>5, <2>10, OneRowLess
  <2>7. OpenRows(w, FALSE)
    BY <1>1, <2>2, <2>6 DEF OpenRows
  <2>8. ASSUME Told(s) PROVE Told(w)
    <3>1. PICK k \in DOMAIN s : s[k].committed /\ s[k].verdict # None
      BY <2>8 DEF Told
    <3>2. k # i
      BY <2>1, <3>1
    <3>3. PICK j \in DOMAIN w : w[j] = s[k]
      BY <2>6, <3>1, <3>2
    <3> QED BY <3>1, <3>3 DEF Told
  <2>9. FullTellsNothing(s) => FullTellsNothing(w)
    BY <2>6 DEF FullTellsNothing
  <2> QED BY <2>6, <2>7, <2>8, <2>9, RowsAreHistory DEF ChatRows
<1>3. CASE ~ \E i \in 1..Len(s) : ~s[i].committed
  <2>1. w = s
    BY <1>3 DEF RemoveFirstMatch
  <2>2. OpenRows(s, FALSE)
    BY <1>1, <1>3 DEF OpenRows
  <2> QED BY <2>1, <2>2 DEF ChatRows
<1> QED BY <1>2, <1>3

LEMMA TablesAtFirst ==
  ASSUME TablesInit
  PROVE  TablesOK /\ \A c \in Chats : FullTellsNothing(rows[c])
<1>1. here = Old /\ rows = [c \in Chats |-> <<>>] /\ legacy = FALSE
  BY DEF TablesInit
<1>2. <<>> \in Rows /\ OneOfEach(<<>>) /\ DOMAIN <<>> = {}
  BY EmptySeq DEF OneOfEach, Rows
<1>3. ChatRows(<<>>, FALSE) /\ FullTellsNothing(<<>>)
  BY <1>2, RowsAreHistory DEF ChatRows, OpenRows, FullTellsNothing
<1>4. TablesOK
  BY <1>1, <1>3, VerdictAssumption DEF TablesOK, ChatRows
<1> QED BY <1>1, <1>3, <1>4

\* A step of the tables: no chat loses a verdict, no analysis brings one.
RowsKept ==
  \A c \in Chats :
    FullTellsNothing(rows[c]) =>
      FullTellsNothing(rows[c]') /\ (Told(rows[c]) => Told(rows[c]'))

LEMMA TablesByChat ==
  TablesOK <=> /\ here \subseteq Messages /\ rows \in [Chats -> History]
               /\ \A c \in Chats : ChatRows(rows[c], legacy)
               /\ legacy \in BOOLEAN
BY DEF TablesOK, ChatRows

LEMMA TablesByChatNext ==
  ASSUME here' \subseteq Messages, DOMAIN rows' = Chats, rows' = [c \in Chats |-> rows'[c]],
         legacy' \in BOOLEAN, \A c \in Chats : ChatRows(rows'[c], legacy')
  PROVE  TablesOK'
<1>1. rows' \in [Chats -> History]
  BY DEF ChatRows
<1> QED BY <1>1 DEF TablesOK, ChatRows

LEMMA UpsertedKeeps ==
  ASSUME TablesOK, NEW c \in Chats, NEW v \in Versions, NEW x \in Verdicts \cup {None},
         v = "full" <=> x = None, rows' = Upserted(c, v, x), UNCHANGED <<here, legacy>>
  PROVE  TablesOK' /\ RowsKept /\ (x # None => Told(rows[c]'))
<1>1. PICK r \in Row : r = [version |-> v, verdict |-> x, committed |-> TRUE]
  BY DEF Row
<1>2. r.version = v /\ r.verdict = x /\ r.committed
  BY <1>1
<1>3. rows \in [Chats -> History] /\ ChatRows(rows[c], legacy) /\ legacy \in BOOLEAN
  BY TablesByChat
<1>4. PICK w : w = OneMore(Without(rows[c], r.version), r)
  OBVIOUS
<1>5. rows' = [rows EXCEPT ![c] = w]
  BY <1>1, <1>2, <1>3, <1>4 DEF Upserted, OneMore
<1>6. DOMAIN rows' = Chats /\ rows' = [d \in Chats |-> rows'[d]]
  BY <1>3, <1>5
<1>7. rows'[c] = w /\ \A d \in Chats : d # c => rows'[d] = rows[d]
  BY <1>3, <1>5
<1>8. /\ ChatRows(w, legacy)
      /\ r.verdict # None => Told(w)
      /\ Told(rows[c]) /\ (\A i \in DOMAIN rows[c] : rows[c][i].version = r.version => rows[c][i].verdict = None)
           => Told(w)
      /\ FullTellsNothing(rows[c]) /\ (r.version = "full" => r.verdict = None) => FullTellsNothing(w)
  BY <1>2, <1>3, <1>4, UpsertKeeps
<1>9. TablesOK'
  <2>1. \A d \in Chats : ChatRows(rows'[d], legacy)
    BY <1>7, <1>8, TablesByChat
  <2>2. here' = here /\ legacy' = legacy /\ here \subseteq Messages
    BY TablesByChat
  <2> QED BY <1>3, <1>6, <2>1, <2>2, TablesByChatNext
<1>10. FullTellsNothing(rows[c]) => FullTellsNothing(w) /\ (Told(rows[c]) => Told(w))
  <2>1. CASE v = "full"
    <3>1. FullTellsNothing(rows[c]) =>
            \A i \in DOMAIN rows[c] : rows[c][i].version = r.version => rows[c][i].verdict = None
      BY <1>2, <2>1 DEF FullTellsNothing
    <3> QED BY <1>2, <1>8, <2>1, <3>1
  <2>2. CASE v # "full"
    BY <1>2, <1>8, <2>2
  <2> QED BY <2>1, <2>2
<1>11. RowsKept
  BY <1>7, <1>10 DEF RowsKept
<1> QED BY <1>2, <1>7, <1>8, <1>9, <1>11

LEMMA LegacyKeeps ==
  ASSUME TablesOK, NEW f \in Partial(Chats, Verdicts),
         LegacyBegin(f) \/ LegacyCommit \/ LegacyRollback
  PROVE  TablesOK' /\ RowsKept
<1>1. rows \in [Chats -> History] /\ here \subseteq Messages /\ legacy \in BOOLEAN /\ here' = here
  BY TablesByChat DEF LegacyBegin, LegacyCommit, LegacyRollback
<1>2. \A c \in Chats : ChatRows(rows[c], legacy)
  BY TablesByChat
<1>3. legacy' \in BOOLEAN /\ DOMAIN rows' = Chats /\ rows' = [c \in Chats |-> rows'[c]]
  BY DEF LegacyBegin, LegacyCommit, LegacyRollback
<1>4. ASSUME NEW c \in Chats
      PROVE  /\ ChatRows(rows'[c], legacy')
             /\ Told(rows[c]) => Told(rows'[c])
             /\ FullTellsNothing(rows[c]) => FullTellsNothing(rows'[c])
  <2>1. PICK s : s = rows[c]
    OBVIOUS
  <2>2. PICK w : w = rows'[c]
    OBVIOUS
  <2>3. PICK o \in BOOLEAN : o = legacy
    BY <1>1
  <2>4. ChatRows(s, o)
    BY <1>2, <2>1, <2>3
  <2>5. CASE LegacyBegin(f)
    <3>1. o = FALSE /\ legacy' = TRUE
      BY <2>3, <2>5 DEF LegacyBegin
    <3>2. CASE c \notin DOMAIN f \/ \E i \in DOMAIN s : s[i].version = "legacy"
      <4>1. w = s
        BY <2>1, <2>2, <2>5, <3>2 DEF LegacyBegin
      <4>2. OpenRows(s, TRUE)
        BY <2>4, <3>1 DEF ChatRows, OpenRows
      <4>3. ChatRows(w, TRUE)
        BY <2>4, <4>1, <4>2 DEF ChatRows
      <4> QED BY <2>1, <2>2, <3>1, <4>1, <4>3
    <3>3. CASE c \in DOMAIN f /\ \A i \in DOMAIN s : s[i].version # "legacy"
      <4>1. f[c] \in Verdicts
        BY <3>3 DEF Partial
      <4>2. PICK r \in Row : r = [version |-> "legacy", verdict |-> f[c], committed |-> FALSE]
        BY <4>1 DEF Row, Versions
      <4>3. r.version = "legacy"
        BY <4>2
      <4>4. w = OneMore(s, r)
        BY <2>1, <2>2, <2>5, <3>3, <4>2 DEF LegacyBegin, OneMore
      <4>5. ChatRows(s, FALSE)
        BY <2>4, <3>1
      <4>6. /\ ChatRows(w, TRUE)
            /\ Told(s) => Told(w)
            /\ FullTellsNothing(s) => FullTellsNothing(w)
        BY <3>3, <4>3, <4>4, <4>5, BeginKeeps
      <4> QED BY <2>1, <2>2, <3>1, <4>6
    <3> QED BY <3>2, <3>3
  <2>6. CASE LegacyCommit
    <3>1. w = [i \in DOMAIN s |-> [s[i] EXCEPT !.committed = TRUE]] /\ legacy' = FALSE
      BY <2>1, <2>2, <2>6 DEF LegacyCommit
    <3>2. /\ ChatRows(w, FALSE)
          /\ Told(s) => Told(w)
          /\ FullTellsNothing(s) => FullTellsNothing(w)
      BY <2>4, <3>1, CommitKeeps
    <3> QED BY <2>1, <2>2, <3>1, <3>2
  <2>7. CASE LegacyRollback
    <3>1. w = RemoveFirstMatch(s, LAMBDA r : ~r.committed) /\ legacy' = FALSE
      BY <2>1, <2>2, <2>7 DEF LegacyRollback
    <3>2. /\ ChatRows(w, FALSE)
          /\ Told(s) => Told(w)
          /\ FullTellsNothing(s) => FullTellsNothing(w)
      BY <2>4, <3>1, RollbackKeeps
    <3> QED BY <2>1, <2>2, <3>1, <3>2
  <2> QED BY <2>5, <2>6, <2>7
<1>5. TablesOK'
  BY <1>1, <1>3, <1>4, TablesByChatNext
<1>6. RowsKept
  BY <1>4 DEF RowsKept
<1> QED BY <1>5, <1>6

LEMMA TablesKeep ==
  ASSUME TablesOK, TablesNext
  PROVE  TablesOK' /\ RowsKept /\ here \subseteq here'
<1>1. ASSUME NEW m \in Messages, Arrive(m) PROVE TablesOK' /\ RowsKept /\ here \subseteq here'
  <2>1. here' = here \cup {m} /\ rows' = rows /\ legacy' = legacy
    BY <1>1 DEF Arrive
  <2> QED BY <2>1 DEF TablesOK, RowsKept
<1>2. ASSUME NEW c \in Chats, Analysed(c) PROVE TablesOK' /\ RowsKept /\ here \subseteq here'
  <2>1. rows' = Upserted(c, "full", None) /\ UNCHANGED <<here, legacy>> /\ here' = here
    BY <1>2 DEF Analysed
  <2>2. "full" \in Versions /\ None \in Verdicts \cup {None}
    BY DEF Versions
  <2> QED BY <2>1, <2>2, UpsertedKeeps
<1>3. ASSUME NEW c \in Chats, NEW v \in Verdicts, Judged(c, v)
      PROVE TablesOK' /\ RowsKept /\ here \subseteq here'
  <2>1. rows' = Upserted(c, "preflight", v) /\ UNCHANGED <<here, legacy>> /\ here' = here
    BY <1>3 DEF Judged
  <2>2. "preflight" \in Versions /\ v \in Verdicts \cup {None} /\ v # None
    BY VerdictAssumption DEF Versions
  <2> QED BY <2>1, <2>2, UpsertedKeeps
<1>4. ASSUME NEW f \in Partial(Chats, Verdicts), LegacyBegin(f) \/ LegacyCommit \/ LegacyRollback
      PROVE  TablesOK' /\ RowsKept /\ here \subseteq here'
  <2>1. here' = here
    BY <1>4 DEF LegacyBegin, LegacyCommit, LegacyRollback
  <2> QED BY <1>4, <2>1, LegacyKeeps
<1>5. \E f : f \in Partial(Chats, Verdicts)
  <2>1. [x \in {} |-> None] \in [{} -> Verdicts] /\ {} \in SUBSET Chats
    OBVIOUS
  <2> QED BY <2>1 DEF Partial
<1> QED BY <1>1, <1>2, <1>3, <1>4, <1>5 DEF TablesNext, Around

(* ---------------------------- the classifier --------------------------- *)

\* Who waits for the model has messages, and what the run was called for has a
\* verdict, is to come, is being asked about, or has been counted as an error.
Asking == pf.pc = "ask" => pf.chat \in Chats /\ In(pf.chat) # {}

Judging ==
  pf.pc \in {"next", "ask"} =>
    \A c \in pf.scope :
      c \in pf.todo \/ pf.errors \/ HasVerdict(c) \/ (pf.pc = "ask" /\ c = pf.chat)

PfInv ==
  /\ PfTypeOK
  /\ \A c \in Chats : FullTellsNothing(rows[c])
  /\ Asking
  /\ Judging

LEMMA PfIdleType == PfIdle \in Classifier /\ PfIdle.pc = "idle"
BY PreflightAssumption DEF PfIdle, Classifier

LEMMA PfInitInv == PfInit => PfInv
<1> SUFFICES ASSUME PfInit PROVE PfInv
  OBVIOUS
<1>1. pf = PfIdle /\ TablesInit
  BY DEF PfInit
<1> QED BY <1>1, TablesAtFirst, PfIdleType DEF PfInv, PfTypeOK, Asking, Judging, Classifier

\* The tables change and the classifier is where it was.
LEMMA PfAroundKeeps ==
  ASSUME PfInv, Around, UNCHANGED pf
  PROVE  PfInv'
<1>1. TablesOK' /\ RowsKept /\ here \subseteq here'
  BY TablesKeep DEF TablesNext, PfInv, PfTypeOK
<1>2. PfTypeOK'
  BY <1>1 DEF PfInv, PfTypeOK
<1>3. \A c \in Chats : FullTellsNothing(rows[c]')
  BY <1>1 DEF PfInv, RowsKept
<1>4. \A c \in Chats : HasVerdict(c) => HasVerdict(c)'
  BY <1>1 DEF PfInv, RowsKept, Told, HasVerdict
<1>5. Asking'
  BY <1>1 DEF PfInv, Asking, In
<1>6. Judging'
  BY <1>4 DEF PfInv, Judging, PfTypeOK, Classifier
<1> QED BY <1>2, <1>3, <1>5, <1>6 DEF PfInv

\* The classifier takes a step, and no row is touched.
LEMMA PfTablesStay ==
  ASSUME PfInv, UNCHANGED tables, pf' \in Classifier,
         pf'.pc = "ask" => pf'.chat \in Chats /\ In(pf'.chat) # {},
         pf'.pc \in {"next", "ask"} => \A c \in pf'.scope :
            c \in pf'.todo \/ pf'.errors \/ HasVerdict(c) \/ (pf'.pc = "ask" /\ c = pf'.chat)
  PROVE  PfInv'
<1>1. here' = here /\ rows' = rows /\ legacy' = legacy
  BY DEF tables
<1>2. TablesOK'
  BY <1>1 DEF PfInv, PfTypeOK, TablesOK
<1>3. Asking' /\ Judging'
  BY <1>1 DEF Asking, Judging, In, HasVerdict
<1> QED BY <1>1, <1>2, <1>3 DEF PfInv, PfTypeOK, Classifier

LEMMA PfOver ==
  ASSUME PfInv, UNCHANGED tables, pf' = PfIdle
  PROVE  PfInv'
BY PfIdleType, PfTablesStay

LEMMA NextChat ==
  ASSUME PfInv, pf.todo # {}
  PROVE  Least(pf.todo) \in pf.todo /\ pf.todo \subseteq Chats
<1>1. pf.todo \subseteq Chats /\ pf.todo \subseteq Nat
  BY VerdictAssumption DEF PfInv, PfTypeOK, Classifier
<1> QED BY <1>1, LeastIsLeast

\* A verdict is stored.
LEMMA PfJudgedKeeps ==
  ASSUME PfInv, NEW c \in Chats, NEW v \in Verdicts, rows' = Upserted(c, "preflight", v),
         UNCHANGED <<here, legacy>>, pf' \in Classifier, pf'.pc = "next",
         pf'.scope = pf.scope, pf'.errors = pf.errors, pf.pc \in {"next", "ask"},
         \A d \in pf.todo : d = c \/ d \in pf'.todo,
         pf.pc = "ask" => c = pf.chat
  PROVE  PfInv'
<1>1. "preflight" \in Versions /\ v \in Verdicts \cup {None} /\ v # None /\ TablesOK
  BY VerdictAssumption DEF Versions, PfInv, PfTypeOK
<1>2. TablesOK' /\ RowsKept /\ Told(rows[c]')
  BY <1>1, UpsertedKeeps
<1>3. PfTypeOK'
  BY <1>2 DEF PfTypeOK, Classifier
<1>4. \A d \in Chats : FullTellsNothing(rows[d]') /\ (HasVerdict(d) => HasVerdict(d)')
  BY <1>2 DEF PfInv, RowsKept, Told, HasVerdict
<1>5. HasVerdict(c)'
  BY <1>2 DEF Told, HasVerdict
<1>6. pf.scope \subseteq Chats
  BY DEF PfInv, PfTypeOK, Classifier
<1>7. Judging'
  BY <1>4, <1>5, <1>6 DEF PfInv, Judging
<1> QED BY <1>3, <1>4, <1>7 DEF PfInv, Asking

\* Beginning, loading, ending: no row is touched.
LEMMA PfStartKeeps ==
  ASSUME PfInv, NEW S \in SUBSET Chats, NEW regen \in BOOLEAN, PfStart(S, regen)
  PROVE  PfInv'
<1>1. UNCHANGED tables /\ pf' \in Classifier /\ pf'.pc = "load"
  BY PfIdleType DEF PfStart, PfIdle, Classifier
<1> QED BY <1>1, PfTablesStay

LEMMA PfLoadedKeeps ==
  ASSUME PfInv, PfLoaded
  PROVE  PfInv'
<1>0. pf \in Classifier
  BY DEF PfInv, PfTypeOK, Classifier
<1>1. UNCHANGED tables /\ pf' = [pf EXCEPT !.pc = "next", !.todo = {c \in pf.scope : PfPending(c, pf.regen)}]
  BY DEF PfLoaded
<1>2. pf' \in Classifier /\ pf'.pc = "next" /\ pf'.scope = pf.scope
      /\ pf'.todo = {c \in pf.scope : PfPending(c, pf.regen)}
  BY <1>0, <1>1 DEF Classifier
<1>3. \A c \in pf'.scope : c \in pf'.todo \/ HasVerdict(c)
  BY <1>2 DEF PfPending
<1> QED BY <1>1, <1>2, <1>3, PfTablesStay

LEMMA PfSigintKeeps ==
  ASSUME PfInv, PfSigint
  PROVE  PfInv'
<1>0. pf \in Classifier
  BY DEF PfInv, PfTypeOK, Classifier
<1>1. UNCHANGED tables /\ pf' = [pf EXCEPT !.stop = TRUE]
  BY DEF PfSigint
<1>2. /\ pf' \in Classifier /\ pf'.pc = pf.pc /\ pf'.scope = pf.scope /\ pf'.todo = pf.todo
      /\ pf'.errors = pf.errors /\ pf'.chat = pf.chat
  BY <1>0, <1>1 DEF Classifier
<1> QED BY <1>1, <1>2, PfTablesStay DEF PfInv, Asking, Judging

\* A chat with messages is shown to the model.
LEMMA PfAskKeeps ==
  ASSUME PfInv, PfAsk
  PROVE  PfInv'
<1>0. pf \in Classifier /\ here \subseteq Messages
  BY DEF PfInv, PfTypeOK, Classifier, TablesOK
<1>1. PICK c : c = Least(pf.todo)
  OBVIOUS
<1>2. pf.pc = "next" /\ pf.todo # {} /\ In(c) # {} /\ UNCHANGED tables
      /\ pf' = [pf EXCEPT !.pc = "ask", !.todo = @ \ {c}, !.chat = c, !.shown = Preview(In(c))]
  BY <1>1 DEF PfAsk, IsEmpty
<1>3. c \in Chats
  BY <1>1, <1>2, NextChat
<1>4. Preview(In(c)) \subseteq Messages
  BY <1>0 DEF Preview, In
<1>5. /\ pf' \in Classifier /\ pf'.pc = "ask" /\ pf'.chat = c /\ pf'.scope = pf.scope
      /\ pf'.errors = pf.errors /\ pf'.todo = pf.todo \ {c}
  BY <1>0, <1>2, <1>3, <1>4 DEF Classifier
<1>6. \A d \in pf'.scope : d \in pf'.todo \/ pf'.errors \/ HasVerdict(d) \/ (pf'.pc = "ask" /\ d = pf'.chat)
  BY <1>2, <1>5 DEF PfInv, Judging
<1> QED BY <1>2, <1>3, <1>5, <1>6, PfTablesStay

LEMMA AnsweredType ==
  ASSUME pf \in Classifier, NEW e \in BOOLEAN
  PROVE  /\ Answered(e) \in Classifier /\ Answered(e).pc = "next" /\ Answered(e).errors = e
         /\ Answered(e).scope = pf.scope /\ Answered(e).todo = pf.todo
<1>1. 0 \in 0..MaxRetries /\ None \in Chats \cup {None} /\ {} \in SUBSET Messages
  BY PreflightAssumption
<1>2. PICK p \in Classifier : p = pf
  OBVIOUS
<1>3. Answered(e) = [pc |-> "next", scope |-> p.scope, todo |-> p.todo, chat |-> None, shown |-> {},
                     tries |-> 0, regen |-> p.regen, errors |-> e, stop |-> p.stop]
  <2>1. p = [pc |-> p.pc, scope |-> p.scope, todo |-> p.todo, chat |-> p.chat, shown |-> p.shown,
             tries |-> p.tries, regen |-> p.regen, errors |-> p.errors, stop |-> p.stop]
    BY DEF Classifier
  <2>2. Answered(e) = [p EXCEPT !.pc = "next", !.chat = None, !.shown = {}, !.tries = 0, !.errors = e]
    BY <1>2 DEF Answered
  <2> QED BY <2>1, <2>2
<1> QED BY <1>1, <1>2, <1>3 DEF Classifier

\* A request fails for good: the error is counted.
LEMMA PfErrorKeeps ==
  ASSUME PfInv, UNCHANGED tables, pf' = Answered(TRUE)
  PROVE  PfInv'
<1>0. pf \in Classifier
  BY DEF PfInv, PfTypeOK, Classifier
<1>1. pf' \in Classifier /\ pf'.pc = "next" /\ pf'.errors = TRUE
  BY <1>0, AnsweredType
<1> QED BY <1>1, PfTablesStay

LEMMA PfRetryKeeps ==
  ASSUME PfInv, PfRetry
  PROVE  PfInv'
<1>0. pf \in Classifier /\ UNCHANGED tables
  BY DEF PfInv, PfTypeOK, Classifier, PfRetry
<1>1. CASE pf.tries + 1 < MaxRetries
  <2>1. pf' = [pf EXCEPT !.tries = @ + 1]
    BY <1>1 DEF PfRetry
  <2>2. pf.tries \in 0..MaxRetries /\ pf.tries + 1 \in 0..MaxRetries
    BY <1>0, <1>1, PreflightAssumption DEF Classifier
  <2>3. /\ pf' \in Classifier /\ pf'.pc = pf.pc /\ pf'.scope = pf.scope /\ pf'.todo = pf.todo
        /\ pf'.errors = pf.errors /\ pf'.chat = pf.chat
    BY <1>0, <2>1, <2>2 DEF Classifier
  <2> QED BY <1>0, <2>3, PfTablesStay DEF PfInv, Asking, Judging
<1>2. CASE ~(pf.tries + 1 < MaxRetries)
  <2>1. pf' = Answered(TRUE)
    BY <1>2 DEF PfRetry
  <2> QED BY <1>0, <2>1, PfErrorKeeps
<1> QED BY <1>1, <1>2

\* A verdict of the model, or of the rule for empty chats.
LEMMA PfVerdictStep ==
  ASSUME PfInv, NEW v \in Verdicts, PfVerdict(v)
  PROVE  PfInv' /\ \E c \in Chats : Judged(c, v)
<1>0. pf \in Classifier
  BY DEF PfInv, PfTypeOK, Classifier
<1>1. /\ pf.pc = "ask" /\ rows' = Upserted(pf.chat, "preflight", v)
      /\ pf' = Answered(pf.errors) /\ UNCHANGED <<here, legacy>>
  BY DEF PfVerdict
<1>2. pf.chat \in Chats /\ In(pf.chat) # {}
  BY <1>1 DEF PfInv, Asking
<1>3. /\ pf' \in Classifier /\ pf'.pc = "next" /\ pf'.scope = pf.scope /\ pf'.errors = pf.errors
      /\ pf'.todo = pf.todo
  <2>1. pf.errors \in BOOLEAN
    BY <1>0 DEF Classifier
  <2> QED BY <1>0, <1>1, <2>1, AnsweredType
<1>4. PfInv'
  BY <1>1, <1>2, <1>3, PfJudgedKeeps
<1>5. Judged(pf.chat, v)
  BY <1>1, <1>2 DEF Judged
<1> QED BY <1>2, <1>4, <1>5

LEMMA PfEmptyStep ==
  ASSUME PfInv, PfEmpty
  PROVE  PfInv' /\ \E c \in Chats, v \in Verdicts : Judged(c, v)
<1>0. pf \in Classifier
  BY DEF PfInv, PfTypeOK, Classifier
<1>1. PICK c : c = Least(pf.todo)
  OBVIOUS
<1>2. /\ pf.pc = "next" /\ pf.todo # {} /\ Judged(c, "not_client")
      /\ pf' = [pf EXCEPT !.todo = @ \ {c}]
  BY <1>1 DEF PfEmpty
<1>3. c \in Chats /\ "not_client" \in Verdicts
  BY <1>1, <1>2, NextChat, VerdictAssumption
<1>4. /\ pf' \in Classifier /\ pf'.pc = "next" /\ pf'.scope = pf.scope /\ pf'.errors = pf.errors
      /\ pf'.todo = pf.todo \ {c}
  BY <1>0, <1>2 DEF Classifier
<1>5. rows' = Upserted(c, "preflight", "not_client") /\ UNCHANGED <<here, legacy>>
  BY <1>2 DEF Judged
<1>6. PfInv'
  BY <1>2, <1>3, <1>4, <1>5, PfJudgedKeeps
<1> QED BY <1>2, <1>3, <1>6

LEMMA PfNextInv == PfInv /\ [PfNext]_pfVars => PfInv'
<1> SUFFICES ASSUME PfInv, [PfNext]_pfVars PROVE PfInv'
  OBVIOUS
<1>1. CASE Around /\ UNCHANGED pf
  BY <1>1, PfAroundKeeps
<1>2. ASSUME NEW regen \in BOOLEAN, PfStart(Chats, regen) \/ \E c \in Chats : PfStart({c}, regen)
      PROVE  PfInv'
  BY <1>2, PfStartKeeps
<1>3. CASE PfLoaded
  BY <1>3, PfLoadedKeeps
<1>4. CASE PfTimeout \/ PfEnd \/ PfAbort
  BY <1>4, PfOver DEF PfTimeout, PfEnd, PfAbort
<1>5. CASE PfEmpty
  BY <1>5, PfEmptyStep
<1>6. CASE PfAsk
  BY <1>6, PfAskKeeps
<1>7. CASE PfRetry
  BY <1>7, PfRetryKeeps
<1>8. CASE PfNoVerdict
  BY <1>8, PfErrorKeeps DEF PfNoVerdict
<1>9. ASSUME NEW v \in Verdicts, PfVerdict(v) PROVE PfInv'
  BY <1>9, PfVerdictStep
<1>10. CASE PfSigint
  BY <1>10, PfSigintKeeps
<1>11. CASE UNCHANGED pfVars
  <2>1. UNCHANGED tables /\ pf' = pf
    BY <1>11 DEF pfVars, tables
  <2>2. pf \in Classifier
    BY DEF PfInv, PfTypeOK, Classifier
  <2> QED BY <2>1, <2>2, PfTablesStay DEF PfInv, Asking, Judging
<1> QED BY <1>1, <1>2, <1>3, <1>4, <1>5, <1>6, <1>7, <1>8, <1>9, <1>10, <1>11 DEF PfNext, PfStep

LEMMA PfInvariant == PfSpec => []PfInv
<1> QED BY PfInitInv, PfNextInv, PTL DEF PfSpec

\* The classifier's state and the rows of the chats keep their types: a chat has
\* at most one row of a version, whatever runs and imports do to it.
THEOREM PfTypeCorrect == PfSpec => []PfTypeOK
<1>1. PfInv => PfTypeOK
  BY DEF PfInv
<1> QED BY <1>1, PfInvariant, PTL

\* A run that ends by itself and counts no error leaves a verdict for every chat it was
\* called for, although messages, analyses and old verdicts come in between.
THEOREM RunJudges == PfSpec => []RunJudgesAll
<1>1. PfInv => RunJudgesAll
  BY DEF PfInv, Judging, RunJudgesAll
<1> QED BY <1>1, PfInvariant, PTL

\* Every step of the classifier is a step of ChatVerdicts or leaves the tables alone.
LEMMA StepsJudge ==
  ASSUME PfInv, [PfNext]_pfVars
  PROVE  [TablesNext]_tables
<1>1. CASE Around
  BY <1>1 DEF TablesNext
<1>2. CASE PfEmpty
  BY <1>2, PfEmptyStep DEF TablesNext
<1>3. ASSUME NEW v \in Verdicts, PfVerdict(v) PROVE TablesNext
  BY <1>3, PfVerdictStep DEF TablesNext
<1>4. CASE PfLoaded \/ PfTimeout \/ PfAsk \/ PfRetry \/ PfNoVerdict \/ PfEnd \/ PfSigint \/ PfAbort
  BY <1>4 DEF PfLoaded, PfTimeout, PfAsk, PfRetry, PfNoVerdict, PfEnd, PfSigint, PfAbort
<1>5. ASSUME NEW S, NEW regen, PfStart(S, regen) PROVE UNCHANGED tables
  BY <1>5 DEF PfStart
<1>6. CASE UNCHANGED pfVars
  BY <1>6 DEF pfVars, tables
<1> QED BY <1>1, <1>2, <1>3, <1>4, <1>5, <1>6 DEF PfNext, PfStep

\* To the rest of the system the classifier is what ChatVerdicts says of it: one row
\* at a time, the newest of its chat, and never a client without messages.
THEOREM ClassifierImplements == PfSpec => ImplementsVerdicts
<1>1. PfInit => TablesInit
  BY DEF PfInit
<1> QED BY <1>1, StepsJudge, PfInvariant, PTL DEF PfSpec, ImplementsVerdicts

(* ------------------------ the extractor's runs ------------------------- *)

\* What a run owes is still before its cursor's batch, in the batch, or written; and
\* written stays written, whoever writes next.

Transaction == UNION {[D -> Texts] : D \in SUBSET Messages}

Run == [pc : {"idle", "load", "select", "work", "save"}, scope : SUBSET Chats,
        filter : Filters \cup {{}}, regen : BOOLEAN, due : SUBSET Messages,
        after : Messages \cup {0}, batch : SUBSET Messages, text : Texts \cup {None},
        saw : Texts \cup {Absent, None}, txn : Transaction, stop : BOOLEAN]

Shapes ==
  /\ here \subseteq Messages
  /\ texts \in [Messages -> Texts \cup {Absent}]
  /\ mx \in [Procs -> Run]

\* What a run writes is of this version; a batch is there only while it is worked on.
Writes ==
  \A p \in Procs :
    /\ mx[p].pc = "save" => mx[p].text \in Texts /\ mx[p].text.version = "current" /\ mx[p].batch # {}
    /\ \A m \in DOMAIN mx[p].txn : mx[p].txn[m].version = "current"
    /\ mx[p].pc \in {"load", "select"} => mx[p].batch = {}
    /\ mx[p].pc = "load" => mx[p].after = 0
    /\ mx[p].pc = "idle" => mx[p] = MxIdle

\* Message m has the text the run r owes.
Written(r, m) ==
  \/ m \in DOMAIN r.txn
  \/ texts[m] # Absent /\ (r.regen => texts[m].version = "current")

\* What a run owes and has not written lies in its batch or ahead of its cursor.
Covered ==
  \A p \in Procs : \A m \in mx[p].due :
    /\ m \in here /\ ChatOf[m] \in mx[p].scope /\ Wanted(ChatOf[m], mx[p].filter)
    /\ m \in mx[p].batch \/ m > mx[p].after \/ Written(mx[p], m)

Inv == Shapes /\ LossIsBounded /\ Writes /\ Covered

\* What is due, ahead of the cursor and not in the batch is written: the run is done.
LEMMA DoneLeavesNothing == Inv => RunLeavesNothing
<1> SUFFICES ASSUME Inv, NEW p \in Procs, Done(mx[p]), NEW m \in mx[p].due
             PROVE  /\ texts[m] # Absent
                    /\ mx[p].regen => texts[m].version = "current"
  BY DEF RunLeavesNothing
<1>1. mx[p].batch = {} /\ mx[p].txn = <<>>
  BY DEF Inv, Writes, LossIsBounded, Done
<1>2. mx[p] \in Run /\ m \in Messages
  BY DEF Inv, Shapes, Run
<1>3. CASE Written(mx[p], m)
  BY <1>1, <1>3 DEF Written
<1>4. CASE ~Written(mx[p], m)
  <2> DEFINE S == {x \in Selectable(mx[p].scope, mx[p].filter, mx[p].regen) : x > mx[p].after}
  <2>1. m \in S
    <3>1. m > mx[p].after /\ m \in here /\ ChatOf[m] \in mx[p].scope
          /\ Wanted(ChatOf[m], mx[p].filter)
      BY <1>1, <1>4 DEF Inv, Covered
    <3>2. Pending(m, mx[p].regen)
      BY <1>4 DEF Pending, Written
    <3> QED BY <3>1, <3>2 DEF Selectable
  <2>2. S \in SUBSET Messages
    BY DEF Selectable, Inv, Shapes
  <2>3. NextBatch(mx[p]) = {x \in S : Cardinality(Before(S, x)) < BatchSize}
    BY DEF NextBatch
  <2>4. NextBatch(mx[p]) # {}
    <3> HIDE DEF S
    <3> QED BY <2>1, <2>2, <2>3, BatchIsBeginning
  <2> QED BY <2>4 DEF Done
<1> QED BY <1>3, <1>4

(* ------------------------------- one run ------------------------------- *)

LEMMA SameVerdicts ==
  ASSUME rows' = rows, NEW c, NEW F
  PROVE  Wanted(c, F)' = Wanted(c, F)
BY DEF Wanted, Latest

\* A step of one run that writes nothing but texts of this version.
LEMMA RunKeeps ==
  ASSUME Inv, NEW p \in Procs, NEW q \in Run, mx' = [mx EXCEPT ![p] = q], UNCHANGED tables,
         texts' \in [Messages -> Texts \cup {Absent}],
         \A m \in Messages : texts'[m] = texts[m]
                             \/ (texts'[m] # Absent /\ texts'[m].version = "current"),
         Cardinality(DOMAIN q.txn) < CommitEvery,
         q.pc \notin {"work", "save"} => q.txn = <<>>,
         q.pc = "save" => q.text \in Texts /\ q.text.version = "current" /\ q.batch # {},
         \A m \in DOMAIN q.txn : q.txn[m].version = "current",
         q.pc \in {"load", "select"} => q.batch = {},
         q.pc = "load" => q.after = 0,
         q.pc = "idle" => q = MxIdle,
         \A m \in q.due : /\ m \in here /\ ChatOf[m] \in q.scope /\ Wanted(ChatOf[m], q.filter)
                         /\ \/ m \in q.batch \/ m > q.after \/ m \in DOMAIN q.txn
                            \/ texts'[m] # Absent /\ (q.regen => texts'[m].version = "current")
  PROVE  Inv'
<1>0. Shapes /\ LossIsBounded /\ Writes /\ Covered
  BY DEF Inv
<1>1. mx \in [Procs -> Run] /\ here' = here /\ rows' = rows
  BY <1>0 DEF Shapes, tables
<1>2. mx' \in [Procs -> Run] /\ mx'[p] = q /\ \A r \in Procs \ {p} : mx'[r] = mx[r]
  BY <1>1
<1>3. Shapes'
  BY <1>0, <1>1, <1>2 DEF Shapes
<1>4. LossIsBounded'
  BY <1>0, <1>2 DEF LossIsBounded
<1>5. Writes'
  BY <1>0, <1>2 DEF Writes
<1>6. Covered'
  <2> SUFFICES ASSUME NEW r \in Procs, NEW m \in (mx[r].due)'
               PROVE  /\ m \in here' /\ ChatOf[m] \in mx'[r].scope
                      /\ Wanted(ChatOf[m], mx[r].filter)'
                      /\ m \in mx'[r].batch \/ m > mx'[r].after \/ Written(mx[r], m)'
    BY DEF Covered
  <2>1. CASE r = p
    BY <1>1, <1>2, <2>1, SameVerdicts DEF Written
  <2>2. CASE r # p
    <3>1. m \in mx[r].due /\ mx'[r] = mx[r] /\ m \in Messages
      BY <1>1, <1>2, <2>2 DEF Run
    <3>2. Written(mx[r], m) => Written(mx[r], m)'
      BY <3>1 DEF Written
    <3> QED BY <1>0, <1>1, <3>1, <3>2, SameVerdicts DEF Covered
  <2> QED BY <2>1, <2>2
<1> QED BY <1>3, <1>4, <1>5, <1>6 DEF Inv

LEMMA NoTransaction == <<>> \in Transaction /\ Cardinality(DOMAIN <<>>) < CommitEvery
<1>1. <<>> \in [{} -> Texts] /\ {} \in SUBSET Messages
  OBVIOUS
<1>2. <<>> \in Transaction
  BY <1>1 DEF Transaction
<1>3. DOMAIN <<>> = {}
  OBVIOUS
<1>4. Cardinality(DOMAIN <<>>) = 0
  BY <1>3, FS_EmptySet
<1>5. 0 < CommitEvery
  BY MediaAssumption
<1> QED BY <1>2, <1>4, <1>5

LEMMA IdleRun == MxIdle \in Run
BY NoTransaction DEF MxIdle, Run

\* A run that is over, with what it committed.
LEMMA OverKeeps ==
  ASSUME Inv, NEW p \in Procs, mx' = [mx EXCEPT ![p] = MxIdle], UNCHANGED tables,
         texts' \in [Messages -> Texts \cup {Absent}],
         \A m \in Messages : texts'[m] = texts[m]
                             \/ (texts'[m] # Absent /\ texts'[m].version = "current")
  PROVE  Inv'
<1>1. /\ MxIdle.txn = <<>> /\ MxIdle.pc = "idle" /\ MxIdle.due = {}
  BY DEF MxIdle
<1>2. /\ Cardinality(DOMAIN MxIdle.txn) < CommitEvery
      /\ \A m \in DOMAIN MxIdle.txn : MxIdle.txn[m].version = "current"
  <2>1. DOMAIN MxIdle.txn = {}
    BY <1>1
  <2> QED BY <1>1, <2>1, NoTransaction
<1>3. \A m \in MxIdle.due :
         /\ m \in here /\ ChatOf[m] \in MxIdle.scope /\ Wanted(ChatOf[m], MxIdle.filter)
         /\ \/ m \in MxIdle.batch \/ m > MxIdle.after \/ m \in DOMAIN MxIdle.txn
            \/ texts'[m] # Absent /\ (MxIdle.regen => texts'[m].version = "current")
  BY <1>1
<1>4. MxIdle.pc \notin {"work", "save", "load", "select"}
  BY <1>1
<1> QED BY <1>1, <1>2, <1>3, <1>4, IdleRun, RunKeeps

LEMMA SameTexts ==
  ASSUME Inv, UNCHANGED texts
  PROVE  /\ texts' \in [Messages -> Texts \cup {Absent}]
         /\ \A m \in Messages : texts'[m] = texts[m]
                             \/ (texts'[m] # Absent /\ texts'[m].version = "current")
BY DEF Inv, Shapes

\* The texts of a transaction take the place of what there is.
LEMMA StoredTexts ==
  ASSUME Inv, NEW t \in Transaction, \A m \in DOMAIN t : t[m].version = "current"
  PROVE  /\ Stored(t) \in [Messages -> Texts \cup {Absent}]
         /\ \A m \in Messages : \/ Stored(t)[m] = texts[m]
                                \/ Stored(t)[m] # Absent /\ Stored(t)[m].version = "current"
         /\ \A m \in DOMAIN t : m \in Messages /\ Stored(t)[m] # Absent
                                /\ Stored(t)[m].version = "current"
<1>1. PICK D \in SUBSET Messages : t \in [D -> Texts]
  BY DEF Transaction
<1>2. \A m \in D : t[m] \in Texts /\ t[m] # Absent
  BY <1>1, MediaAssumption
<1> QED BY <1>1, <1>2 DEF Stored, Inv, Shapes

LEMMA StartKeeps ==
  ASSUME Inv, NEW p \in Procs, NEW S \in SUBSET Chats, NEW F \in Filters, NEW regen \in BOOLEAN,
         MxStart(p, S, F, regen)
  PROVE  Inv'
<1> DEFINE found == Selectable(S, F, regen)
           q == [MxIdle EXCEPT !.pc = IF NeedsVision(found) THEN "load" ELSE "select",
                               !.scope = S, !.filter = F, !.regen = regen, !.due = found]
<1>1. mx' = [mx EXCEPT ![p] = q] /\ UNCHANGED <<tables, texts>>
  BY DEF MxStart
<1>2. found \subseteq Messages /\ found \subseteq here
      /\ \A m \in found : ChatOf[m] \in S /\ Wanted(ChatOf[m], F)
  BY DEF Selectable, Inv, Shapes
<1>3. \A m \in found : m > 0
  <2> TAKE m \in found
  <2>1. m \in Messages /\ m \in Nat /\ m # 0
    BY <1>2, VerdictAssumption, MediaAssumption
  <2> QED BY <2>1
<1> HIDE DEF found
<1>4. q \in Run
  BY <1>2, IdleRun, NoTransaction DEF MxIdle, Run
<1>5. /\ q.txn = <<>> /\ q.batch = {} /\ q.due = found /\ q.after = 0 /\ q.scope = S
      /\ q.filter = F /\ q.pc \in {"load", "select"}
  BY DEF MxIdle
<1>6. \A m \in q.due : /\ m \in here /\ ChatOf[m] \in q.scope /\ Wanted(ChatOf[m], q.filter)
                      /\ m > q.after
  BY <1>2, <1>3, <1>5
<1> HIDE DEF q
<1>7. /\ Cardinality(DOMAIN q.txn) < CommitEvery
      /\ \A m \in DOMAIN q.txn : q.txn[m].version = "current"
  <2>1. DOMAIN q.txn = {}
    BY <1>5
  <2> QED BY <1>5, <2>1, NoTransaction
<1>8. q.pc # "save" /\ q.pc # "idle"
  BY <1>5
<1> QED BY <1>1, <1>4, <1>5, <1>6, <1>7, <1>8, SameTexts, RunKeeps

\* What the invariant says of one run.
LEMMA RunFacts ==
  ASSUME Inv, NEW p \in Procs
  PROVE  /\ mx[p] \in Run
         /\ Cardinality(DOMAIN mx[p].txn) < CommitEvery
         /\ mx[p].pc \notin {"work", "save"} => mx[p].txn = <<>>
         /\ mx[p].pc = "save" => mx[p].text \in Texts /\ mx[p].text.version = "current" /\ mx[p].batch # {}
         /\ \A m \in DOMAIN mx[p].txn : mx[p].txn[m].version = "current"
         /\ mx[p].pc \in {"load", "select"} => mx[p].batch = {}
         /\ mx[p].pc = "load" => mx[p].after = 0
         /\ mx[p].pc = "idle" => mx[p] = MxIdle
         /\ \A m \in mx[p].due :
              /\ m \in here /\ ChatOf[m] \in mx[p].scope /\ Wanted(ChatOf[m], mx[p].filter)
              /\ m \in mx[p].batch \/ m > mx[p].after \/ Written(mx[p], m)
         /\ mx[p].batch \in SUBSET Messages /\ mx[p].due \in SUBSET Messages
         /\ mx[p].txn \in Transaction /\ mx[p].regen \in BOOLEAN
<1>1. mx[p] \in Run
  BY DEF Inv, Shapes
<1>2. mx[p].batch \in SUBSET Messages /\ mx[p].due \in SUBSET Messages
      /\ mx[p].txn \in Transaction /\ mx[p].regen \in BOOLEAN
  BY <1>1 DEF Run
<1> QED BY <1>1, <1>2 DEF Inv, LossIsBounded, Writes, Covered

LEMMA SelectKeeps ==
  ASSUME Inv, NEW p \in Procs, MxSelect(p)
  PROVE  Inv'
<1> DEFINE r == mx[p]
           b == NextBatch(r)
           q == [r EXCEPT !.pc = "work", !.batch = b, !.after = Greatest(b)]
           S == {m \in Selectable(r.scope, r.filter, r.regen) : m > r.after}
<1>1. r.pc = "select" /\ b # {} /\ mx' = [mx EXCEPT ![p] = q] /\ UNCHANGED <<tables, texts>>
  BY DEF MxSelect, Inv, Shapes
<1>2. S \in SUBSET Messages /\ b = {m \in S : Cardinality(Before(S, m)) < BatchSize}
  BY DEF Selectable, Inv, Shapes, NextBatch
<1>3. Greatest(b) \in b /\ \A m \in S : m <= Greatest(b) => m \in b
  <2> HIDE DEF S, b
  <2> QED BY <1>1, <1>2, BatchIsBeginning
<1>4. b \subseteq Messages /\ Greatest(b) \in Messages
  BY <1>2, <1>3
<1>5. ASSUME NEW m \in r.due
      PROVE  /\ m \in here /\ ChatOf[m] \in r.scope /\ Wanted(ChatOf[m], r.filter)
             /\ m \in b \/ m > Greatest(b) \/ Written(r, m)
  <2>1. /\ m \in here /\ ChatOf[m] \in r.scope /\ Wanted(ChatOf[m], r.filter)
        /\ m > r.after \/ Written(r, m)
    BY <1>1, RunFacts
  <2>2. m \in Nat /\ Greatest(b) \in Nat
    BY <1>4, RunFacts, VerdictAssumption
  <2>3. Pending(m, r.regen) \/ Written(r, m)
    BY DEF Pending, Written
  <2>4. CASE m \in S
    <3>1. m <= Greatest(b) \/ m > Greatest(b)
      BY <2>2
    <3> QED BY <1>3, <2>1, <2>4, <3>1
  <2>5. CASE m \notin S
    BY <2>1, <2>3, <2>5 DEF Selectable
  <2> QED BY <2>4, <2>5
<1> HIDE DEF b, S
<1>6. q \in Run /\ q.due = r.due /\ q.scope = r.scope /\ q.filter = r.filter /\ q.regen = r.regen
      /\ q.batch = b /\ q.after = Greatest(b) /\ q.txn = r.txn /\ q.pc = "work"
  BY <1>4, RunFacts DEF Run
<1> HIDE DEF q
<1>7. \A m \in q.due : /\ m \in here /\ ChatOf[m] \in q.scope /\ Wanted(ChatOf[m], q.filter)
                      /\ \/ m \in q.batch \/ m > q.after \/ m \in DOMAIN q.txn
                         \/ texts'[m] # Absent /\ (q.regen => texts'[m].version = "current")
  BY <1>1, <1>5, <1>6 DEF Written
<1>8. Cardinality(DOMAIN q.txn) < CommitEvery /\ \A m \in DOMAIN q.txn : q.txn[m].version = "current"
  BY <1>6, RunFacts
<1> QED BY <1>1, <1>6, <1>7, <1>8, SameTexts, RunKeeps

\* A step that changes where a run is, the result in hand or the signal.
LEMMA PlaceKeeps ==
  ASSUME Inv, NEW p \in Procs, NEW q \in Run, mx' = [mx EXCEPT ![p] = q], UNCHANGED <<tables, texts>>,
         q.due = mx[p].due, q.scope = mx[p].scope, q.filter = mx[p].filter, q.regen = mx[p].regen,
         q.batch = mx[p].batch, q.after = mx[p].after, q.txn = mx[p].txn,
         \/ q.pc = mx[p].pc /\ q.text = mx[p].text /\ q.pc # "idle"
         \/ q.pc = "select" /\ mx[p].pc = "load"
         \/ q.pc = "save" /\ mx[p].pc = "work" /\ q.text \in Texts /\ q.text.version = "current"
            /\ q.batch # {}
  PROVE  Inv'
<1>1. \A m \in q.due : /\ m \in here /\ ChatOf[m] \in q.scope /\ Wanted(ChatOf[m], q.filter)
                      /\ \/ m \in q.batch \/ m > q.after \/ m \in DOMAIN q.txn
                         \/ texts'[m] # Absent /\ (q.regen => texts'[m].version = "current")
  BY RunFacts DEF Written
<1>2. /\ Cardinality(DOMAIN q.txn) < CommitEvery
      /\ \A m \in DOMAIN q.txn : q.txn[m].version = "current"
      /\ q.pc \notin {"work", "save"} => q.txn = <<>>
      /\ q.pc = "save" => q.text \in Texts /\ q.text.version = "current" /\ q.batch # {}
      /\ q.pc \in {"load", "select"} => q.batch = {}
      /\ q.pc = "load" => q.after = 0
      /\ q.pc = "idle" => q = MxIdle
  BY RunFacts
<1> QED BY <1>1, <1>2, SameTexts, RunKeeps

LEMMA ExtractKeeps ==
  ASSUME Inv, NEW p \in Procs, NEW t \in Texts, MxExtract(p, t)
  PROVE  Inv'
<1> DEFINE m == Least(mx[p].batch)
           q == [mx[p] EXCEPT !.pc = "save", !.text = t, !.saw = IF mx[p].regen THEN texts[m] ELSE None]
<1>1. /\ mx[p].pc = "work" /\ mx[p].batch # {} /\ mx' = [mx EXCEPT ![p] = q]
      /\ UNCHANGED <<tables, texts>> /\ t.version = "current"
  <2>1. t \in ResultsOf(m)
    BY DEF MxExtract
  <2>2. t.version = "current"
    BY <2>1 DEF ResultsOf
  <2> QED BY <2>2 DEF MxExtract
<1>2. mx[p].batch \subseteq Nat
  BY RunFacts, VerdictAssumption
<1>3. m \in mx[p].batch
  BY <1>1, <1>2, LeastIsLeast
<1>4. texts[m] \in Texts \cup {Absent}
  BY <1>3, RunFacts DEF Inv, Shapes
<1> HIDE DEF m
<1>5. /\ q \in Run /\ q.due = mx[p].due /\ q.scope = mx[p].scope /\ q.filter = mx[p].filter
      /\ q.regen = mx[p].regen /\ q.batch = mx[p].batch /\ q.after = mx[p].after
      /\ q.txn = mx[p].txn /\ q.pc = "save" /\ q.text = t
  BY <1>4, RunFacts DEF Run
<1> HIDE DEF q
<1> QED BY <1>1, <1>5, PlaceKeeps

LEMMA LoadedKeeps ==
  ASSUME Inv, NEW p \in Procs, MxLoaded(p)
  PROVE  Inv'
<1> DEFINE q == [mx[p] EXCEPT !.pc = "select"]
<1>1. mx[p].pc = "load" /\ mx' = [mx EXCEPT ![p] = q] /\ UNCHANGED <<tables, texts>>
  BY DEF MxLoaded, Inv, Shapes
<1>2. /\ q \in Run /\ q.due = mx[p].due /\ q.scope = mx[p].scope /\ q.filter = mx[p].filter
      /\ q.regen = mx[p].regen /\ q.batch = mx[p].batch /\ q.after = mx[p].after
      /\ q.txn = mx[p].txn /\ q.pc = "select"
  BY RunFacts DEF Run
<1> HIDE DEF q
<1> QED BY <1>1, <1>2, PlaceKeeps

LEMMA SigintKeeps ==
  ASSUME Inv, NEW p \in Procs, MxSigint(p)
  PROVE  Inv'
<1> DEFINE q == [mx[p] EXCEPT !.stop = TRUE]
<1>1. mx[p].pc \in {"work", "save"} /\ mx' = [mx EXCEPT ![p] = q] /\ UNCHANGED <<tables, texts>>
  BY DEF MxSigint, Inv, Shapes
<1>2. /\ q \in Run /\ q.due = mx[p].due /\ q.scope = mx[p].scope /\ q.filter = mx[p].filter
      /\ q.regen = mx[p].regen /\ q.batch = mx[p].batch /\ q.after = mx[p].after
      /\ q.txn = mx[p].txn /\ q.pc = mx[p].pc /\ q.text = mx[p].text
  BY RunFacts DEF Run
<1> HIDE DEF q
<1> QED BY <1>1, <1>2, PlaceKeeps

\* The end of a run, a failure: what it has not committed is not there.
LEMMA EndKeeps ==
  ASSUME Inv, NEW p \in Procs, MxTimeout(p) \/ MxEnd(p) \/ MxFail(p)
  PROVE  Inv'
<1>1. mx' = [mx EXCEPT ![p] = MxIdle] /\ UNCHANGED tables /\ UNCHANGED texts
  BY DEF MxTimeout, MxEnd, MxFail, RolledBack
<1> QED BY <1>1, SameTexts, OverKeeps

LEMMA BatchEndKeeps ==
  ASSUME Inv, NEW p \in Procs, MxBatchEnd(p)
  PROVE  Inv'
<1> DEFINE r == mx[p]
           q == [r EXCEPT !.pc = "select", !.txn = <<>>]
<1>1. /\ r.pc = "work" /\ (r.batch = {} \/ r.stop) /\ texts' = Stored(r.txn) /\ UNCHANGED tables
      /\ mx' = [mx EXCEPT ![p] = IF r.stop THEN MxIdle ELSE q]
  BY DEF MxBatchEnd
<1>2. /\ r \in Run /\ r.txn \in Transaction
      /\ \A m \in DOMAIN r.txn : r.txn[m].version = "current"
  BY RunFacts
<1>3. /\ texts' \in [Messages -> Texts \cup {Absent}]
      /\ \A m \in Messages : texts'[m] = texts[m]
                             \/ (texts'[m] # Absent /\ texts'[m].version = "current")
      /\ \A m \in DOMAIN r.txn : m \in Messages /\ texts'[m] # Absent
                                 /\ texts'[m].version = "current"
  BY <1>1, <1>2, StoredTexts
<1>4. CASE r.stop
  BY <1>1, <1>3, <1>4, OverKeeps
<1>5. CASE ~r.stop
  <2>1. r.batch = {} /\ mx' = [mx EXCEPT ![p] = q]
    BY <1>1, <1>5
  <2>2. /\ q \in Run /\ q.due = r.due /\ q.scope = r.scope /\ q.filter = r.filter
        /\ q.regen = r.regen /\ q.batch = {} /\ q.after = r.after /\ q.txn = <<>> /\ q.pc = "select"
    BY <1>2, <2>1, NoTransaction DEF Run
  <2> HIDE DEF q
  <2>3. /\ Cardinality(DOMAIN q.txn) < CommitEvery
        /\ \A m \in DOMAIN q.txn : q.txn[m].version = "current"
    <3>1. DOMAIN q.txn = {}
      BY <2>2
    <3> QED BY <2>2, <3>1, NoTransaction
  <2>4. ASSUME NEW m \in q.due
        PROVE  /\ m \in here /\ ChatOf[m] \in q.scope /\ Wanted(ChatOf[m], q.filter)
               /\ \/ m \in q.batch \/ m > q.after \/ m \in DOMAIN q.txn
                  \/ texts'[m] # Absent /\ (q.regen => texts'[m].version = "current")
    <3>1. /\ m \in here /\ ChatOf[m] \in r.scope /\ Wanted(ChatOf[m], r.filter)
          /\ m > r.after \/ Written(r, m)
          /\ m \in Messages
      BY <2>1, <2>2, RunFacts
    <3>2. Written(r, m) => texts'[m] # Absent /\ (q.regen => texts'[m].version = "current")
      BY <1>3, <2>2, <3>1 DEF Written
    <3> QED BY <2>2, <3>1, <3>2
  <2> QED BY <1>1, <1>3, <2>1, <2>2, <2>3, <2>4, RunKeeps
<1> QED BY <1>4, <1>5

\* One more row in a transaction.
LEMMA WithOneMore ==
  ASSUME NEW d \in Transaction, NEW m \in Messages, NEW t \in Texts, t.version = "current",
         \A x \in DOMAIN d : d[x].version = "current"
  PROVE  /\ With(d, m, t) \in Transaction /\ DOMAIN With(d, m, t) = DOMAIN d \cup {m}
         /\ \A x \in DOMAIN With(d, m, t) : With(d, m, t)[x].version = "current"
         /\ Cardinality(DOMAIN With(d, m, t)) \in Nat
<1>1. PICK D \in SUBSET Messages : d \in [D -> Texts]
  BY DEF Transaction
<1>2. With(d, m, t) \in [D \cup {m} -> Texts] /\ D \cup {m} \in SUBSET Messages
  BY <1>1 DEF With
<1>3. With(d, m, t) \in Transaction
  BY <1>2 DEF Transaction
<1>4. Cardinality(D \cup {m}) \in Nat
  BY <1>2, VerdictAssumption, FS_Subset, FS_CardinalityType
<1> QED BY <1>1, <1>2, <1>3, <1>4 DEF With

LEMMA SaveKeeps ==
  ASSUME Inv, NEW p \in Procs, MxSave(p)
  PROVE  Inv'
<1> DEFINE r == mx[p]
           m == Least(r.batch)
           txn == With(r.txn, m, r.text)
           q == Saved(p)
<1>1. /\ r.pc = "save" /\ UNCHANGED tables
      /\ r \in Run /\ r.batch \in SUBSET Messages /\ r.batch # {} /\ r.txn \in Transaction
      /\ r.text \in Texts /\ r.text.version = "current"
      /\ \A x \in DOMAIN r.txn : r.txn[x].version = "current"
      /\ Cardinality(DOMAIN r.txn) < CommitEvery
  BY RunFacts DEF MxSave
<1>2. r.batch \subseteq Nat
  BY <1>1, VerdictAssumption
<1>3. m \in r.batch /\ m \in Messages
  BY <1>1, <1>2, LeastIsLeast
<1>4. \/ /\ ~r.regen /\ texts[m] # Absent /\ mx' = [mx EXCEPT ![p] = q] /\ UNCHANGED texts
      \/ /\ CommitDue(Cardinality(DOMAIN txn)) /\ texts' = Stored(txn)
         /\ mx' = [mx EXCEPT ![p] = [q EXCEPT !.txn = <<>>]]
      \/ /\ ~CommitDue(Cardinality(DOMAIN txn)) /\ UNCHANGED texts
         /\ mx' = [mx EXCEPT ![p] = [q EXCEPT !.txn = txn]]
  BY DEF MxSave
<1> HIDE DEF m
<1>5. /\ txn \in Transaction /\ DOMAIN txn = DOMAIN r.txn \cup {m}
      /\ \A x \in DOMAIN txn : txn[x].version = "current"
      /\ Cardinality(DOMAIN txn) \in Nat
  BY <1>1, <1>3, WithOneMore
<1>6. /\ q \in Run /\ q.due = r.due /\ q.scope = r.scope /\ q.filter = r.filter
      /\ q.regen = r.regen /\ q.batch = r.batch \ {m} /\ q.after = r.after /\ q.txn = r.txn
      /\ q.pc = "work"
  BY <1>1 DEF Saved, Run, m
<1>7. ASSUME NEW x \in r.due
      PROVE  /\ x \in here /\ ChatOf[x] \in r.scope /\ Wanted(ChatOf[x], r.filter)
             /\ x = m \/ x \in r.batch \ {m} \/ x > r.after \/ Written(r, x)
             /\ x \in Messages
  BY RunFacts
<1> HIDE DEF q, txn
\* ON CONFLICT DO NOTHING
<1>8. CASE ~r.regen /\ texts[m] # Absent /\ mx' = [mx EXCEPT ![p] = q] /\ UNCHANGED texts
  <2>1. Written(r, m)
    BY <1>8 DEF Written
  <2>2. \A x \in q.due : /\ x \in here /\ ChatOf[x] \in q.scope /\ Wanted(ChatOf[x], q.filter)
                        /\ \/ x \in q.batch \/ x > q.after \/ x \in DOMAIN q.txn
                           \/ texts'[x] # Absent /\ (q.regen => texts'[x].version = "current")
    BY <1>6, <1>7, <1>8, <2>1 DEF Written
  <2>3. /\ Cardinality(DOMAIN q.txn) < CommitEvery
        /\ \A x \in DOMAIN q.txn : q.txn[x].version = "current"
    BY <1>1, <1>6
  <2> QED BY <1>1, <1>6, <1>8, <2>2, <2>3, SameTexts, RunKeeps
<1>9. CASE /\ CommitDue(Cardinality(DOMAIN txn)) /\ texts' = Stored(txn)
           /\ mx' = [mx EXCEPT ![p] = [q EXCEPT !.txn = <<>>]]
  <2> DEFINE k == [q EXCEPT !.txn = <<>>]
  <2>1. /\ texts' \in [Messages -> Texts \cup {Absent}]
        /\ \A x \in Messages : texts'[x] = texts[x]
                               \/ (texts'[x] # Absent /\ texts'[x].version = "current")
        /\ \A x \in DOMAIN txn : texts'[x] # Absent /\ texts'[x].version = "current"
    BY <1>5, <1>9, StoredTexts
  <2>2. /\ k \in Run /\ k.due = r.due /\ k.scope = r.scope /\ k.filter = r.filter
        /\ k.regen = r.regen /\ k.batch = r.batch \ {m} /\ k.after = r.after /\ k.txn = <<>>
        /\ k.pc = "work"
    BY <1>6, NoTransaction DEF Run
  <2> HIDE DEF k
  <2>3. /\ Cardinality(DOMAIN k.txn) < CommitEvery
        /\ \A x \in DOMAIN k.txn : k.txn[x].version = "current"
    <3>1. DOMAIN k.txn = {}
      BY <2>2
    <3> QED BY <2>2, <3>1, NoTransaction
  <2>4. ASSUME NEW x \in k.due
        PROVE  /\ x \in here /\ ChatOf[x] \in k.scope /\ Wanted(ChatOf[x], k.filter)
               /\ \/ x \in k.batch \/ x > k.after \/ x \in DOMAIN k.txn
                  \/ texts'[x] # Absent /\ (k.regen => texts'[x].version = "current")
    <3>1. /\ x \in here /\ ChatOf[x] \in r.scope /\ Wanted(ChatOf[x], r.filter) /\ x \in Messages
          /\ x = m \/ x \in r.batch \ {m} \/ x > r.after \/ Written(r, x)
      BY <1>7, <2>2
    <3>2. x = m \/ Written(r, x)
          => texts'[x] # Absent /\ (k.regen => texts'[x].version = "current")
      BY <1>5, <2>1, <2>2, <3>1 DEF Written
    <3> QED BY <2>2, <3>1, <3>2
  <2>5. mx' = [mx EXCEPT ![p] = k]
    BY <1>9 DEF k
  <2> QED BY <1>1, <2>1, <2>2, <2>3, <2>4, <2>5, RunKeeps
<1>10. CASE /\ ~CommitDue(Cardinality(DOMAIN txn)) /\ UNCHANGED texts
            /\ mx' = [mx EXCEPT ![p] = [q EXCEPT !.txn = txn]]
  <2> DEFINE k == [q EXCEPT !.txn = txn]
  <2>1. Cardinality(DOMAIN txn) < CommitEvery
    BY <1>5, <1>10, MediaAssumption DEF CommitDue
  <2>2. /\ k \in Run /\ k.due = r.due /\ k.scope = r.scope /\ k.filter = r.filter
        /\ k.regen = r.regen /\ k.batch = r.batch \ {m} /\ k.after = r.after /\ k.txn = txn
        /\ k.pc = "work"
    BY <1>5, <1>6 DEF Run
  <2>3. mx' = [mx EXCEPT ![p] = k]
    BY <1>10
  <2> HIDE DEF k
  <2>4. \A x \in k.due : /\ x \in here /\ ChatOf[x] \in k.scope /\ Wanted(ChatOf[x], k.filter)
                        /\ \/ x \in k.batch \/ x > k.after \/ x \in DOMAIN k.txn
                           \/ texts'[x] # Absent /\ (k.regen => texts'[x].version = "current")
    BY <1>5, <1>7, <1>10, <2>2 DEF Written
  <2> QED BY <1>1, <1>5, <1>10, <2>1, <2>2, <2>3, <2>4, SameTexts, RunKeeps
<1> QED BY <1>4, <1>8, <1>9, <1>10

LEMMA StepKeeps ==
  ASSUME Inv, NEW p \in Procs, MxStep(p)
  PROVE  Inv'
<1>1. CASE MxLoaded(p)
  BY <1>1, LoadedKeeps
<1>2. CASE MxTimeout(p) \/ MxEnd(p)
  BY <1>2, EndKeeps
<1>3. CASE MxSelect(p)
  BY <1>3, SelectKeeps
<1>4. CASE \E t \in Texts : MxExtract(p, t)
  BY <1>4, ExtractKeeps
<1>5. CASE MxSave(p)
  BY <1>5, SaveKeeps
<1>6. CASE MxBatchEnd(p)
  BY <1>6, BatchEndKeeps
<1> QED BY <1>1, <1>2, <1>3, <1>4, <1>5, <1>6 DEF MxStep

\* What happens to the chats meanwhile: messages are added, none is taken away, and a
\* run owes nothing to a chat whose verdict is another now.
LEMMA MeanwhileKeeps ==
  ASSUME Inv, Meanwhile
  PROVE  Inv'
<1>1. here \subseteq here' /\ here' \subseteq Messages
  BY DEF Meanwhile, TablesNext, Around, Arrive, Analysed, LegacyBegin, LegacyCommit, LegacyRollback,
         Judged, Inv, Shapes
<1>2. UNCHANGED texts /\ mx' = [p \in Procs |-> [mx[p] EXCEPT !.due = StillDue(mx[p])]]
  BY DEF Meanwhile
<1>3. ASSUME NEW p \in Procs
      PROVE  /\ mx'[p] = [mx[p] EXCEPT !.due = StillDue(mx[p])] /\ mx'[p] \in Run
             /\ mx'[p].pc = mx[p].pc /\ mx'[p].scope = mx[p].scope /\ mx'[p].filter = mx[p].filter
             /\ mx'[p].regen = mx[p].regen /\ mx'[p].batch = mx[p].batch /\ mx'[p].txn = mx[p].txn
             /\ mx'[p].after = mx[p].after /\ mx'[p].text = mx[p].text
             /\ mx'[p].due = StillDue(mx[p]) /\ StillDue(mx[p]) \subseteq mx[p].due
  <2>1. StillDue(mx[p]) \subseteq mx[p].due
    BY DEF StillDue
  <2>2. mx[p] \in Run /\ StillDue(mx[p]) \in SUBSET Messages
    BY <2>1, RunFacts
  <2> HIDE DEF StillDue
  <2> QED BY <1>2, <2>1, <2>2 DEF Run
<1>4. Shapes'
  <2>1. mx' \in [Procs -> Run]
    BY <1>2, <1>3
  <2> QED BY <1>1, <1>2, <2>1 DEF Inv, Shapes
<1>5. LossIsBounded'
  BY <1>3 DEF Inv, LossIsBounded
<1>6. Writes'
  <2> SUFFICES ASSUME NEW p \in Procs
               PROVE  /\ mx'[p].pc = "save" => mx'[p].text \in Texts /\ mx'[p].text.version = "current"
                                               /\ mx'[p].batch # {}
                      /\ \A m \in DOMAIN mx'[p].txn : mx'[p].txn[m].version = "current"
                      /\ mx'[p].pc \in {"load", "select"} => mx'[p].batch = {}
                      /\ mx'[p].pc = "load" => mx'[p].after = 0
                      /\ mx'[p].pc = "idle" => mx'[p] = MxIdle
    BY DEF Writes
  <2>1. ASSUME mx[p].pc = "idle" PROVE mx'[p] = MxIdle
    <3>1. mx[p] = MxIdle
      BY <2>1, RunFacts
    <3>2. StillDue(mx[p]) = {}
      BY <3>1 DEF StillDue, MxIdle
    <3>3. [MxIdle EXCEPT !.due = {}] = MxIdle
      <4>1. MxIdle.due = {}
        BY DEF MxIdle
      <4>2. \A r \in Run : [r EXCEPT !.due = r.due] = r
        BY DEF Run
      <4> QED BY <4>1, <4>2, IdleRun
    <3>4. mx'[p] = [mx[p] EXCEPT !.due = StillDue(mx[p])]
      BY <1>3
    <3> QED BY <3>1, <3>2, <3>3, <3>4
  <2>2. /\ mx[p].pc = "save" => mx[p].text \in Texts /\ mx[p].text.version = "current"
                                 /\ mx[p].batch # {}
        /\ \A m \in DOMAIN mx[p].txn : mx[p].txn[m].version = "current"
        /\ mx[p].pc \in {"load", "select"} => mx[p].batch = {}
        /\ mx[p].pc = "load" => mx[p].after = 0
    BY RunFacts
  <2>3. /\ mx'[p].pc = mx[p].pc /\ mx'[p].batch = mx[p].batch /\ mx'[p].txn = mx[p].txn
        /\ mx'[p].after = mx[p].after /\ mx'[p].text = mx[p].text
    BY <1>3
  <2> QED BY <2>1, <2>2, <2>3
<1>7. Covered'
  <2> SUFFICES ASSUME NEW p \in Procs, NEW m \in (mx[p].due)'
               PROVE  /\ m \in here' /\ ChatOf[m] \in mx'[p].scope
                      /\ Wanted(ChatOf[m], mx[p].filter)'
                      /\ m \in mx'[p].batch \/ m > mx'[p].after \/ Written(mx[p], m)'
    BY DEF Covered
  <2>1. m \in StillDue(mx[p]) /\ m \in mx[p].due
    BY <1>3
  <2>2. Wanted(ChatOf[m], mx[p].filter)'
    BY <1>3, <2>1 DEF StillDue, Wanted
  <2>3. Written(mx[p], m) => Written(mx[p], m)'
    BY <1>2, <1>3 DEF Written
  <2> QED BY <1>1, <1>3, <2>1, <2>2, <2>3, RunFacts
<1> QED BY <1>4, <1>5, <1>6, <1>7 DEF Inv

LEMMA InitInv == Init => Inv
<1> SUFFICES ASSUME Init PROVE Inv
  OBVIOUS
<1>1. here = Old /\ Old \subseteq Messages
  BY VerdictAssumption DEF Init, TablesInit
<1>2. mx = [p \in Procs |-> MxIdle]
  BY DEF Init
<1>3. Shapes
  BY <1>1, <1>2, IdleRun DEF Init, Shapes, Texts, ExtractorVersions
<1>4. \A p \in Procs : mx[p].txn = <<>> /\ mx[p].pc = "idle" /\ mx[p].due = {} /\ mx[p] = MxIdle
  BY <1>2 DEF MxIdle
<1>5. DOMAIN <<>> = {}
  OBVIOUS
<1>6. LossIsBounded
  BY <1>4, NoTransaction DEF LossIsBounded
<1>7. Writes
  BY <1>4, <1>5 DEF Writes
<1>8. Covered
  BY <1>4 DEF Covered
<1> QED BY <1>3, <1>6, <1>7, <1>8 DEF Inv

LEMMA NextInv == Inv /\ [Next]_vars => Inv'
<1> SUFFICES ASSUME Inv, [Next]_vars PROVE Inv'
  OBVIOUS
<1>1. CASE Meanwhile
  BY <1>1, MeanwhileKeeps
<1>2. ASSUME NEW p \in Procs, NEW F \in Filters, NEW regen \in BOOLEAN,
             MxStart(p, Chats, F, regen) \/ \E c \in Chats : MxStart(p, {c}, F, regen)
      PROVE  Inv'
  BY <1>2, StartKeeps
<1>3. ASSUME NEW p \in Procs, MxStep(p) \/ MxSigint(p) \/ MxFail(p) PROVE Inv'
  BY <1>3, StepKeeps, SigintKeeps, EndKeeps
<1>4. CASE UNCHANGED vars
  <2>1. UNCHANGED <<here, rows, texts, mx>>
    BY <1>4 DEF vars, tables
  <2>2. \A c, F : Wanted(c, F)' = Wanted(c, F)
    BY <2>1, SameVerdicts
  <2>3. Shapes' /\ LossIsBounded' /\ Writes'
    BY <2>1 DEF Inv, Shapes, LossIsBounded, Writes
  <2>4. Covered'
    BY <2>1, <2>2 DEF Inv, Covered, Written
  <2> QED BY <2>3, <2>4 DEF Inv
<1> QED BY <1>1, <1>2, <1>3, <1>4 DEF Next

THEOREM Invariant == Spec => []Inv
BY InitInv, NextInv, PTL DEF Spec

\* A crash loses fewer results than COMMIT_BATCH_SIZE, and none between batches
\* (media_extract/cli.py:501).
THEOREM LossBounded == Spec => []LossIsBounded
<1>1. Inv => LossIsBounded
  BY DEF Inv
<1> QED BY <1>1, Invariant, PTL

\* A run that ends has passed over no message it found pending
\* (select_pending_messages and its cursor).
THEOREM NothingLeft == Spec => []RunLeavesNothing
BY DoneLeavesNothing, Invariant, PTL

\* What a save commits is a transaction of this version.
LEMMA SavedTexts ==
  ASSUME Inv, NEW p \in Procs, MxSave(p)
  PROVE  \/ UNCHANGED texts
         \/ \E t \in Transaction : /\ \A m \in DOMAIN t : t[m].version = "current"
                                  /\ texts' = Stored(t)
<1> DEFINE r == mx[p]
           m == Least(r.batch)
           txn == With(r.txn, m, r.text)
<1>1. /\ r.batch \in SUBSET Messages /\ r.batch # {} /\ r.txn \in Transaction
      /\ r.text \in Texts /\ r.text.version = "current"
      /\ \A x \in DOMAIN r.txn : r.txn[x].version = "current"
  BY RunFacts DEF MxSave
<1>2. r.batch \subseteq Nat
  BY <1>1, VerdictAssumption
<1>3. m \in Messages
  BY <1>1, <1>2, LeastIsLeast
<1>4. UNCHANGED texts \/ texts' = Stored(txn)
  BY DEF MxSave
<1> HIDE DEF m
<1>5. /\ txn \in Transaction /\ DOMAIN txn = DOMAIN r.txn \cup {m}
      /\ \A x \in DOMAIN txn : txn[x].version = "current"
  BY <1>1, <1>3, WithOneMore
<1> HIDE DEF txn
<1> QED BY <1>4, <1>5

\* No step takes a text away: what is stored is a text.
LEMMA TextsAreKept ==
  ASSUME Inv, [Next]_vars, NEW m \in Messages, texts[m] # Absent
  PROVE  texts'[m] # Absent
<1>1. CASE UNCHANGED texts
  BY <1>1
<1>2. ASSUME NEW p \in Procs, MxBatchEnd(p) PROVE texts'[m] # Absent
  <2>1. texts' = Stored(mx[p].txn)
    BY <1>2 DEF MxBatchEnd
  <2> QED BY <2>1, RunFacts, StoredTexts
<1>3. ASSUME NEW p \in Procs, MxSave(p) PROVE texts'[m] # Absent
  BY <1>3, SavedTexts, StoredTexts
<1>4. \/ UNCHANGED texts \/ \E p \in Procs : MxBatchEnd(p) \/ MxSave(p)
  BY DEF vars, Next, Meanwhile, MxStart, MxStep, MxLoaded, MxTimeout, MxSelect, MxEnd, MxExtract,
         MxSigint, MxFail, RolledBack
<1> QED BY <1>1, <1>2, <1>3, <1>4

\* The table of extractions is an archive: a message that has a text keeps one, whatever
\* runs meet, fail or start over (save_extraction).
THEOREM KeepsTexts == Spec => TextsStay
<1>1. Init => TextArchive!Init
  BY DEF TextArchive!Init, TextArchive!KeysDiffer, TextKey
<1>2. Inv /\ [Next]_vars => [TextArchive!Add]_MessagesWithText
  <2> SUFFICES ASSUME Inv, [Next]_vars, MessagesWithText' # MessagesWithText
               PROVE  TextArchive!Add
    OBVIOUS
  <2>1. MessagesWithText \subseteq MessagesWithText'
    BY TextsAreKept DEF MessagesWithText
  <2> QED BY <2>1 DEF TextArchive!Add, TextArchive!KeysDiffer, TextKey
<1> QED BY <1>1, <1>2, Invariant, PTL DEF Spec, TextsStay, TextArchive!Spec

\* A batch holds messages that are there.
InHand == \A p \in Procs : mx[p].batch \subseteq here

LEMMA HandStep ==
  ASSUME Inv, TablesOK, InHand, [Next]_vars
  PROVE  TablesOK' /\ InHand'
<1>1. CASE Meanwhile
  <2>1. TablesOK' /\ here \subseteq here'
    BY <1>1, TablesKeep DEF Meanwhile
  <2>2. \A p \in Procs : mx'[p] = [mx[p] EXCEPT !.due = StillDue(mx[p])] /\ mx[p] \in Run
    BY <1>1, RunFacts DEF Meanwhile
  <2>3. \A p \in Procs : mx'[p].batch = mx[p].batch
    BY <2>2 DEF Run
  <2> QED BY <2>1, <2>3 DEF InHand
<1>2. ASSUME NEW p \in Procs, NEW q, mx' = [mx EXCEPT ![p] = q], q.batch \subseteq here,
             UNCHANGED tables
      PROVE  TablesOK' /\ InHand'
  <2>1. here' = here /\ rows' = rows /\ legacy' = legacy
    BY <1>2 DEF tables
  <2>2. \A r \in Procs : mx'[r] = IF r = p THEN q ELSE mx[r]
    BY <1>2 DEF Inv, Shapes
  <2> QED BY <1>2, <2>1, <2>2 DEF TablesOK, InHand
<1>3. MxIdle.batch \subseteq here
  BY DEF MxIdle
<1>4. ASSUME NEW p \in Procs, NEW F, NEW regen, NEW S, MxStart(p, S, F, regen)
      PROVE  TablesOK' /\ InHand'
  <2>1. PICK pc, due : mx' = [mx EXCEPT ![p] = [MxIdle EXCEPT !.pc = pc, !.scope = S, !.filter = F,
                                                             !.regen = regen, !.due = due]]
    BY <1>4 DEF MxStart
  <2>2. [MxIdle EXCEPT !.pc = pc, !.scope = S, !.filter = F, !.regen = regen, !.due = due].batch = {}
    BY DEF MxIdle
  <2> QED BY <1>2, <1>4, <2>1, <2>2 DEF MxStart
<1>5. ASSUME NEW p \in Procs, MxTimeout(p) \/ MxEnd(p) \/ MxFail(p) PROVE TablesOK' /\ InHand'
  BY <1>2, <1>3, <1>5 DEF MxTimeout, MxEnd, MxFail
<1>6. ASSUME NEW p \in Procs, MxLoaded(p) \/ MxSigint(p) \/ \E t \in Texts : MxExtract(p, t)
      PROVE  TablesOK' /\ InHand'
  <2>1. PICK r \in Run : r = mx[p]
    BY RunFacts
  <2>2. r.batch \subseteq here /\ mx \in [Procs -> Run]
    BY <2>1 DEF InHand, Inv, Shapes
  <2>3. \E q : mx' = [mx EXCEPT ![p] = q] /\ q.batch = r.batch
    <3>1. CASE MxLoaded(p)
      <4>1. mx' = [mx EXCEPT ![p] = [r EXCEPT !.pc = "select"]]
        BY <2>1, <2>2, <3>1 DEF MxLoaded
      <4>2. [r EXCEPT !.pc = "select"].batch = r.batch
        BY DEF Run
      <4> QED BY <4>1, <4>2
    <3>2. CASE MxSigint(p)
      <4>1. mx' = [mx EXCEPT ![p] = [r EXCEPT !.stop = TRUE]]
        BY <2>1, <2>2, <3>2 DEF MxSigint
      <4>2. [r EXCEPT !.stop = TRUE].batch = r.batch
        BY DEF Run
      <4> QED BY <4>1, <4>2
    <3>3. ASSUME NEW t \in Texts, MxExtract(p, t)
          PROVE  \E q : mx' = [mx EXCEPT ![p] = q] /\ q.batch = r.batch
      <4>1. PICK saw : mx' = [mx EXCEPT ![p] = [r EXCEPT !.pc = "save", !.text = t, !.saw = saw]]
        BY <2>1, <2>2, <3>3 DEF MxExtract
      <4>2. [r EXCEPT !.pc = "save", !.text = t, !.saw = saw].batch = r.batch
        BY DEF Run
      <4> QED BY <4>1, <4>2
    <3> QED BY <1>6, <3>1, <3>2, <3>3
  <2>4. UNCHANGED tables
    BY <1>6 DEF MxLoaded, MxSigint, MxExtract
  <2> QED BY <1>2, <2>2, <2>3, <2>4
<1>7. ASSUME NEW p \in Procs, MxSelect(p) PROVE TablesOK' /\ InHand'
  <2>1. PICK r \in Run : r = mx[p]
    BY RunFacts
  <2>2. PICK b : b = NextBatch(r)
    OBVIOUS
  <2>3. b \subseteq here
    BY <2>2 DEF NextBatch, Selectable
  <2>4. mx \in [Procs -> Run]
    BY DEF Inv, Shapes
  <2>5. PICK after : mx' = [mx EXCEPT ![p] = [r EXCEPT !.pc = "work", !.batch = b, !.after = after]]
    BY <1>7, <2>1, <2>2, <2>4 DEF MxSelect
  <2>6. [r EXCEPT !.pc = "work", !.batch = b, !.after = after].batch = b
    BY DEF Run
  <2> QED BY <1>2, <1>7, <2>3, <2>5, <2>6 DEF MxSelect
<1>8. ASSUME NEW p \in Procs, MxSave(p) \/ MxBatchEnd(p) PROVE TablesOK' /\ InHand'
  <2>1. PICK r \in Run : r = mx[p]
    BY RunFacts
  <2>2. r.batch \subseteq here /\ mx \in [Procs -> Run]
    BY <2>1 DEF InHand, Inv, Shapes
  <2>3. \E q : mx' = [mx EXCEPT ![p] = q] /\ q.batch \subseteq r.batch
    <3>1. CASE MxSave(p)
      <4>1. PICK q : q = Saved(p)
        OBVIOUS
      <4>2. q \in [pc : {"work"}, scope : SUBSET Chats, filter : Filters \cup {{}}, regen : BOOLEAN,
                   due : SUBSET Messages, after : Messages \cup {0}, batch : SUBSET r.batch,
                   text : {None}, saw : {None}, txn : Transaction, stop : BOOLEAN]
        BY <2>1, <4>1 DEF Saved, Run
      <4>3. \/ mx' = [mx EXCEPT ![p] = q]
            \/ \E t : mx' = [mx EXCEPT ![p] = [q EXCEPT !.txn = t]]
        BY <3>1, <4>1 DEF MxSave
      <4> QED BY <4>2, <4>3
    <3>2. CASE MxBatchEnd(p)
      <4>1. mx' = [mx EXCEPT ![p] = IF r.stop THEN MxIdle ELSE [r EXCEPT !.pc = "select", !.txn = <<>>]]
        BY <2>1, <3>2 DEF MxBatchEnd
      <4>2. MxIdle.batch = {} /\ [r EXCEPT !.pc = "select", !.txn = <<>>].batch = r.batch
        BY DEF MxIdle, Run
      <4> QED BY <4>1, <4>2
    <3> QED BY <1>8, <3>1, <3>2
  <2>4. UNCHANGED tables
    BY <1>8 DEF MxSave, MxBatchEnd
  <2> QED BY <1>2, <2>2, <2>3, <2>4
<1>9. CASE UNCHANGED vars
  BY <1>9 DEF vars, tables, TablesOK, InHand
<1> QED BY <1>1, <1>4, <1>5, <1>6, <1>7, <1>8, <1>9 DEF Next, MxStep

\* The extractor's runs, its texts and the rows of the chats keep their types; what a
\* run works on are messages that are there.
THEOREM TypeCorrect == Spec => []TypeOK
<1>1. Init => TablesOK /\ InHand
  <2> SUFFICES ASSUME Init PROVE TablesOK /\ InHand
    OBVIOUS
  <2>1. TablesInit /\ mx = [p \in Procs |-> MxIdle]
    BY DEF Init
  <2> QED BY <2>1, TablesAtFirst DEF InHand, MxIdle
<1>2. Inv /\ TablesOK /\ InHand => TypeOK
  <2> SUFFICES ASSUME Inv, TablesOK, InHand PROVE TypeOK
    OBVIOUS
  <2>1. ASSUME NEW p \in Procs
        PROVE  /\ mx[p] \in Run /\ mx[p].batch \subseteq here
               /\ DOMAIN mx[p].txn \subseteq Messages
               /\ \A m \in DOMAIN mx[p].txn : mx[p].txn[m] \in Texts /\ mx[p].txn[m].version = "current"
    <3>1. PICK D \in SUBSET Messages : mx[p].txn \in [D -> Texts]
      BY RunFacts DEF Transaction
    <3> QED BY <3>1, RunFacts DEF InHand
  <2>2. texts \in [Messages -> Texts \cup {Absent}]
    BY DEF Inv, Shapes
  <2> QED BY <2>1, <2>2 DEF TypeOK, Run
<1>3. Inv /\ TablesOK /\ InHand /\ [Next]_vars => (TablesOK /\ InHand)'
  BY HandStep
<1> QED BY <1>1, <1>2, <1>3, Invariant, PTL DEF Spec
=============================================================================
