----------------------------- MODULE TgImportProofs -----------------------------
(* Nothing is lost, doubled or left without its metadata, and nothing misplaced    *)
(* past the comparison of phones, for any accounts, chats, messages and exports,   *)
(* any number of imports at a time and any size of batch.  A transaction has       *)
(* inserted the beginning of its new messages, what it has inserted has keys that  *)
(* nobody else's rows have, and in a chat that no message of another account has   *)
(* come into the stored messages are the first of it.                              *)
EXTENDS TgImport, FiniteSetTheorems, WellFoundedInduction, TLAPS

(* ------------------------------ the invariant ---------------------------- *)

\* Everything of a chat up to an id is stored.
StoredUpTo(a, t, i) ==
  \A j \in DOMAIN ChatOf[a] :
    j <= i /\ ChatOf[a][j] = t /\ Kind[a][j] # "skipped" => <<a, j>> \in stored[a]

\* An unmixed chat holds the beginning of its messages.
NoGaps ==
  \A a \in Accounts, t \in Chats : Unmixed(a, t) =>
    \A m \in stored[a] : ChatIn(m) = t => StoredUpTo(a, t, m[2])

\* A chat has one row per id.
OneRowPerKey ==
  \A a \in Accounts : \A x, y \in stored[a] : x[2] = y[2] /\ ChatIn(x) = ChatIn(y) => x = y

\* A transaction has inserted or found what lies before what is left of its new
\* messages, its rows are new to the table, and what it holds to be old is stored.
Transaction(r) ==
  LET new == NewIn(r.file, r.chat, r.mark)
  IN  /\ r.left \subseteq new /\ r.rows \subseteq new \ r.left
      /\ \A m \in new \ r.left : m \in r.rows \/ Present(stored[r.acc], m)
      /\ \A m \in new \ r.left, x \in r.left : m[2] < x[2]
      /\ r.pc = "commit" => r.left = {}
      /\ \A m \in r.rows : ~Present(stored[r.acc], m)
      /\ r.mark \in Ids /\ Unmixed(r.acc, r.chat) => StoredUpTo(r.acc, r.chat, r.mark)

\* An import has compared the phone if there was one; unless a chat has failed, every
\* message of its own account's export is stored if its chat is unmixed and dealt with.
ImportOK(p) ==
  LET r == imp[p]
  IN  /\ r.pc \notin {"insert", "commit"} => r.left = {} /\ r.rows = {}
      /\ r.pc # "idle" => r.acc \in Accounts /\ r.read \in Files /\ SamePhone(r.read, r.acc)
      /\ r.pc = "parse" => files[r.acc] # None
      /\ r.pc \notin {"idle", "parse"} =>
           /\ r.file \in Files /\ account[r.acc] # Absent
           /\ r.pc # "next" => r.chat \in Chats
           /\ r.pc \in {"insert", "commit"} => Transaction(r)
           /\ ~r.failed /\ r.file.of = r.acc => \A m \in Parsed(r.file) :
                \/ m \in stored[r.acc] \/ ~Unmixed(r.acc, ChatIn(m))
                \/ ChatIn(m) \in r.todo \/ (r.pc # "next" /\ ChatIn(m) = r.chat)

\* No two transactions of an account have inserted one key.
Apart(p, q) ==
  imp[p].acc = imp[q].acc => \A m \in imp[p].rows : ~Present(imp[q].rows, m)

\* The messages of the first import and their chats stay in the database.
LegacyKept ==
  \A a \in Accounts : /\ {a} \X Legacy[a] \subseteq stored[a]
                      /\ \A i \in Legacy[a] : chats[a][ChatOf[a][i]] # Absent

\* The backfill knows every chat of the first import, and a message of it that has no
\* row of metadata is in a chat to come or about to get one.
BackfillOK ==
  bf.pc # "idle" =>
    /\ bf.acc \in Accounts /\ bf.file \in Files
    /\ {ChatOf[bf.acc][i] : i \in Legacy[bf.acc]} \subseteq bf.known
    /\ bf.file.of = bf.acc => \A m \in WithMedia(Parsed(bf.file)) :
         m[2] \in Legacy[bf.acc] =>
           \/ ChatIn(m) \in bf.todo
           \/ bf.pc = "insert" /\ m \in bf.found
           \/ Present(media[bf.acc], m)

Inv ==
  /\ TypeOK
  /\ UpToWatermark /\ NoGaps
  /\ OneRowPerKey
  /\ MediaRecorded
  /\ LegacyKept
  /\ \A p \in Procs : ImportOK(p)
  /\ \A p, q \in Procs : p # q => Apart(p, q)
  /\ BackfillOK

Runs == [pc : Pcs, acc : Accounts \cup {None}, read : Files \cup {None},
         file : Files \cup {None}, todo : SUBSET Chats, chat : Chats \cup {None}, mark : Ids \cup {None},
         left : SUBSET Messages, rows : SUBSET Messages, ok : BOOLEAN, failed : BOOLEAN]
Backfills == [pc : {"idle", "next", "insert"}, acc : Accounts \cup {None},
              file : Files \cup {None}, known : SUBSET Chats, todo : SUBSET Chats,
              chat : Chats \cup {None}, found : SUBSET Messages]

(* -------------------------- messages and exports ------------------------- *)

\* A message's chat is one of the account's.
LEMMA ChatOfType ==
  ASSUME NEW a \in Accounts
  PROVE  DOMAIN ChatOf[a] \subseteq Ids /\ \A i \in DOMAIN ChatOf[a] : ChatOf[a][i] \in Chats
<1>1. ChatOf[a] \in UNION {[S -> Chats] : S \in SUBSET Ids}
  BY TgAssumption
<1>2. PICK S \in SUBSET Ids : ChatOf[a] \in [S -> Chats]
  BY <1>1
<1> QED BY <1>2

LEMMA MessageFacts ==
  ASSUME NEW m \in Messages
  PROVE  /\ m[1] \in Accounts /\ m[2] \in DOMAIN ChatOf[m[1]] /\ m[2] \in Ids /\ m[2] \in Nat
         /\ m = <<m[1], m[2]>> /\ ChatIn(m) \in Chats
<1>1. m \in Accounts \X Ids /\ m[2] \in DOMAIN ChatOf[m[1]]
  BY DEF Messages
<1>2. m[1] \in Accounts /\ m[2] \in Ids /\ m = <<m[1], m[2]>>
  BY <1>1
<1>3. ChatOf[m[1]][m[2]] \in Chats
  BY <1>1, <1>2, ChatOfType
<1> QED BY <1>1, <1>2, <1>3, TgAssumption DEF ChatIn

\* The messages of an export are its account's, and so is every chat of theirs.
LEMMA ParsedFacts ==
  ASSUME NEW f \in Files
  PROVE  /\ f.of \in Accounts /\ f.upto \in Ids /\ f.upto \in Nat
         /\ Parsed(f) \subseteq Messages
         /\ \A m \in Parsed(f) : m = <<f.of, m[2]>> /\ m[1] = f.of /\ m[2] \in DOMAIN ChatOf[f.of]
                                 /\ ChatIn(m) \in ChatsOf(f.of)
         /\ ChatsOf(f.of) \subseteq Chats
BY MessageFacts, ChatOfType, TgAssumption DEF Files, Parsed, ChatsOf, ChatIn

\* A message of an account is told by its id.
LEMMA SameMessage ==
  ASSUME NEW m \in Messages, NEW x \in Messages, x[1] = m[1], x[2] = m[2]
  PROVE  x = m
BY MessageFacts

\* What is in a set is present there.
LEMMA PresentIn == ASSUME NEW S, NEW m \in S PROVE Present(S, m)
BY DEF Present

\* What is present stays so when rows are added.
LEMMA PresentStays ==
  ASSUME NEW S, NEW T, S \subseteq T, NEW m, Present(S, m)
  PROVE  Present(T, m)
BY DEF Present

(* ----------------------------- sets of numbers --------------------------- *)

\* Among parts of a finite set there is one none of whose own parts is among them.
LEMMA SmallestPart ==
  ASSUME NEW S, IsFiniteSet(S), NEW B, B \subseteq SUBSET S, B # {}
  PROVE  \E s \in B : \A t \in SUBSET s : t # s => t \notin B
<1> DEFINE R == StrictSubsetOrdering(S)
<1>1. IsWellFoundedOn(R, SUBSET S)
  BY FS_StrictSubsetOrderingWellFounded, FS_FiniteSubsetsOfFinite
<1>2. PICK s \in B : \A t \in B : ~(<<t, s>> \in R)
  <2> HIDE DEF R
  <2> QED BY <1>1, WFMin
<1>3. ASSUME NEW t \in SUBSET s, t # s, t \in B PROVE FALSE
  <2>1. <<t, s>> \in R
    BY <1>2, <1>3 DEF StrictSubsetOrdering
  <2> QED BY <1>2, <1>3, <2>1
<1> QED BY <1>2, <1>3

\* The greatest id is there: a smallest part that reaches above all has one element.
LEMMA LastIsLast ==
  ASSUME NEW S, S \subseteq Ids, S # {}
  PROVE  Last(S) \in S /\ \A j \in S : j <= Last(S)
<1> DEFINE Above_(T) == \A i \in S : \E j \in T : i <= j
           B == {T \in SUBSET S : Above_(T)}
<1>1. IsFiniteSet(S) /\ S \subseteq Nat
  BY TgAssumption, FS_Subset
<1>2. S \in B
  BY <1>1
<1>3. PICK T \in B : \A t \in SUBSET T : t # T => t \notin B
  <2>1. B \subseteq SUBSET S /\ B # {}
    BY <1>2
  <2> HIDE DEF B
  <2> QED BY <1>1, <2>1, SmallestPart
<1>4. PICK k \in T : TRUE
  BY <1>3
<1>5. ASSUME NEW j \in T, j # k PROVE FALSE
  <2>1. \A i, l \in S : i <= l \/ l <= i
    BY <1>1
  <2>2. \A i, l, n \in S : i <= l /\ l <= n => i <= n
    BY <1>1
  <2>3. j <= k => T \ {j} \in B
    BY <1>3, <1>4, <1>5, <2>2
  <2>4. k <= j => T \ {k} \in B
    BY <1>3, <1>4, <1>5, <2>2
  <2> QED BY <1>3, <1>4, <1>5, <2>1, <2>3, <2>4
<1>6. k \in S /\ \A i \in S : i <= k
  BY <1>3, <1>4, <1>5
<1> QED BY <1>6 DEF Last

\* A batch is the beginning of what is left.
LEMMA BatchIsBeginning ==
  ASSUME NEW a, NEW S, S \subseteq {a} \X Ids
  PROVE  /\ NextBatch(S) \subseteq S
         /\ \A m \in NextBatch(S), x \in S \ NextBatch(S) : m[2] < x[2]
<1> DEFINE Less(m) == {y \in S : y[2] < m[2]}
<1>1. IsFiniteSet({a} \X Ids)
  BY TgAssumption, FS_Singleton, FS_Product
<1>2. \A m \in S : m[2] \in Nat
  BY TgAssumption
<1>3. NextBatch(S) = {m \in S : Cardinality(Less(m)) < Batch}
  BY DEF NextBatch
<1>4. \A m \in S : IsFiniteSet(Less(m)) /\ Cardinality(Less(m)) \in Nat
  <2> TAKE m \in S
  <2>1. Less(m) \in SUBSET ({a} \X Ids)
    OBVIOUS
  <2> QED BY <1>1, <2>1, FS_Subset, FS_CardinalityType
<1>5. ASSUME NEW m \in NextBatch(S), NEW x \in S \ NextBatch(S), ~(m[2] < x[2]) PROVE FALSE
  <2>1. m \in S /\ Cardinality(Less(m)) < Batch /\ ~(Cardinality(Less(x)) < Batch)
    BY <1>3, <1>5
  <2>2. Less(x) \in SUBSET Less(m)
    <3>1. m[2] \in Nat /\ x[2] \in Nat /\ x[2] <= m[2]
      BY <1>2, <1>5, <2>1
    <3> QED BY <1>2, <3>1
  <2>3. Cardinality(Less(x)) <= Cardinality(Less(m))
    BY <1>4, <2>1, <2>2, FS_Subset
  <2>4. Cardinality(Less(x)) \in Nat /\ Cardinality(Less(m)) \in Nat /\ Batch \in Nat
    BY <1>4, <2>1, TgAssumption
  <2> QED BY <2>1, <2>3, <2>4
<1> QED BY <1>3, <1>5


(* ------------------------- what a step leaves alone ---------------------- *)

\* What is stored up to an id stays so when messages are added.
LEMMA StoredStays ==
  ASSUME NEW a, NEW t, NEW i, StoredUpTo(a, t, i), stored[a] \subseteq stored'[a]
  PROVE  StoredUpTo(a, t, i)'
BY DEF StoredUpTo

\* A chat is unmixed if it is so with more messages.
LEMMA WasUnmixed ==
  ASSUME NEW a, NEW t, stored[a] \subseteq stored'[a], Unmixed(a, t)'
  PROVE  Unmixed(a, t)
BY DEF Unmixed, ChatIn

\* An import is as it was when others add messages whose keys it has not inserted.
LEMMA ImportStays ==
  ASSUME NEW p \in Procs, ImportOK(p), imp'[p] = imp[p],
         \A a \in Accounts : /\ stored[a] \subseteq stored'[a]
                             /\ account[a] # Absent => account'[a] # Absent
                             /\ files[a] # None => files'[a] # None,
         \A m \in imp[p].rows :
           Present(stored'[imp[p].acc], m) => Present(stored[imp[p].acc], m)
  PROVE  ImportOK(p)'
<1>1. PICK r : r = imp[p]
  OBVIOUS
<1>2. imp'[p] = r
  BY <1>1
<1>3. r.pc \notin {"insert", "commit"} => r.left = {} /\ r.rows = {}
  BY <1>1 DEF ImportOK
<1>4. r.pc # "idle" => r.acc \in Accounts /\ r.read \in Files /\ SamePhone(r.read, r.acc)
  BY <1>1 DEF ImportOK
<1>5. r.pc = "parse" => files'[r.acc] # None
  BY <1>1, <1>4 DEF ImportOK
<1>6. ASSUME r.pc \notin {"idle", "parse"}
      PROVE  /\ r.file \in Files /\ account'[r.acc] # Absent
             /\ r.pc # "next" => r.chat \in Chats
             /\ r.pc \in {"insert", "commit"} => Transaction(r)'
             /\ ~r.failed /\ r.file.of = r.acc => \A m \in Parsed(r.file) :
                  \/ m \in stored'[r.acc] \/ ~Unmixed(r.acc, ChatIn(m))'
                  \/ ChatIn(m) \in r.todo \/ (r.pc # "next" /\ ChatIn(m) = r.chat)
  <2>1. /\ r.file \in Files /\ account[r.acc] # Absent /\ r.acc \in Accounts
        /\ r.pc # "next" => r.chat \in Chats
        /\ r.pc \in {"insert", "commit"} => Transaction(r)
        /\ ~r.failed /\ r.file.of = r.acc => \A m \in Parsed(r.file) :
             \/ m \in stored[r.acc] \/ ~Unmixed(r.acc, ChatIn(m))
             \/ ChatIn(m) \in r.todo \/ (r.pc # "next" /\ ChatIn(m) = r.chat)
    BY <1>1, <1>4, <1>6 DEF ImportOK
  <2>2. stored[r.acc] \subseteq stored'[r.acc] /\ account'[r.acc] # Absent
    BY <2>1
  <2>3. ASSUME Transaction(r) PROVE Transaction(r)'
    <3>1. PICK new : new = NewIn(r.file, r.chat, r.mark)
      OBVIOUS
    <3>2. \A m : Present(stored[r.acc], m) => Present(stored'[r.acc], m)
      BY <2>2, PresentStays
    <3>3. \A m \in r.rows : ~Present(stored'[r.acc], m)
      BY <1>1, <2>3 DEF Transaction
    <3>4. r.mark \in Ids /\ Unmixed(r.acc, r.chat)' => StoredUpTo(r.acc, r.chat, r.mark)'
      BY <2>2, <2>3, WasUnmixed, StoredStays DEF Transaction
    <3>5. /\ r.left \subseteq new /\ r.rows \subseteq new \ r.left
          /\ \A m \in new \ r.left : m \in r.rows \/ Present(stored'[r.acc], m)
          /\ \A m \in new \ r.left, x \in r.left : m[2] < x[2]
          /\ r.pc = "commit" => r.left = {}
      BY <2>3, <3>1, <3>2 DEF Transaction
    <3> QED BY <3>1, <3>3, <3>4, <3>5 DEF Transaction
  <2>4. ASSUME ~r.failed, r.file.of = r.acc, NEW m \in Parsed(r.file)
        PROVE  \/ m \in stored'[r.acc] \/ ~Unmixed(r.acc, ChatIn(m))'
               \/ ChatIn(m) \in r.todo \/ (r.pc # "next" /\ ChatIn(m) = r.chat)
    <3>1. PICK t : t = ChatIn(m)
      OBVIOUS
    <3>2. Unmixed(r.acc, t)' => Unmixed(r.acc, t)
      BY <2>2, WasUnmixed
    <3> QED BY <2>1, <2>2, <2>4, <3>1, <3>2
  <2> QED BY <2>1, <2>2, <2>3, <2>4
<1> QED BY <1>2, <1>3, <1>4, <1>5, <1>6 DEF ImportOK

\* The backfill is as it was when rows of metadata are added.
LEMMA BackfillStays ==
  ASSUME BackfillOK, bf' = bf, \A a \in Accounts : media[a] \subseteq media'[a]
  PROVE  BackfillOK'
<1> SUFFICES ASSUME bf.pc # "idle" PROVE BackfillOK'
  BY DEF BackfillOK
<1>1. bf.acc \in Accounts /\ media[bf.acc] \subseteq media'[bf.acc]
  BY DEF BackfillOK
<1>2. \A m : Present(media[bf.acc], m) => Present(media'[bf.acc], m)
  BY <1>1, PresentStays
<1> QED BY <1>1, <1>2 DEF BackfillOK

\* The parts of the invariant that speak of the tables alone.
TablesOK ==
  /\ UpToWatermark /\ NoGaps /\ OneRowPerKey /\ MediaRecorded /\ LegacyKept

LEMMA TablesStay ==
  ASSUME TablesOK, UNCHANGED <<chats, stored, media>>
  PROVE  TablesOK'
BY DEF TablesOK, UpToWatermark, NoGaps, StoredUpTo, Unmixed, OneRowPerKey, MediaRecorded, LegacyKept

\* The imports are as they were when neither they nor the messages change.
LEMMA ImportsStay ==
  ASSUME Inv, UNCHANGED <<imp, stored>>,
         \A a \in Accounts : /\ account[a] # Absent => account'[a] # Absent
                             /\ files[a] # None => files'[a] # None
  PROVE  (\A p \in Procs : ImportOK(p))' /\ (\A p, q \in Procs : p # q => Apart(p, q))'
<1>1. \A p \in Procs : ImportOK(p)'
  BY ImportStays DEF Inv
<1> QED BY <1>1 DEF Inv, Apart

\* A step of one import that changes nothing but the import, which inserts nothing or
\* keys nobody else has inserted.
LEMMA RunOnly ==
  ASSUME Inv, NEW p \in Procs, UNCHANGED <<files, tables, bf>>,
         imp' \in [Procs -> Runs], \A q \in Procs : q # p => imp'[q] = imp[q],
         imp'[p].rows = {} \/ \A q \in Procs : q # p => Apart(p, q)',
         ImportOK(p)'
  PROVE  Inv'
<1>1. /\ files' = files /\ account' = account /\ chats' = chats /\ stored' = stored
      /\ media' = media /\ bf' = bf
  BY DEF tables
<1>2. TypeOK'
  BY <1>1 DEF Inv, TypeOK, Runs
<1>3. \A q \in Procs : ImportOK(q)'
  <2>1. ASSUME NEW q \in Procs, q # p PROVE ImportOK(q)'
    BY <1>1, <2>1, ImportStays DEF Inv
  <2> QED BY <2>1
<1>4. TablesOK'
  BY <1>1, TablesStay DEF Inv, TablesOK
<1>5. ASSUME NEW x \in Procs, NEW y \in Procs, x # y PROVE Apart(x, y)'
  <2>1. CASE x # p /\ y # p
    BY <1>5, <2>1 DEF Inv, Apart
  <2>2. CASE imp'[p].rows = {} /\ (x = p \/ y = p)
    BY <2>2 DEF Apart, Present
  <2>3. CASE \A q \in Procs : q # p => Apart(p, q)'
    <3>1. ASSUME y = p PROVE Apart(x, y)'
      <4>1. Apart(p, x)'
        BY <1>5, <2>3, <3>1
      <4>2. Apart(p, x)' => Apart(x, p)'
        BY DEF Apart, Present
      <4> QED BY <3>1, <4>1, <4>2
    <3> QED BY <1>5, <2>1, <2>3, <3>1
  <2> QED BY <2>1, <2>2, <2>3
<1>6. BackfillOK'
  BY <1>1, BackfillStays DEF Inv
<1> QED BY <1>2, <1>3, <1>4, <1>5, <1>6 DEF Inv, TablesOK

\* A step of the backfill that changes nothing but the backfill.
LEMMA BackfillOnly ==
  ASSUME Inv, UNCHANGED <<files, tables, imp>>, bf' \in Backfills, BackfillOK'
  PROVE  Inv'
<1>1. /\ files' = files /\ account' = account /\ chats' = chats /\ stored' = stored
      /\ media' = media /\ imp' = imp
  BY DEF tables
<1>2. TypeOK'
  BY <1>1 DEF Inv, TypeOK, Backfills
<1>3. (\A q \in Procs : ImportOK(q))' /\ (\A x, y \in Procs : x # y => Apart(x, y))'
  BY <1>1, ImportsStay
<1>4. TablesOK'
  BY <1>1, TablesStay DEF Inv, TablesOK
<1> QED BY <1>2, <1>3, <1>4 DEF Inv, TablesOK


(* ----------------------------- initial states ---------------------------- *)

\* The chats of the first import have its last message as their watermark.
LEMMA FirstMark ==
  ASSUME NEW a \in Accounts, NEW t \in Chats, LegacyIds(a, t) # {}
  PROVE  /\ Last(LegacyIds(a, t)) \in LegacyIds(a, t)
         /\ Last(LegacyIds(a, t)) \in Ids /\ Last(LegacyIds(a, t)) # Absent
<1>1. LegacyIds(a, t) \subseteq Ids
  BY TgAssumption, ChatOfType DEF LegacyIds
<1> QED BY <1>1, LastIsLast, TgAssumption

LEMMA InitInv == ASSUME Init PROVE Inv
<1>1. TypeOK
  <2>1. \A a \in Accounts : {a} \X Legacy[a] \in SUBSET Messages
    BY TgAssumption, ChatOfType DEF Messages
  <2>2. stored \in [Accounts -> SUBSET Messages]
    BY <2>1 DEF Init
  <2>3. chats \in [Accounts -> [Chats -> Ids \cup {None, Absent}]]
    BY FirstMark DEF Init
  <2>4. imp \in [Procs -> Runs] /\ bf \in Backfills
    BY DEF Init, Idle, BfIdle, Runs, Backfills, Pcs
  <2>5. files \in [Accounts -> Files \cup {None}]
    BY DEF Init
  <2>6. account \in [Accounts -> [user : Accounts \cup {None}, imported : BOOLEAN] \cup {Absent}]
    BY DEF Init
  <2>7. media \in [Accounts -> SUBSET Messages]
    BY DEF Init
  <2> QED BY <2>2, <2>3, <2>4, <2>5, <2>6, <2>7 DEF TypeOK, Runs, Backfills
<1>2. NoGaps /\ OneRowPerKey
  <2>1. ASSUME NEW a \in Accounts, NEW m \in stored[a] PROVE m[2] \in Legacy[a] /\ m = <<a, m[2]>>
    BY <2>1 DEF Init
  <2>2. OneRowPerKey
    BY <2>1 DEF OneRowPerKey
  <2>3. ASSUME NEW a \in Accounts, NEW m \in stored[a], NEW j \in DOMAIN ChatOf[a],
               j <= m[2], ChatOf[a][j] = ChatIn(m), Kind[a][j] # "skipped"
        PROVE  <<a, j>> \in stored[a]
    <3>1. m[2] \in Legacy[a] /\ ChatIn(m) = ChatOf[a][m[2]]
      BY <2>1 DEF ChatIn
    <3>2. j \in Legacy[a]
      BY <2>3, <3>1, TgAssumption
    <3> QED BY <3>2 DEF Init
  <2> QED BY <2>2, <2>3 DEF NoGaps, StoredUpTo
<1>3. UpToWatermark
  <2> SUFFICES ASSUME NEW a \in Accounts, NEW t \in Chats, chats[a][t] \in Ids,
                      NEW j \in DOMAIN ChatOf[a],
                      j <= chats[a][t], ChatOf[a][j] = t, Kind[a][j] # "skipped"
               PROVE  <<a, j>> \in stored[a]
    BY DEF UpToWatermark
  <2>1. LegacyIds(a, t) # {} /\ chats[a][t] = Last(LegacyIds(a, t))
    BY TgAssumption DEF Init
  <2>2. chats[a][t] \in Legacy[a] /\ ChatOf[a][chats[a][t]] = t
    <3>1. chats[a][t] \in LegacyIds(a, t)
      BY <2>1, FirstMark
    <3> QED BY <3>1 DEF LegacyIds
  <2>3. j \in Legacy[a]
    BY <2>2, TgAssumption
  <2> QED BY <2>3 DEF Init
<1>4. MediaRecorded
  BY DEF Init, MediaRecorded, WithMedia
<1>5. LegacyKept
  <2>1. \A a \in Accounts : {a} \X Legacy[a] \subseteq stored[a]
    BY DEF Init
  <2>2. ASSUME NEW a \in Accounts, NEW i \in Legacy[a] PROVE chats[a][ChatOf[a][i]] # Absent
    <3>1. ChatOf[a][i] \in Chats
      BY ChatOfType, TgAssumption
    <3>2. LegacyIds(a, ChatOf[a][i]) # {}
      BY DEF LegacyIds
    <3> QED BY <3>1, <3>2, FirstMark DEF Init
  <2> QED BY <2>1, <2>2 DEF LegacyKept
<1>6. (\A p \in Procs : ImportOK(p)) /\ (\A p, q \in Procs : p # q => Apart(p, q))
  BY DEF Init, Idle, ImportOK, Apart
<1>7. BackfillOK
  BY DEF Init, BfIdle, BackfillOK
<1> QED BY <1>1, <1>2, <1>3, <1>4, <1>5, <1>6, <1>7 DEF Inv

(* ---------------------- exports, accounts, the backfill ------------------ *)

LEMMA ExportInv ==
  ASSUME Inv, NEW f \in Files, NEW b \in Accounts, Export(f, b)
  PROVE  Inv'
<1>1. /\ account' = account /\ chats' = chats /\ stored' = stored
      /\ media' = media /\ bf' = bf /\ imp' = imp
  BY DEF Export, tables
<1>2. files' = [files EXCEPT ![b] = f] /\ f # None
  BY TgAssumption DEF Export
<1>3. TypeOK'
  BY <1>1, <1>2 DEF Inv, TypeOK
<1>4. \A a \in Accounts : files[a] # None => files'[a] # None
  BY <1>2 DEF Inv, TypeOK
<1>5. (\A q \in Procs : ImportOK(q))' /\ (\A x, y \in Procs : x # y => Apart(x, y))'
  BY <1>1, <1>4, ImportsStay
<1>6. TablesOK'
  BY <1>1, TablesStay DEF Inv, TablesOK
<1>7. BackfillOK'
  BY <1>1, BackfillStays DEF Inv
<1> QED BY <1>3, <1>5, <1>6, <1>7 DEF Inv, TablesOK

LEMMA RegisterInv == ASSUME Inv, NEW b \in Accounts, Register(b) PROVE Inv'
<1> DEFINE v == [user |-> None, imported |-> FALSE]
<1>1. /\ account' = [account EXCEPT ![b] = v] /\ v # Absent
      /\ UNCHANGED <<files, chats, stored, media, imp, bf>>
  <2>1. v \in [user : Accounts \cup {None}, imported : BOOLEAN]
    OBVIOUS
  <2>2. v # Absent
    BY <2>1, TgAssumption
  <2> QED BY <2>2 DEF Register
<1>2. TypeOK'
  BY <1>1 DEF Inv, TypeOK
<1>3. \A a \in Accounts : account[a] # Absent => account'[a] # Absent
  <2> HIDE DEF v
  <2> QED BY <1>1 DEF Inv, TypeOK
<1>4. (\A q \in Procs : ImportOK(q))' /\ (\A x, y \in Procs : x # y => Apart(x, y))'
  BY <1>1, <1>3, ImportsStay
<1>5. TablesOK'
  BY <1>1, TablesStay DEF Inv, TablesOK
<1>6. BackfillOK'
  BY <1>1, BackfillStays DEF Inv
<1> QED BY <1>2, <1>4, <1>5, <1>6 DEF Inv, TablesOK

LEMMA BfStartInv == ASSUME Inv, NEW b \in Accounts, BfStart(b) PROVE Inv'
<1>1. FileOf(b) \in Files
  BY DEF Inv, TypeOK, BfStart, FileOf
<1>2. UNCHANGED <<files, tables, imp>>
  BY DEF BfStart
<1>3. bf' = [pc |-> "next", acc |-> b, file |-> FileOf(b),
             known |-> {t \in Chats : chats[b][t] # Absent},
             todo |-> ChatsOf(FileOf(b).of), chat |-> None, found |-> {}]
  BY DEF BfStart, BfIdle
<1>4. ChatsOf(FileOf(b).of) \subseteq Chats
  BY <1>1, ParsedFacts
<1>5. bf' \in Backfills
  BY <1>1, <1>3, <1>4 DEF Backfills
<1>6. BackfillOK'
  <2>1. {ChatOf[b][i] : i \in Legacy[b]} \subseteq bf'.known
    <3> SUFFICES ASSUME NEW i \in Legacy[b] PROVE ChatOf[b][i] \in bf'.known
      OBVIOUS
    <3>1. ChatOf[b][i] \in Chats
      BY ChatOfType, TgAssumption
    <3>2. chats[b][ChatOf[b][i]] # Absent
      BY DEF Inv, LegacyKept
    <3> QED BY <1>3, <3>1, <3>2
  <2>2. \A m \in WithMedia(Parsed(FileOf(b))) : ChatIn(m) \in bf'.todo
    BY <1>1, <1>3, ParsedFacts DEF WithMedia
  <2>3. bf'.acc = b /\ bf'.file = FileOf(b)
    BY <1>3
  <2> QED BY <1>1, <2>1, <2>2, <2>3 DEF BackfillOK
<1> QED BY <1>2, <1>5, <1>6, BackfillOnly

LEMMA BfChatInv == ASSUME Inv, NEW t \in Chats, BfChat(t) PROVE Inv'
<1> DEFINE got == {m \in WithMedia(In(bf.file, t)) : Present(stored[bf.acc], m)}
<1>1. UNCHANGED <<files, tables, imp>> /\ bf.pc = "next" /\ t \in bf.todo
  BY DEF BfChat
<1>2. bf.acc \in Accounts /\ bf.file \in Files /\ bf \in Backfills
  BY <1>1 DEF Inv, BackfillOK, TypeOK, Backfills
<1>3. got \subseteq Messages
  BY <1>2, ParsedFacts DEF WithMedia, In
<1>4. /\ bf'.acc = bf.acc /\ bf'.file = bf.file /\ bf'.known = bf.known
      /\ bf'.todo = bf.todo \ {t}
      /\ t \in bf.known => bf'.pc = "insert" /\ bf'.found = got
  BY <1>2 DEF BfChat, Backfills
<1>5. bf' \in Backfills
  <2> HIDE DEF got
  <2>1. got = {m \in WithMedia(In(bf.file, t)) : Present(stored[bf.acc], m)}
    BY DEF got
  <2> QED BY <1>2, <1>3, <2>1 DEF BfChat, Backfills
<1>6. BackfillOK'
  <2>1. UNCHANGED media
    BY <1>1 DEF tables
  <2>2. ASSUME bf.file.of = bf.acc, NEW m \in WithMedia(Parsed(bf.file)), m[2] \in Legacy[bf.acc],
               ChatIn(m) = t
        PROVE  t \in bf.known /\ m \in got
    <3>1. m = <<bf.acc, m[2]>> /\ ChatIn(m) = ChatOf[bf.acc][m[2]]
      BY <1>2, <2>2, ParsedFacts DEF WithMedia, ChatIn
    <3>2. t \in bf.known
      BY <1>1, <2>2, <3>1 DEF Inv, BackfillOK
    <3>3. m \in stored[bf.acc]
      BY <1>2, <2>2, <3>1 DEF Inv, LegacyKept
    <3>4. Present(stored[bf.acc], m)
      BY <3>3, PresentIn
    <3> QED BY <2>2, <3>2, <3>4 DEF WithMedia, In
  <2> HIDE DEF got
  <2>3. ASSUME bf.file.of = bf.acc, NEW m \in WithMedia(Parsed(bf.file)), m[2] \in Legacy[bf.acc]
        PROVE  ChatIn(m) \in bf'.todo \/ (bf'.pc = "insert" /\ m \in bf'.found) \/ Present(media[bf.acc], m)
    <3>1. CASE ChatIn(m) = t
      BY <1>4, <2>2, <2>3, <3>1
    <3>2. CASE ChatIn(m) # t
      BY <1>1, <1>4, <2>3, <3>2 DEF Inv, BackfillOK
    <3> QED BY <3>1, <3>2
  <2> QED BY <1>1, <1>2, <1>4, <2>1, <2>3 DEF Inv, BackfillOK
<1> QED BY <1>1, <1>5, <1>6, BackfillOnly

\* The backfill is over.
LEMMA BfOverInv == ASSUME Inv, BfEnd \/ BfInterrupt PROVE Inv'
<1>1. UNCHANGED <<files, tables, imp>> /\ bf' = BfIdle
  BY DEF BfEnd, BfInterrupt
<1>2. bf' \in Backfills /\ bf'.pc = "idle"
  BY <1>1 DEF BfIdle, Backfills
<1> QED BY <1>1, <1>2, BackfillOnly DEF BackfillOK

LEMMA BfInsertInv == ASSUME Inv, BfInsert PROVE Inv'
<1> DEFINE b == bf.acc
           new == {m \in bf.found : ~HasMedia(b, m)}
<1>1. /\ UNCHANGED <<files, account, chats, stored, imp>> /\ bf.pc = "insert"
      /\ media' = [media EXCEPT ![b] = @ \cup new]
      /\ bf' = [bf EXCEPT !.pc = "next", !.chat = None, !.found = {}]
  BY DEF BfInsert
<1>2. b \in Accounts /\ bf.file \in Files /\ bf \in Backfills
      /\ media \in [Accounts -> SUBSET Messages]
  BY <1>1 DEF Inv, BackfillOK, TypeOK, Backfills
<1>3. new \subseteq Messages
  BY <1>2 DEF Backfills
<1>4. /\ bf' \in Backfills /\ bf'.pc = "next" /\ bf'.acc = b /\ bf'.file = bf.file
      /\ bf'.known = bf.known /\ bf'.todo = bf.todo
  BY <1>1, <1>2 DEF Backfills
<1>5. /\ \A a \in Accounts : media[a] \subseteq media'[a]
      /\ media'[b] = media[b] \cup new /\ media' \in [Accounts -> SUBSET Messages]
  <2> HIDE DEF new
  <2> QED BY <1>1, <1>2, <1>3
<1>6. TypeOK'
  BY <1>1, <1>4, <1>5 DEF Inv, TypeOK, Backfills
<1>7. (\A q \in Procs : ImportOK(q))' /\ (\A x, y \in Procs : x # y => Apart(x, y))'
  BY <1>1, ImportsStay
<1>8. UpToWatermark' /\ NoGaps' /\ OneRowPerKey' /\ LegacyKept'
  BY <1>1 DEF Inv, UpToWatermark, NoGaps, StoredUpTo, Unmixed, OneRowPerKey, LegacyKept
<1>9. MediaRecorded'
  BY <1>1, <1>5, PresentStays DEF Inv, MediaRecorded
<1>10. BackfillOK'
  <2>1. \A m \in bf.found : Present(media'[b], m)
    BY <1>5, PresentStays, PresentIn DEF HasMedia
  <2>2. \A m : Present(media[b], m) => Present(media'[b], m)
    BY <1>2, <1>5, PresentStays
  <2> HIDE DEF new
  <2> QED BY <1>1, <1>2, <1>4, <2>1, <2>2 DEF Inv, BackfillOK
<1> QED BY <1>6, <1>7, <1>8, <1>9, <1>10 DEF Inv


(* --------------------------------- imports ------------------------------- *)

\* The phone has been compared.
LEMMA StartImportInv ==
  ASSUME Inv, NEW p \in Procs, NEW b \in Accounts, StartImport(p, b)
  PROVE  Inv'
<1>1. FileOf(b) \in Files /\ SamePhone(FileOf(b), b) /\ files[b] # None
  BY DEF Inv, TypeOK, StartImport, FileOf
<1>2. PICK s : s = [Idle EXCEPT !.pc = "parse", !.acc = b, !.read = FileOf(b)]
  OBVIOUS
<1>3. UNCHANGED <<files, tables, bf>> /\ imp' = [imp EXCEPT ![p] = s] /\ imp \in [Procs -> Runs]
  BY <1>2 DEF StartImport, Inv, TypeOK, Runs
<1>4. s.pc = "parse" /\ s.acc = b /\ s.read = FileOf(b) /\ s.left = {} /\ s.rows = {}
  BY <1>2 DEF Idle
<1>5. s \in Runs
  BY <1>1, <1>2 DEF Runs, Pcs, Idle
<1>6. imp' \in [Procs -> Runs] /\ imp'[p] = s /\ \A q \in Procs : q # p => imp'[q] = imp[q]
  BY <1>3, <1>5
<1>7. ImportOK(p)'
  BY <1>1, <1>3, <1>4, <1>6 DEF ImportOK
<1> QED BY <1>3, <1>4, <1>6, <1>7, RunOnly

\* Whatever the export is by now, all its chats are to come.
LEMMA ParseExportInv == ASSUME Inv, NEW p \in Procs, ParseExport(p) PROVE Inv'
<1>1. imp[p] \in Runs /\ imp \in [Procs -> Runs]
  BY DEF Inv, TypeOK, Runs
<1>2. PICK r \in Runs : r = imp[p]
  BY <1>1
<1>3. /\ r.pc = "parse" /\ r.acc \in Accounts /\ account[r.acc] # Absent /\ r.read \in Files
      /\ SamePhone(r.read, r.acc) /\ r.left = {} /\ r.rows = {} /\ files[r.acc] # None
  BY <1>2 DEF ParseExport, Inv, ImportOK
<1>4. PICK f \in Files : f = FileOf(r.acc)
  BY <1>3 DEF FileOf, Inv, TypeOK
<1>5. ChatsOf(f.of) \in SUBSET Chats
  BY ParsedFacts
<1>6. PICK s : s = [r EXCEPT !.pc = "next", !.file = f, !.todo = ChatsOf(f.of)]
  OBVIOUS
<1>7. s \in Runs
  BY <1>5, <1>6 DEF Runs, Pcs
<1>8. /\ s.pc = "next" /\ s.acc = r.acc /\ s.read = r.read /\ s.file = f /\ s.todo = ChatsOf(f.of)
      /\ s.left = {} /\ s.rows = {}
  BY <1>3, <1>6 DEF Runs
<1>9. UNCHANGED <<files, tables, bf>> /\ imp' = [imp EXCEPT ![p] = s]
  BY <1>1, <1>2, <1>4, <1>6 DEF ParseExport
<1>10. imp' \in [Procs -> Runs] /\ imp'[p] = s /\ \A q \in Procs : q # p => imp'[q] = imp[q]
  BY <1>1, <1>7, <1>9
<1>11. ImportOK(p)'
  <2>1. account' = account
    BY <1>9 DEF tables
  <2>2. \A m \in Parsed(f) : ChatIn(m) \in s.todo
    BY <1>8, ParsedFacts
  <2> QED BY <1>3, <1>8, <1>10, <2>1, <2>2 DEF ImportOK
<1> QED BY <1>8, <1>9, <1>10, <1>11, RunOnly

\* What an import that has parsed its export keeps until it is done.
LEMMA RunFacts ==
  ASSUME Inv, NEW p \in Procs, imp[p].pc \notin {"idle", "parse"}
  PROVE  LET r == imp[p]
         IN  /\ r \in Runs /\ imp \in [Procs -> Runs]
             /\ r.acc \in Accounts /\ account[r.acc] # Absent
             /\ r.read \in Files /\ SamePhone(r.read, r.acc)
             /\ r.file \in Files /\ r.file.of \in Accounts
             /\ r.pc \notin {"insert", "commit"} => r.left = {} /\ r.rows = {}
             /\ r.pc # "next" => r.chat \in Chats
             /\ r.pc \in {"insert", "commit"} => Transaction(r)
BY ParsedFacts DEF Inv, TypeOK, Runs, ImportOK

\* What is not dealt with is in a chat to come or at hand.
LEMMA RunComplete ==
  ASSUME Inv, NEW p \in Procs, imp[p].pc \notin {"idle", "parse"},
         ~imp[p].failed, imp[p].file.of = imp[p].acc, NEW m \in Parsed(imp[p].file)
  PROVE  \/ m \in stored[imp[p].acc] \/ ~Unmixed(imp[p].acc, ChatIn(m))
         \/ ChatIn(m) \in imp[p].todo \/ (imp[p].pc # "next" /\ ChatIn(m) = imp[p].chat)
BY DEF Inv, ImportOK

\* The chat's row is there: what is above the watermark is new, what is not is stored.
LEMMA OpenedInv ==
  ASSUME Inv, NEW p \in Procs, NEW t \in Chats, NEW mark \in Ids \cup {None},
         \/ imp[p].pc = "next" /\ t \in imp[p].todo
         \/ imp[p].pc = "create" /\ t = imp[p].chat,
         mark \in Ids /\ Unmixed(imp[p].acc, t) => StoredUpTo(imp[p].acc, t, mark),
         imp' = Opened(p, t, mark), UNCHANGED <<files, tables, bf>>
  PROVE  Inv'
<1>1. imp[p] \in Runs /\ imp \in [Procs -> Runs]
  BY DEF Inv, TypeOK, Runs
<1>2. PICK r \in Runs : r = imp[p]
  BY <1>1
<1>3. /\ r.pc \in {"next", "create"} /\ r.acc \in Accounts /\ r.file \in Files
      /\ r.read \in Files /\ SamePhone(r.read, r.acc)
      /\ account[r.acc] # Absent /\ r.rows = {} /\ (r.pc = "create" => t = r.chat)
  BY <1>2, RunFacts
<1>4. PICK new : new = NewIn(r.file, t, mark)
  OBVIOUS
<1>5. new \in SUBSET Messages
  BY <1>3, <1>4, ParsedFacts DEF NewIn, In
<1>6. PICK s : s = [r EXCEPT !.chat = t, !.mark = mark, !.left = new, !.todo = @ \ {t},
                             !.pc = IF new = {} THEN "commit" ELSE "insert"]
  OBVIOUS
<1>7. s \in Runs
  BY <1>5, <1>6 DEF Runs, Pcs
<1>8. /\ s.acc = r.acc /\ s.read = r.read /\ s.file = r.file /\ s.todo = r.todo \ {t}
      /\ s.chat = t /\ s.mark = mark /\ s.left = new /\ s.rows = {} /\ s.failed = r.failed
      /\ s.pc \in {"insert", "commit"} /\ (s.pc = "commit" => new = {})
  BY <1>3, <1>6 DEF Runs
<1>9. imp' = [imp EXCEPT ![p] = s]
  BY <1>1, <1>2, <1>4, <1>6 DEF Opened
<1>10. imp' \in [Procs -> Runs] /\ imp'[p] = s /\ \A q \in Procs : q # p => imp'[q] = imp[q]
  BY <1>1, <1>7, <1>9
<1>11. stored' = stored /\ account' = account
  BY DEF tables
<1>12. Transaction(s)'
  <2>1. mark \in Ids /\ Unmixed(s.acc, t)' => StoredUpTo(s.acc, t, mark)'
    BY <1>2, <1>8, <1>11 DEF StoredUpTo, Unmixed
  <2>2. NewIn(s.file, s.chat, s.mark) = new
    BY <1>4, <1>8
  <2> QED BY <1>8, <2>1, <2>2 DEF Transaction
<1>13. ASSUME ~s.failed, s.file.of = s.acc, NEW m \in Parsed(s.file)
       PROVE  \/ m \in stored'[s.acc] \/ ~Unmixed(s.acc, ChatIn(m))'
              \/ ChatIn(m) \in s.todo \/ ChatIn(m) = s.chat
  <2>1. \/ m \in stored[r.acc] \/ ~Unmixed(r.acc, ChatIn(m))
        \/ ChatIn(m) \in r.todo \/ ChatIn(m) = t
    BY <1>2, <1>3, <1>8, <1>13, RunComplete
  <2> QED BY <1>8, <1>11, <2>1 DEF Unmixed
<1>14. ImportOK(p)'
  BY <1>3, <1>8, <1>10, <1>11, <1>12, <1>13 DEF ImportOK
<1> QED BY <1>8, <1>10, <1>14, RunOnly

LEMMA OpenChatInv ==
  ASSUME Inv, NEW p \in Procs, NEW t \in Chats, OpenChat(p, t)
  PROVE  Inv'
<1> DEFINE r == imp[p]
<1>1. /\ r \in Runs /\ imp \in [Procs -> Runs] /\ r.pc = "next" /\ t \in r.todo
      /\ r.acc \in Accounts /\ r.read \in Files /\ SamePhone(r.read, r.acc) /\ r.file \in Files
      /\ account[r.acc] # Absent /\ r.left = {} /\ r.rows = {} /\ UNCHANGED <<files, tables, bf>>
  BY RunFacts DEF OpenChat
<1>2. CASE chats[r.acc][t] # Absent
  <2>1. PICK mark \in Ids \cup {None} : mark = chats[r.acc][t]
    BY <1>1, <1>2 DEF Inv, TypeOK
  <2>2. imp' = Opened(p, t, mark)
    BY <1>2, <2>1 DEF OpenChat
  <2>3. mark \in Ids /\ Unmixed(r.acc, t) => StoredUpTo(r.acc, t, mark)
    BY <1>1, <2>1 DEF Inv, UpToWatermark, StoredUpTo
  <2> QED BY <1>1, <2>2, <2>3, OpenedInv
<1>3. CASE chats[r.acc][t] = Absent
  <2>1. PICK s : s = [r EXCEPT !.chat = t, !.todo = @ \ {t}, !.pc = "create"]
    OBVIOUS
  <2>2. s \in Runs
    BY <1>1, <2>1 DEF Runs, Pcs
  <2>3. /\ s.acc = r.acc /\ s.read = r.read /\ s.file = r.file /\ s.todo = r.todo \ {t}
        /\ s.chat = t /\ s.left = {} /\ s.rows = {} /\ s.failed = r.failed /\ s.pc = "create"
    BY <1>1, <2>1 DEF Runs
  <2>4. imp' = [imp EXCEPT ![p] = s]
    BY <1>1, <1>3, <2>1 DEF OpenChat
  <2>5. imp' \in [Procs -> Runs] /\ imp'[p] = s /\ \A q \in Procs : q # p => imp'[q] = imp[q]
    BY <1>1, <2>2, <2>4
  <2>6. stored' = stored /\ account' = account
    BY <1>1 DEF tables
  <2>7. ASSUME ~s.failed, s.file.of = s.acc, NEW m \in Parsed(s.file)
        PROVE  \/ m \in stored'[s.acc] \/ ~Unmixed(s.acc, ChatIn(m))'
               \/ ChatIn(m) \in s.todo \/ ChatIn(m) = s.chat
    <3>1. m \in stored[r.acc] \/ ~Unmixed(r.acc, ChatIn(m)) \/ ChatIn(m) \in r.todo
      BY <1>1, <2>3, <2>7, RunComplete
    <3> QED BY <2>3, <2>6, <3>1 DEF Unmixed
  <2>8. /\ s.acc \in Accounts /\ s.read \in Files /\ SamePhone(s.read, s.acc) /\ s.file \in Files
        /\ account[s.acc] # Absent
    BY <1>1, <2>3
  <2>9. ImportOK(p)'
    BY <2>3, <2>5, <2>6, <2>7, <2>8 DEF ImportOK
  <2> QED BY <1>1, <2>3, <2>5, <2>9, RunOnly
<1> QED BY <1>2, <1>3

LEMMA CreateChatInv == ASSUME Inv, NEW p \in Procs, CreateChat(p) PROVE Inv'
<1>1. imp[p].pc = "create" /\ imp[p].chat \in Chats /\ UNCHANGED <<files, tables, bf>>
  BY RunFacts DEF CreateChat
<1>2. PICK t \in Chats : t = imp[p].chat
  BY <1>1
<1>3. imp' = Opened(p, t, None) /\ None \notin Ids
  BY <1>2, TgAssumption DEF CreateChat
<1> QED BY <1>1, <1>2, <1>3, OpenedInv

\* The chat is rolled back or was never begun.
LEMMA ForgottenInv ==
  ASSUME Inv, NEW p \in Procs, imp[p].pc \notin {"idle", "parse"}, UNCHANGED <<files, tables, bf>>,
         imp' = [imp EXCEPT ![p] = [Forget(imp[p]) EXCEPT !.failed = TRUE]]
  PROVE  Inv'
<1> DEFINE r == imp[p]
<1>1. /\ r \in Runs /\ imp \in [Procs -> Runs]
      /\ r.acc \in Accounts /\ r.read \in Files /\ SamePhone(r.read, r.acc) /\ r.file \in Files
      /\ account[r.acc] # Absent /\ account' = account
  BY RunFacts DEF tables
<1>2. PICK s : s = [Forget(r) EXCEPT !.failed = TRUE]
  OBVIOUS
<1>3. s \in Runs
  BY <1>1, <1>2 DEF Runs, Pcs, Forget
<1>4. /\ s.acc = r.acc /\ s.read = r.read /\ s.file = r.file /\ s.left = {} /\ s.rows = {}
      /\ s.failed = TRUE /\ s.pc = "next"
  BY <1>1, <1>2 DEF Runs, Forget
<1>5. imp' \in [Procs -> Runs] /\ imp'[p] = s /\ \A q \in Procs : q # p => imp'[q] = imp[q]
  BY <1>1, <1>2, <1>3
<1>6. ImportOK(p)'
  BY <1>1, <1>4, <1>5 DEF ImportOK
<1> QED BY <1>4, <1>5, <1>6, RunOnly

LEMMA LoseChatInv == ASSUME Inv, NEW p \in Procs, LoseChat(p) PROVE Inv'
BY ForgottenInv DEF LoseChat

LEMMA FailChatInv == ASSUME Inv, NEW p \in Procs, FailChat(p) PROVE Inv'
BY ForgottenInv DEF FailChat, RolledBack, tables

\* The process is gone.
LEMMA KillInv == ASSUME Inv, NEW p \in Procs, Kill(p) PROVE Inv'
<1>1. UNCHANGED <<files, tables, bf>> /\ imp' = [imp EXCEPT ![p] = Idle] /\ imp \in [Procs -> Runs]
  BY DEF Kill, Inv, TypeOK, Runs
<1>2. Idle \in Runs /\ Idle.pc = "idle" /\ Idle.left = {} /\ Idle.rows = {}
  BY DEF Idle, Runs, Pcs
<1>3. imp' \in [Procs -> Runs] /\ imp'[p] = Idle /\ \A q \in Procs : q # p => imp'[q] = imp[q]
  BY <1>1, <1>2
<1>4. ImportOK(p)'
  BY <1>2, <1>3 DEF ImportOK
<1> QED BY <1>1, <1>2, <1>3, <1>4, RunOnly

\* The account is told of its import, and the process is gone.
LEMMA EndImportInv == ASSUME Inv, NEW p \in Procs, EndImport(p) PROVE Inv'
<1> DEFINE r == imp[p]
<1>1. /\ r.pc = "next" /\ imp' = [imp EXCEPT ![p] = Idle] /\ imp \in [Procs -> Runs]
      /\ UNCHANGED <<files, chats, stored, media, bf>>
      /\ r.acc \in Accounts /\ r.read \in Files /\ account[r.acc] # Absent
  BY RunFacts DEF EndImport
<1>2. CASE ~r.ok
  <2>1. UNCHANGED <<files, tables, bf>>
    BY <1>1, <1>2 DEF EndImport, tables
  <2> QED BY <1>1, <2>1, KillInv DEF Kill
<1>3. CASE r.ok
  <2>1. PICK b \in Accounts : b = r.acc
    BY <1>1
  <2>2. PICK v : v = Imported(b, r.read)
    OBVIOUS
  <2>3. account' = [account EXCEPT ![b] = v]
    BY <1>1, <1>3, <2>1, <2>2 DEF EndImport
  <2>4. v \in [user : Accounts \cup {None}, imported : BOOLEAN] /\ v # Absent
    <3>1. r.read.of \in Accounts
      BY <1>1, ParsedFacts
    <3>2. account[b].user \in Accounts \cup {None}
      BY <1>1, <2>1 DEF Inv, TypeOK
    <3>3. PICK u \in Accounts \cup {None} : v = [user |-> u, imported |-> TRUE]
      BY <2>2, <3>1, <3>2 DEF Imported
    <3>4. v \in [user : Accounts \cup {None}, imported : BOOLEAN]
      BY <3>3
    <3> QED BY <3>4, TgAssumption
  <2>5. /\ account' \in [Accounts -> [user : Accounts \cup {None}, imported : BOOLEAN] \cup {Absent}]
        /\ \A a \in Accounts : account[a] # Absent => account'[a] # Absent
    BY <2>3, <2>4 DEF Inv, TypeOK
  <2>6. Idle \in Runs /\ Idle.pc = "idle" /\ Idle.left = {} /\ Idle.rows = {}
    BY DEF Idle, Runs, Pcs
  <2>7. imp' \in [Procs -> Runs] /\ imp'[p] = Idle /\ \A q \in Procs : q # p => imp'[q] = imp[q]
    BY <1>1, <2>6
  <2>8. TypeOK'
    BY <1>1, <2>5, <2>7 DEF Inv, TypeOK, Runs
  <2>9. \A q \in Procs : ImportOK(q)'
    <3>1. ASSUME NEW q \in Procs, q # p PROVE ImportOK(q)'
      BY <1>1, <2>5, <2>7, <3>1, ImportStays DEF Inv
    <3>2. ImportOK(p)'
      BY <2>6, <2>7 DEF ImportOK
    <3> QED BY <3>1, <3>2
  <2>10. ASSUME NEW x \in Procs, NEW y \in Procs, x # y PROVE Apart(x, y)'
    <3>1. CASE x # p /\ y # p
      BY <2>7, <2>10, <3>1 DEF Inv, Apart
    <3>2. CASE x = p \/ y = p
      BY <2>6, <2>7, <3>2 DEF Apart, Present
    <3> QED BY <3>1, <3>2
  <2>11. TablesOK'
    BY <1>1, TablesStay DEF Inv, TablesOK
  <2>12. BackfillOK'
    BY <1>1, BackfillStays DEF Inv
  <2> QED BY <2>8, <2>9, <2>10, <2>11, <2>12 DEF Inv, TablesOK
<1> QED BY <1>2, <1>3

(* --------------------------- batches and commits ------------------------- *)

\* The new messages of a transaction are of one account and one chat.
LEMMA NewFacts ==
  ASSUME NEW f \in Files, NEW t, NEW mark
  PROVE  /\ NewIn(f, t, mark) \subseteq {f.of} \X Ids /\ NewIn(f, t, mark) \subseteq Messages
         /\ \A m \in NewIn(f, t, mark) : /\ m \in Parsed(f) /\ m[1] = f.of /\ m[2] \in Ids
                                         /\ m[2] \in Nat /\ ChatIn(m) = t /\ m[2] <= f.upto
<1>1. ASSUME NEW m \in NewIn(f, t, mark)
      PROVE  m \in Parsed(f) /\ m \in Messages /\ ChatIn(m) = t /\ m[1] = f.of /\ m[2] <= f.upto
  BY ParsedFacts DEF NewIn, In, Parsed
<1>2. ASSUME NEW m \in NewIn(f, t, mark)
      PROVE  m[2] \in Ids /\ m[2] \in Nat /\ m \in {f.of} \X Ids
  BY <1>1, MessageFacts
<1> QED BY <1>1, <1>2

\* What the batch inserts or finds there is dealt with; what is left lies behind it, and
\* whoever has inserted a key of the batch is waited for.
LEMMA InsertBatchInv == ASSUME Inv, NEW p \in Procs, InsertBatch(p) PROVE Inv'
<1>1. imp[p] \in Runs /\ imp \in [Procs -> Runs]
  BY DEF Inv, TypeOK, Runs
<1>2. PICK r \in Runs : r = imp[p]
  BY <1>1
<1>3. /\ r.pc = "insert" /\ r.acc \in Accounts /\ r.file \in Files /\ r.file.of \in Accounts
      /\ r.read \in Files /\ SamePhone(r.read, r.acc)
      /\ account[r.acc] # Absent /\ r.chat \in Chats /\ Transaction(r)
  BY <1>2, RunFacts DEF InsertBatch
<1>4. PICK b : b = NextBatch(r.left)
  OBVIOUS
<1>5. PICK new : new = NewIn(r.file, r.chat, r.mark)
  OBVIOUS
<1>6. new \subseteq {r.file.of} \X Ids /\ new \subseteq Messages /\ \A m \in new : ChatIn(m) = r.chat
  BY <1>3, <1>5, NewFacts
<1>7. /\ b \subseteq r.left /\ r.left \subseteq new
      /\ \A m \in b, x \in r.left \ b : m[2] < x[2]
  <2>1. r.left \subseteq new
    BY <1>3, <1>5 DEF Transaction
  <2> QED BY <1>4, <1>6, <2>1, BatchIsBeginning
<1>8. PICK add : add = {m \in b : ~Present(stored[r.acc], m)}
  OBVIOUS
<1>9. PICK s : s = [r EXCEPT !.left = @ \ b, !.rows = @ \cup add,
                             !.pc = IF r.left = b THEN "commit" ELSE "insert"]
  OBVIOUS
<1>10. s \in Runs
  BY <1>6, <1>7, <1>8, <1>9 DEF Runs, Pcs
<1>11. /\ s.acc = r.acc /\ s.read = r.read /\ s.file = r.file /\ s.todo = r.todo /\ s.chat = r.chat
       /\ s.mark = r.mark /\ s.left = r.left \ b /\ s.rows = r.rows \cup add /\ s.failed = r.failed
       /\ s.pc \in {"insert", "commit"} /\ (s.pc = "commit" => r.left = b)
  BY <1>9 DEF Runs
<1>12. UNCHANGED <<files, tables, bf>> /\ imp' = [imp EXCEPT ![p] = s]
  BY <1>1, <1>2, <1>4, <1>8, <1>9 DEF InsertBatch
<1>13. imp' \in [Procs -> Runs] /\ imp'[p] = s /\ \A q \in Procs : q # p => imp'[q] = imp[q]
  BY <1>1, <1>10, <1>12
<1>14. stored' = stored /\ account' = account
  BY <1>12 DEF tables
<1>15. Transaction(s)'
  <2>1. /\ r.rows \subseteq new \ r.left
        /\ \A m \in new \ r.left : m \in r.rows \/ Present(stored[r.acc], m)
        /\ \A m \in new \ r.left, x \in r.left : m[2] < x[2]
        /\ \A m \in r.rows : ~Present(stored[r.acc], m)
        /\ r.mark \in Ids /\ Unmixed(r.acc, r.chat) => StoredUpTo(r.acc, r.chat, r.mark)
    BY <1>3, <1>5 DEF Transaction
  <2>2. s.mark \in Ids /\ Unmixed(s.acc, s.chat)' => StoredUpTo(s.acc, s.chat, s.mark)'
    BY <1>11, <1>14, <2>1 DEF StoredUpTo, Unmixed
  <2>3. NewIn(s.file, s.chat, s.mark) = new
    BY <1>5, <1>11
  <2>4. \A m \in s.rows : ~Present(stored'[s.acc], m)
    BY <1>8, <1>11, <1>14, <2>1
  <2>5. \A m \in new \ s.left : m \in s.rows \/ Present(stored'[s.acc], m)
    BY <1>8, <1>11, <1>14, <2>1
  <2>6. /\ s.left \subseteq new /\ s.rows \subseteq new \ s.left
        /\ \A m \in new \ s.left, x \in s.left : m[2] < x[2]
        /\ s.pc = "commit" => s.left = {}
    BY <1>7, <1>8, <1>11, <2>1
  <2> QED BY <2>2, <2>3, <2>4, <2>5, <2>6 DEF Transaction
<1>16. ASSUME ~s.failed, s.file.of = s.acc, NEW m \in Parsed(s.file)
       PROVE  \/ m \in stored'[s.acc] \/ ~Unmixed(s.acc, ChatIn(m))'
              \/ ChatIn(m) \in s.todo \/ ChatIn(m) = s.chat
  <2>1. \/ m \in stored[r.acc] \/ ~Unmixed(r.acc, ChatIn(m))
        \/ ChatIn(m) \in r.todo \/ ChatIn(m) = r.chat
    BY <1>2, <1>3, <1>11, <1>16, RunComplete
  <2> QED BY <1>11, <1>14, <2>1 DEF Unmixed
<1>17. ImportOK(p)'
  BY <1>3, <1>11, <1>13, <1>14, <1>15, <1>16 DEF ImportOK
<1>18. ASSUME NEW q \in Procs, q # p PROVE Apart(p, q)'
  <2> SUFFICES ASSUME imp[q].acc = r.acc, NEW m \in s.rows, NEW x \in imp[q].rows,
                      x[2] = m[2], ChatIn(x) = ChatIn(m)
               PROVE  FALSE
    BY <1>11, <1>13, <1>18 DEF Apart, Present, ChatIn
  <2>1. CASE m \in r.rows
    BY <1>2, <1>18, <2>1 DEF Inv, Apart, Present
  <2>2. CASE m \in b
    <3>1. ~Waits(p, q)
      BY <1>18 DEF InsertBatch
    <3>2. imp[q].pc \in {"insert", "commit"} /\ Transaction(imp[q]) /\ imp[q].file \in Files
      BY RunFacts DEF Inv, ImportOK
    <3>3. x \in NewIn(imp[q].file, imp[q].chat, imp[q].mark)
      BY <3>2 DEF Transaction
    <3>4. ChatIn(x) = imp[q].chat /\ ChatIn(m) = r.chat
      BY <1>6, <1>7, <2>2, <3>2, <3>3, NewFacts
    <3>5. InOneChat(p, q) /\ imp[p].pc = "insert"
      BY <1>2, <1>3, <1>18, <3>4 DEF InOneChat
    <3>6. Present(imp[q].rows, m) /\ m \in NextBatch(imp[p].left)
      BY <1>2, <1>4, <2>2 DEF Present
    <3> QED BY <3>1, <3>5, <3>6 DEF Waits
  <2> QED BY <1>8, <1>11, <2>1, <2>2
<1> QED BY <1>12, <1>13, <1>17, <1>18, RunOnly

\* What lies at or below the new watermark is new and inserted, or was below the old one;
\* a chat that stays unmixed has got nothing of another account, and its watermark is one
\* of its own messages.
LEMMA CommitChatInv == ASSUME Inv, NEW p \in Procs, CommitChat(p) PROVE Inv'
<1>1. imp[p] \in Runs /\ imp \in [Procs -> Runs]
  BY DEF Inv, TypeOK, Runs
<1>2. PICK r \in Runs : r = imp[p]
  BY <1>1
<1>3. /\ r.pc = "commit" /\ r.acc \in Accounts /\ r.file \in Files /\ r.file.of \in Accounts
      /\ r.read \in Files /\ SamePhone(r.read, r.acc)
      /\ account[r.acc] # Absent /\ r.chat \in Chats /\ Transaction(r)
  BY <1>2, RunFacts DEF CommitChat
<1>4. PICK a \in Accounts, t \in Chats : a = r.acc /\ t = r.chat
  BY <1>3
<1>5. PICK new : new = NewIn(r.file, t, r.mark)
  OBVIOUS
<1>6. PICK w : w = MarkOf(p)
  OBVIOUS
<1>7. PICK rec : rec = MediaOf(p)
  OBVIOUS
<1>8. /\ chats' = [chats EXCEPT ![a][t] = w]
      /\ stored' = [stored EXCEPT ![a] = stored[a] \cup r.rows]
      /\ media' = [media EXCEPT ![a] = @ \cup rec]
      /\ UNCHANGED <<files, account, bf>>
  BY <1>2, <1>4, <1>6, <1>7 DEF CommitChat, Table
<1>9. /\ r.rows \subseteq new /\ \A m \in new : m \in r.rows \/ Present(stored[a], m)
      /\ \A m \in r.rows : ~Present(stored[a], m)
      /\ r.mark \in Ids /\ Unmixed(a, t) => StoredUpTo(a, t, r.mark)
  BY <1>3, <1>4, <1>5 DEF Transaction
<1>10. /\ new \subseteq Messages
       /\ \A m \in new : m[1] = r.file.of /\ ChatIn(m) = t /\ m[2] \in Ids /\ m[2] \in Nat
                         /\ m[2] <= r.file.upto
  BY <1>3, <1>5, NewFacts
<1>11. rec = WithMedia(r.rows) /\ rec \subseteq Messages
  BY <1>2, <1>7, <1>9, <1>10 DEF MediaOf, WithMedia
<1>12. /\ stored \in [Accounts -> SUBSET Messages] /\ media \in [Accounts -> SUBSET Messages]
       /\ chats \in [Accounts -> [Chats -> Ids \cup {None, Absent}]]
  BY DEF Inv, TypeOK
<1>13. /\ stored' \in [Accounts -> SUBSET Messages] /\ media' \in [Accounts -> SUBSET Messages]
       /\ stored'[a] = stored[a] \cup r.rows /\ media'[a] = media[a] \cup rec
       /\ \A b \in Accounts : /\ stored[b] \subseteq stored'[b] /\ media[b] \subseteq media'[b]
                              /\ b # a => stored'[b] = stored[b] /\ media'[b] = media[b]
                                           /\ chats'[b] = chats[b]
  BY <1>8, <1>9, <1>10, <1>11, <1>12
\* A chat that is unmixed afterwards was so before.
<1>14. ASSUME NEW b \in Accounts, NEW u \in Chats, Unmixed(b, u)'
       PROVE  Unmixed(b, u)
  BY <1>13, <1>14, WasUnmixed
<1>15. ASSUME Unmixed(a, t)', r.file.of # a
       PROVE  r.rows = {} /\ \A m \in new : \E x \in stored[a] : x[2] = m[2] /\ ChatIn(x) = t
  <2>1. ASSUME NEW m \in r.rows PROVE FALSE
    <3>1. m \in stored'[a] /\ ChatIn(m) = t /\ m[1] # a
      BY <1>9, <1>10, <1>13, <1>15
    <3> QED BY <1>15, <3>1 DEF Unmixed, ChatIn
  <2> QED BY <1>9, <1>10, <2>1 DEF Present
<1>16. ASSUME Unmixed(a, t)', r.file.of = a, NEW m \in Messages, m[1] = a, ChatIn(m) = t,
              m[2] <= r.file.upto, Kind[a][m[2]] # "skipped"
       PROVE  m \in stored'[a]
  <2>1. /\ m[2] \in Nat /\ m = <<a, m[2]>> /\ m[2] \in DOMAIN ChatOf[a] /\ ChatOf[a][m[2]] = t
        /\ r.mark \in Ids => r.mark \in Nat
    BY <1>16, MessageFacts, TgAssumption DEF ChatIn
  <2>2. CASE Above(m[2], r.mark)
    <3>1. m \in new
      BY <1>3, <1>4, <1>5, <1>16, <2>2 DEF NewIn, In, Parsed
    <3>2. ASSUME Present(stored[a], m) PROVE m \in stored[a]
      <4>1. PICK x \in stored[a] : x[2] = m[2] /\ ChatIn(x) = t
        BY <1>16, <3>2 DEF Present
      <4>2. x[1] = a
        BY <1>14, <1>16, <4>1 DEF Unmixed
      <4>3. x \in Messages
        BY <1>12, <4>1
      <4> QED BY <1>16, <4>1, <4>2, <4>3, SameMessage
    <3> QED BY <1>9, <1>13, <3>1, <3>2
  <2>3. CASE ~Above(m[2], r.mark)
    <3>1. r.mark \in Ids /\ m[2] <= r.mark
      BY <2>1, <2>3 DEF Above, Runs
    <3>2. <<a, m[2]>> \in stored[a]
      BY <1>9, <1>14, <1>16, <2>1, <3>1 DEF StoredUpTo
    <3> QED BY <1>13, <2>1, <3>2
  <2> QED BY <2>2, <2>3
<1>17. ASSUME Unmixed(a, t)', r.file.of = a, NEW i \in Ids, i <= r.file.upto
       PROVE  StoredUpTo(a, t, i)'
  <2> SUFFICES ASSUME NEW j \in DOMAIN ChatOf[a], j <= i, ChatOf[a][j] = t, Kind[a][j] # "skipped"
               PROVE  <<a, j>> \in stored'[a]
    BY DEF StoredUpTo
  <2>1. j \in Nat /\ i \in Nat /\ r.file.upto \in Nat
    BY <1>3, ChatOfType, ParsedFacts, TgAssumption
  <2>2. j <= r.file.upto
    BY <1>17, <2>1
  <2>3. <<a, j>> \in Messages /\ ChatIn(<<a, j>>) = t
    BY ChatOfType DEF Messages, ChatIn
  <2> QED BY <1>16, <1>17, <2>2, <2>3
<1>18. /\ w \in Ids \cup {None} /\ w # Absent
       /\ w \in Ids => w = chats[a][t] \/ \E m \in new : w = m[2]
  <2>1. w = IF new # {} THEN Last(IdsOf(new))
            ELSE IF chats[a][t] = Absent THEN None ELSE chats[a][t]
    BY <1>2, <1>4, <1>5, <1>6 DEF MarkOf
  <2>2. CASE new # {}
    <3>1. IdsOf(new) \subseteq Ids /\ IdsOf(new) # {}
      BY <1>10, <2>2 DEF IdsOf
    <3>2. w \in IdsOf(new)
      BY <2>1, <2>2, <3>1, LastIsLast
    <3> QED BY <3>1, <3>2, TgAssumption DEF IdsOf
  <2>3. CASE new = {}
    BY <1>12, <2>1, <2>3, TgAssumption
  <2> QED BY <2>2, <2>3
<1>19. chats' \in [Accounts -> [Chats -> Ids \cup {None, Absent}]] /\ chats'[a][t] = w
       /\ \A u \in Chats : u # t => chats'[a][u] = chats[a][u]
  BY <1>8, <1>12, <1>18
<1>20. PICK s : s = [Forget(r) EXCEPT !.ok = TRUE]
  OBVIOUS
<1>21. s \in Runs
  BY <1>20 DEF Runs, Pcs, Forget
<1>22. /\ s.acc = r.acc /\ s.read = r.read /\ s.file = r.file /\ s.todo = r.todo /\ s.left = {}
       /\ s.rows = {} /\ s.failed = r.failed /\ s.pc = "next"
  BY <1>20 DEF Runs, Forget
<1>23. imp' \in [Procs -> Runs] /\ imp'[p] = s /\ \A q \in Procs : q # p => imp'[q] = imp[q]
  BY <1>1, <1>2, <1>20, <1>21 DEF CommitChat
<1>24. TypeOK'
  BY <1>8, <1>13, <1>19, <1>23 DEF Inv, TypeOK, Runs
<1>25. NoGaps'
  <2> SUFFICES ASSUME NEW b \in Accounts, NEW u \in Chats, Unmixed(b, u)',
                      NEW m \in stored'[b], ChatIn(m) = u
               PROVE  StoredUpTo(b, u, m[2])'
    BY DEF NoGaps, ChatIn
  <2>1. CASE m \in stored[b]
    <3>1. StoredUpTo(b, u, m[2])
      BY <1>14, <2>1 DEF Inv, NoGaps
    <3> QED BY <1>13, <3>1, StoredStays
  <2>2. CASE m \notin stored[b]
    <3>1. b = a /\ m \in r.rows
      BY <1>13, <2>2
    <3>2. u = t /\ m[2] \in Ids /\ m[2] <= r.file.upto
      BY <1>9, <1>10, <3>1
    <3>3. r.file.of = a
      BY <1>15, <3>1, <3>2
    <3> QED BY <1>17, <3>1, <3>2, <3>3
  <2> QED BY <2>1, <2>2
<1>26. UpToWatermark'
  <2> SUFFICES ASSUME NEW b \in Accounts, NEW u \in Chats, NEW i \in Ids, i = chats'[b][u],
                      Unmixed(b, u)'
               PROVE  StoredUpTo(b, u, i)'
    BY DEF UpToWatermark, StoredUpTo
  <2>1. CASE i = chats[b][u]
    <3>1. StoredUpTo(b, u, i)
      BY <1>14, <2>1 DEF Inv, UpToWatermark, StoredUpTo
    <3> QED BY <1>13, <3>1, StoredStays
  <2>2. CASE i # chats[b][u]
    <3>1. b = a /\ u = t
      BY <1>13, <1>19, <2>2
    <3>2. PICK m \in new : i = m[2]
      BY <1>18, <1>19, <2>2, <3>1
    <3>3. CASE r.file.of = a
      BY <1>10, <1>17, <3>1, <3>2, <3>3
    <3>4. CASE r.file.of # a
      <4>1. PICK x \in stored[a] : x[2] = i /\ ChatIn(x) = t
        BY <1>15, <3>1, <3>2, <3>4
      <4>2. StoredUpTo(a, t, i)
        BY <1>14, <3>1, <4>1 DEF Inv, NoGaps
      <4> QED BY <1>13, <3>1, <4>2, StoredStays
    <3> QED BY <3>3, <3>4
  <2> QED BY <2>1, <2>2
<1>27. OneRowPerKey'
  <2> SUFFICES ASSUME NEW b \in Accounts, NEW x \in stored'[b], NEW y \in stored'[b],
                      x[2] = y[2], ChatIn(x) = ChatIn(y)
               PROVE  x = y
    BY DEF OneRowPerKey, ChatIn
  <2>1. CASE x \in stored[b] /\ y \in stored[b]
    BY <2>1 DEF Inv, OneRowPerKey
  <2>2. CASE ~(x \in stored[b] /\ y \in stored[b])
    <3>1. b = a /\ (x \in r.rows \/ y \in r.rows)
      BY <1>13, <2>2
    <3>2. x \in r.rows /\ y \in r.rows
      BY <1>9, <1>13, <3>1 DEF Present
    <3> QED BY <1>9, <1>10, <3>2, SameMessage
  <2> QED BY <2>1, <2>2
<1>28. MediaRecorded'
  <2> SUFFICES ASSUME NEW b \in Accounts, NEW m \in WithMedia(stored'[b]), m \notin {b} \X Legacy[b]
               PROVE  Present(media'[b], m)
    BY DEF MediaRecorded
  <2>1. CASE m \in stored[b]
    <3>1. Present(media[b], m)
      BY <2>1 DEF Inv, MediaRecorded, WithMedia
    <3> QED BY <1>13, <3>1, PresentStays
  <2>2. CASE m \notin stored[b]
    <3>1. b = a /\ m \in rec
      BY <1>11, <1>13, <2>2 DEF WithMedia
    <3> QED BY <1>13, <3>1, PresentIn
  <2> QED BY <2>1, <2>2
<1>29. LegacyKept'
  <2>1. ASSUME NEW b \in Accounts, NEW i \in Legacy[b] PROVE chats'[b][ChatOf[b][i]] # Absent
    <3>1. ChatOf[b][i] \in Chats /\ chats[b][ChatOf[b][i]] # Absent
      BY ChatOfType, TgAssumption DEF Inv, LegacyKept
    <3> QED BY <1>13, <1>18, <1>19, <3>1
  <2> QED BY <1>13, <2>1 DEF Inv, LegacyKept
<1>30. \A q \in Procs : ImportOK(q)'
  <2>1. ASSUME NEW q \in Procs, q # p PROVE ImportOK(q)'
    <3>1. ASSUME NEW m \in imp[q].rows, Present(stored'[imp[q].acc], m)
          PROVE  Present(stored[imp[q].acc], m)
      <4>1. imp[q].acc \in Accounts
        BY DEF Inv, ImportOK
      <4>2. CASE imp[q].acc # a
        BY <1>13, <3>1, <4>1, <4>2
      <4>3. CASE imp[q].acc = a
        <5>1. ~Present(r.rows, m)
          BY <1>2, <1>4, <2>1, <4>3 DEF Inv, Apart
        <5> QED BY <1>13, <3>1, <4>3, <5>1 DEF Present
      <4> QED BY <4>2, <4>3
    <3>2. ImportOK(q) /\ imp'[q] = imp[q]
      BY <1>23, <2>1 DEF Inv
    <3>3. account' = account /\ files' = files
      BY <1>8
    <3> QED BY <1>13, <3>1, <3>2, <3>3, ImportStays
  <2>2. ASSUME ~s.failed, s.file.of = s.acc, NEW m \in Parsed(s.file)
        PROVE  m \in stored'[a] \/ ~Unmixed(a, ChatIn(m))' \/ ChatIn(m) \in s.todo
    <3>1. m \in stored[a] \/ ~Unmixed(a, ChatIn(m)) \/ ChatIn(m) \in r.todo \/ ChatIn(m) = t
      BY <1>2, <1>3, <1>4, <1>22, <2>2, RunComplete
    <3>2. ASSUME ChatIn(m) = t, Unmixed(a, t)' PROVE m \in stored'[a]
      <4>1. m \in Messages /\ m[1] = a /\ m[2] <= r.file.upto /\ Kind[a][m[2]] # "skipped"
        BY <1>4, <1>22, <2>2 DEF Parsed
      <4> QED BY <1>4, <1>16, <1>22, <2>2, <3>2, <4>1
    <3>3. ChatIn(m) \in Chats
      BY <1>3, <1>22, <2>2, ParsedFacts, MessageFacts
    <3>4. PICK u \in Chats : u = ChatIn(m)
      BY <3>3
    <3>5. Unmixed(a, u)' => Unmixed(a, u)
      BY <1>14
    <3> QED BY <1>13, <1>22, <3>1, <3>2, <3>4, <3>5
  <2>3. account' = account
    BY <1>8
  <2>4. ImportOK(p)'
    BY <1>3, <1>4, <1>22, <1>23, <2>2, <2>3 DEF ImportOK
  <2> QED BY <2>1, <2>4
<1>31. ASSUME NEW x \in Procs, NEW y \in Procs, x # y PROVE Apart(x, y)'
  <2>1. CASE x # p /\ y # p
    BY <1>23, <1>31, <2>1 DEF Inv, Apart
  <2>2. CASE x = p \/ y = p
    BY <1>22, <1>23, <2>2 DEF Apart, Present
  <2> QED BY <2>1, <2>2
<1>32. BackfillOK'
  BY <1>8, <1>13, BackfillStays DEF Inv
<1> QED BY <1>24, <1>25, <1>26, <1>27, <1>28, <1>29, <1>30, <1>31, <1>32 DEF Inv

(* -------------------------------- theorems ------------------------------- *)

LEMMA NextInv == ASSUME Inv, [Next]_vars PROVE Inv'
<1>1. CASE \E a \in Accounts : Register(a) \/ BfStart(a)
  BY <1>1, RegisterInv, BfStartInv
<1>2. CASE \E x \in Placed : Export(x[1], x[2])
  <2>1. PICK x \in Placed : Export(x[1], x[2])
    BY <1>2
  <2>2. x[1] \in Files /\ x[2] \in Accounts
    BY TgAssumption
  <2> QED BY <2>1, <2>2, ExportInv
<1>3. ASSUME NEW p \in Procs,
             \/ \E a \in Accounts : StartImport(p, a)
             \/ ImportStep(p) \/ FailChat(p) \/ Kill(p)
      PROVE  Inv'
  BY <1>3, StartImportInv, ParseExportInv, OpenChatInv, CreateChatInv, LoseChatInv, InsertBatchInv,
     CommitChatInv, EndImportInv, FailChatInv, KillInv
  DEF ImportStep
<1>4. CASE BackfillStep \/ BfInterrupt
  BY <1>4, BfChatInv, BfInsertInv, BfOverInv DEF BackfillStep
<1>5. CASE UNCHANGED vars
  <2>1. /\ files' = files /\ account' = account /\ chats' = chats /\ stored' = stored
        /\ media' = media /\ bf' = bf /\ imp' = imp
    BY <1>5 DEF vars, tables
  <2>2. TypeOK' /\ BackfillOK'
    BY <2>1 DEF Inv, TypeOK, BackfillOK
  <2>3. (\A q \in Procs : ImportOK(q))' /\ (\A x, y \in Procs : x # y => Apart(x, y))'
    BY <2>1, ImportsStay
  <2>4. TablesOK'
    BY <2>1, TablesStay DEF Inv, TablesOK
  <2> QED BY <2>2, <2>3, <2>4 DEF Inv, TablesOK
<1> QED BY <1>1, <1>2, <1>3, <1>4, <1>5 DEF Next

LEMMA Invariance == Spec => []Inv
<1>1. Init => Inv
  BY InitInv
<1>2. Inv /\ [Next]_vars => Inv'
  BY NextInv
<1> QED BY <1>1, <1>2, PTL DEF Spec

THEOREM TypeCorrect == Spec => []TypeOK
<1>1. Inv => TypeOK
  BY DEF Inv
<1> QED BY <1>1, Invariance, PTL

\* Messages of another account come in with a commit of an import whose export, as it was
\* parsed, no comparison had passed, and its telegram id with the end of one.
LEMMA ForeignComesUncompared ==
  ASSUME Inv, [Next]_vars, NEW a \in Accounts
  PROVE  \/ /\ \A m \in stored'[a] \ stored[a] : m[1] = a
            /\ account[a] # Absent => account'[a].user \in {account[a].user, a}
         \/ \E p \in Procs : imp'[p] # imp[p] /\ imp[p].acc = a /\ ~Compared(imp[p])
<1>1. \/ UNCHANGED <<stored, account>>
      \/ \E b \in Accounts : Register(b)
      \/ \E p \in Procs : CommitChat(p) \/ EndImport(p)
  BY DEF vars, tables, Next, ImportStep, BackfillStep, BfStart, Export, StartImport, ParseExport,
         OpenChat, CreateChat, LoseChat, InsertBatch, FailChat, Kill, BfChat, BfInsert, BfEnd,
         BfInterrupt
<1>2. CASE UNCHANGED <<stored, account>>
  BY <1>2
<1>3. ASSUME NEW b \in Accounts, Register(b)
      PROVE  stored' = stored /\ (account[a] # Absent => account'[a] = account[a])
  BY <1>3 DEF Register, Inv, TypeOK
<1>4. ASSUME NEW p \in Procs, CommitChat(p) \/ EndImport(p) PROVE imp'[p] # imp[p]
  <2>1. imp[p] \in Runs /\ imp \in [Procs -> Runs]
    BY DEF Inv, TypeOK, Runs
  <2>2. PICK r \in Runs : r = imp[p]
    BY <2>1
  <2>3. CASE CommitChat(p)
    <3>1. PICK s : s = [Forget(r) EXCEPT !.ok = TRUE]
      OBVIOUS
    <3>2. s.pc = "next"
      BY <3>1 DEF Forget, Runs
    <3> QED BY <2>1, <2>2, <2>3, <3>1, <3>2 DEF CommitChat
  <2>4. CASE EndImport(p)
    BY <2>1, <2>4 DEF EndImport, Idle
  <2> QED BY <1>4, <2>3, <2>4
<1>5. ASSUME NEW p \in Procs, CommitChat(p), imp[p].acc = a => Compared(imp[p])
      PROVE  account' = account /\ \A m \in stored'[a] \ stored[a] : m[1] = a
  <2>1. PICK r \in Runs : r = imp[p]
    BY <1>5, RunFacts DEF CommitChat
  <2>2. /\ r.pc = "commit" /\ r.acc \in Accounts /\ r.file \in Files /\ SamePhone(r.read, r.acc)
        /\ Transaction(r)
    BY <1>5, <2>1, RunFacts DEF CommitChat
  <2>3. account' = account /\ stored' = [stored EXCEPT ![r.acc] = stored[r.acc] \cup r.rows]
    BY <1>5, <2>1 DEF CommitChat, Table
  <2>4. \A m \in r.rows : m[1] = r.file.of
    BY <2>2, NewFacts DEF Transaction
  <2>5. r.acc = a => r.file.of = a
    BY <1>5, <2>1, <2>2 DEF Compared, SamePhone
  <2> QED BY <2>2, <2>3, <2>4, <2>5 DEF Inv, TypeOK
<1>6. ASSUME NEW p \in Procs, EndImport(p), imp[p].acc = a => Compared(imp[p])
      PROVE  stored' = stored /\ account'[a].user \in {account[a].user, a}
  <2>1. PICK r \in Runs : r = imp[p]
    BY <1>6, RunFacts DEF EndImport
  <2>2. r.acc \in Accounts /\ SamePhone(r.read, r.acc)
    BY <1>6, <2>1, RunFacts DEF EndImport
  <2>3. /\ stored' = stored
        /\ account' = account \/ account' = [account EXCEPT ![r.acc] = Imported(r.acc, r.read)]
    BY <1>6, <2>1 DEF EndImport
  <2>4. r.acc = a => Imported(a, r.read).user \in {account[a].user, a}
    BY <1>6, <2>1, <2>2 DEF Compared, SamePhone, Imported
  <2> QED BY <2>2, <2>3, <2>4 DEF Inv, TypeOK
<1> QED BY <1>1, <1>2, <1>3, <1>4, <1>5, <1>6

\* Messages of another account enter an account's chats, and its telegram id the account,
\* only by an import that had no phone to compare or whose export was replaced between the
\* comparison and the parse; backfills never bring any (_run_cli, ADR-012 6).
THEOREM ForeignOnlyUncompared == Spec => OwnMessages
<1>1. Inv /\ [Next]_vars =>
        [\A a \in Accounts :
           \/ /\ \A m \in stored'[a] \ stored[a] : m[1] = a
              /\ account[a] # Absent => account'[a].user \in {account[a].user, a}
           \/ \E p \in Procs : imp'[p] # imp[p] /\ imp[p].acc = a /\ ~Compared(imp[p])]_vars
  BY ForeignComesUncompared
<1> QED BY <1>1, Invariance, PTL DEF Spec, OwnMessages

\* However imports of old and new exports overlap, fail and are killed, what is at or
\* below a watermark is stored, unless a message of another account in the chat shows
\* that a wrong export has moved it (_import_one_chat and last_imported_message_id).
THEOREM StoredUpToWatermark == Spec => []UpToWatermark
<1>1. Inv => UpToWatermark
  BY DEF Inv
<1> QED BY <1>1, Invariance, PTL

\* A message is never stored without the row of metadata of its media (INSERT ...
\* RETURNING and the rows of the same transaction).
THEOREM MediaAlwaysRecorded == Spec => []MediaRecorded
<1>1. Inv => MediaRecorded
  BY DEF Inv
<1> QED BY <1>1, Invariance, PTL

\* An import of the account's own export that reports no failed chat has stored it, but for
\* chats with messages of another account, whatever other imports found, waited for or
\* rolled back (run_import).
THEOREM ImportIsComplete == Spec => []ImportedIsStored
<1>1. Inv => ImportedIsStored
  BY DEF Inv, ImportedIsStored, ImportOK
<1> QED BY <1>1, Invariance, PTL

\* A backfill that is not interrupted leaves no stored message of its export without
\* metadata, although it looks at the chats only once (backfill_media_metadata).
LEMMA DoneIsRecorded == ASSUME Inv PROVE BackfillComplete
<1> SUFFICES ASSUME bf.pc = "next", bf.todo = {},
                    NEW m \in WithMedia(Parsed(bf.file)), m \in stored[bf.acc]
             PROVE  Present(media[bf.acc], m)
  BY DEF BackfillComplete
<1>1. bf.acc \in Accounts
  BY DEF Inv, BackfillOK
<1>2. CASE m \in {bf.acc} \X Legacy[bf.acc]
  <2>1. bf.file \in Files /\ m \in Parsed(bf.file)
    BY DEF Inv, BackfillOK, WithMedia
  <2>2. bf.file.of = bf.acc /\ m[2] \in Legacy[bf.acc]
    BY <1>2, <2>1 DEF Parsed
  <2> QED BY <2>2 DEF Inv, BackfillOK
<1>3. CASE m \notin {bf.acc} \X Legacy[bf.acc]
  BY <1>1, <1>3 DEF Inv, MediaRecorded, WithMedia
<1> QED BY <1>2, <1>3

THEOREM BackfillIsComplete == Spec => []BackfillComplete
BY DoneIsRecorded, Invariance, PTL

\* Who waits for a row comes after all it has inserted, so two imports that waited for
\* each other would each be ahead of the other (the messages of a chat are inserted in
\* the order of the export, in batches).
LEMMA OneWay == ASSUME Inv PROVE NoCircularWait
<1> SUFFICES ASSUME NEW p \in Procs, NEW q \in Procs, Waits(p, q), Waits(q, p) PROVE FALSE
  BY DEF NoCircularWait
<1> DEFINE r == imp[p]
           s == imp[q]
<1>1. ASSUME NEW x \in Procs, NEW y \in Procs, Waits(x, y), Waits(y, x) PROVE imp[x].pc = "insert"
  <2>1. imp[y].pc \in {"create", "insert"} /\ imp[x].pc \in {"create", "insert"}
    BY <1>1 DEF Waits
  <2>2. CASE imp[x].pc = "create"
    <3>1. imp[x].rows = {}
      BY <2>2 DEF Inv, ImportOK
    <3>2. imp[y].pc = "insert"
      BY <1>1, <2>1, <2>2 DEF Waits, HasCreated
    <3> QED BY <1>1, <3>1, <3>2 DEF Waits, Present
  <2> QED BY <2>1, <2>2
<1>2. r.pc = "insert" /\ s.pc = "insert"
  BY <1>1
<1>3. /\ r.file \in Files /\ s.file \in Files /\ Transaction(r) /\ Transaction(s)
      /\ r.left \subseteq Messages /\ s.left \subseteq Messages
  BY <1>2 DEF Inv, ImportOK, TypeOK
<1>4. PICK m \in NextBatch(r.left) : Present(s.rows, m)
  BY <1>2 DEF Waits
<1>5. PICK n \in NextBatch(s.left) : Present(r.rows, n)
  BY <1>2 DEF Waits
<1>6. m \in r.left /\ n \in s.left
  BY DEF NextBatch
<1>7. PICK x \in s.rows : x[2] = m[2]
  BY <1>4 DEF Present
<1>8. PICK y \in r.rows : y[2] = n[2]
  BY <1>5 DEF Present
<1>9. y[2] < m[2] /\ x[2] < n[2]
  BY <1>3, <1>6, <1>7, <1>8 DEF Transaction
<1>10. m[2] \in Nat /\ n[2] \in Nat
  BY <1>3, <1>6, MessageFacts
<1> QED BY <1>7, <1>8, <1>9, <1>10

THEOREM ImportsDoNotDeadlock == Spec => []NoCircularWait
BY OneWay, Invariance, PTL

\* Messages are only added.
LEMMA StoredGrows ==
  ASSUME Inv, [Next]_vars, NEW a \in Accounts
  PROVE  stored[a] \subseteq stored'[a]
<1>1. CASE UNCHANGED stored
  BY <1>1
<1>2. ASSUME NEW p \in Procs, CommitChat(p) PROVE stored[a] \subseteq stored'[a]
  BY <1>2 DEF CommitChat, Table, Inv, TypeOK
<1>3. UNCHANGED stored \/ \E p \in Procs : CommitChat(p)
  BY DEF vars, tables, Next, ImportStep, BackfillStep, Register, BfStart, Export, StartImport,
         ParseExport, OpenChat, CreateChat, LoseChat, InsertBatch, EndImport, FailChat, Kill,
         BfChat, BfInsert,
         BfEnd, BfInterrupt
<1> QED BY <1>1, <1>2, <1>3

\* A row's key tells it from every other, although accounts number their messages alike:
\* a transaction inserts no key that is there or that another has inserted.
LEMMA RowKeysDiffer ==
  ASSUME Inv, NEW x \in Rows, NEW y \in Rows, RowKey(x) = RowKey(y)
  PROVE  x = y
<1>1. ASSUME NEW z \in Rows PROVE z[1] \in Accounts /\ z[2] \in stored[z[1]] /\ z = <<z[1], z[2]>>
  BY DEF Rows
<1>2. x[1] = y[1] /\ ChatIn(x[2]) = ChatIn(y[2]) /\ x[2][2] = y[2][2]
  BY DEF RowKey
<1>3. x[2] = y[2]
  BY <1>1, <1>2 DEF Inv, OneRowPerKey
<1> QED BY <1>1, <1>2, <1>3

\* The table of messages is an archive (INSERT ... ON CONFLICT DO NOTHING under the unique
\* key of chat and telegram id).
THEOREM KeepsMessages == Spec => ImplementsArchive
<1>1. Inv => MessageArchive!KeysDiffer
  BY RowKeysDiffer DEF MessageArchive!KeysDiffer
<1>2. Init => MessageArchive!Init
  BY <1>1, InitInv DEF MessageArchive!Init
<1>3. Inv /\ [Next]_vars => [MessageArchive!Add]_Rows
  <2> SUFFICES ASSUME Inv, [Next]_vars, Rows' # Rows PROVE MessageArchive!Add
    OBVIOUS
  <2>1. Rows \subseteq Rows'
    BY StoredGrows DEF Rows
  <2>2. MessageArchive!KeysDiffer'
    <3>1. Inv'
      BY NextInv
    <3> QED BY <1>1, <3>1, PTL
  <2> QED BY <2>1, <2>2 DEF MessageArchive!Add
<1> QED BY <1>2, <1>3, Invariance, PTL DEF Spec, ImplementsArchive, MessageArchive!Spec

=============================================================================
