----------------------------- MODULE ChatBookProofs -----------------------------
(* What the chat book promises for any number of chats, customers and        *)
(* versions.  A chat is linked once and never unlinked, so all its analyses   *)
(* leave behind is for one customer; the journal names every order a version  *)
(* still has, so a repetition takes the last one back before it makes another. *)
EXTENDS ChatBook, FiniteSetTheorems, TLAPS

(* ---------------------------- the invariant ---------------------------- *)

FactsOnce == \A c \in Sourced, k \in Customers : Known(k)[c] <= 1
OrdersOnce == \A c \in Chats, v \in Analyses : drafts[c][v] <= 1
OnePending == \A c \in Chats : \A i, j \in Pending(c) : i = j

\* The unique key of telegram_id.
HandlesUnique ==
  \A j, k \in Customers : j # k /\ tg[j] \in Handles => tg[j] # tg[k]

Inv == /\ TypeOK /\ OneCustomerPerChat /\ AnalysesServeTheCustomer
       /\ FactsOnce /\ OrdersOnce /\ OnePending /\ HandlesUnique

(* ------------------------------- lemmas -------------------------------- *)

\* A chat has no customer or one, the one that CustomerOf names.
LEMMA Owner ==
  ASSUME OneCustomerPerChat, NEW c \in Chats
  PROVE  \/ links[c] = {} /\ CustomerOf(c) = None
         \/ \E k \in Customers : links[c] = {k} /\ CustomerOf(c) = k
<1>1. CASE links[c] = {}
  BY <1>1 DEF CustomerOf
<1>2. CASE links[c] # {}
  <2>1. PICK k \in Customers : links[c] = {k}
    BY <1>2 DEF OneCustomerPerChat
  <2>2. CustomerOf(c) = k
    BY <2>1 DEF CustomerOf
  <2> QED BY <2>1, <2>2
<1> QED BY <1>1, <1>2

LEMMA KnownType ==
  ASSUME TypeOK, NEW k \in Customers
  PROVE  Known(k) \in Profile
BY DEF TypeOK, Known, Blank, Profile

\* A step outside the customers and the links that leaves the rows of analyses to
\* customers alone keeps what they promise.
LEMMA ReviewKeeps ==
  ASSUME Inv, UNCHANGED <<links, customerVars, appliedVars>>, TypeOK',
         \A c \in Chats : review[c] \in LinkedStatuses => review'[c] = review[c]
  PROVE  Inv'
<1> USE DEF Inv, customerVars, appliedVars
<1>1. OneCustomerPerChat'
  BY DEF OneCustomerPerChat
<1>2. AnalysesServeTheCustomer'
  BY DEF AnalysesServeTheCustomer, Known, Blank
<1>3. FactsOnce' /\ OrdersOnce' /\ OnePending' /\ HandlesUnique'
  BY DEF FactsOnce, OrdersOnce, OnePending, HandlesUnique, Known, Blank, Pending
<1> QED BY <1>1, <1>2, <1>3

\* A step that adds or changes a customer's contacts.
LEMMA ContactsKeep ==
  ASSUME Inv, UNCHANGED <<chatVars, analysisVars, appliedVars>>, TypeOK', HandlesUnique',
         \A k \in Customers : tg[k] # Absent => tg'[k] # Absent
  PROVE  Inv'
<1> USE DEF Inv, chatVars, appliedVars
<1>1. OneCustomerPerChat'
  BY DEF OneCustomerPerChat
<1>2. AnalysesServeTheCustomer'
  BY DEF AnalysesServeTheCustomer, Known, Blank
<1>3. FactsOnce' /\ OrdersOnce' /\ OnePending'
  BY DEF FactsOnce, OrdersOnce, OnePending, Known, Blank, Pending
<1> QED BY <1>1, <1>2, <1>3

\* A chat that is reviewed gets its first customer.
LEMMA LinkKeeps ==
  ASSUME Inv, NEW c \in Chats, NEW k \in Customers, NEW s \in LinkedStatuses,
         Reviewable(c), LinkMessages(c, k), review' = [review EXCEPT ![c] = s],
         UNCHANGED <<messages, email, analysisVars, appliedVars>>,
         tg' \in [Customers -> Handles \cup {None, Absent}], HandlesUnique',
         tg'[k] # Absent, \A j \in Customers : tg[j] # Absent => tg'[j] # Absent
  PROVE  Inv'
<1> USE DEF Inv, analysisVars, appliedVars
<1>1. links[c] = {}
  BY DEF OneCustomerPerChat, Reviewable, LinkedStatuses
<1>2. links' \in [Chats -> SUBSET Customers] /\ links'[c] \in {{}, {k}}
      /\ \A d \in Chats \ {c} : links'[d] = links[d]
  BY <1>1 DEF LinkMessages, TypeOK
<1>3. TypeOK'
  BY <1>2 DEF TypeOK, LinkedStatuses, Reviews
<1>4. OneCustomerPerChat'
  <2> SUFFICES ASSUME NEW d \in Chats, links'[d] # {}
               PROVE  /\ \E j \in Customers : links'[d] = {j} /\ tg'[j] # Absent
                      /\ review'[d] \in LinkedStatuses
    BY DEF OneCustomerPerChat
  <2>1. CASE d = c
    BY <2>1, <1>2 DEF TypeOK
  <2>2. CASE d # c
    <3>1. review'[d] = review[d] /\ links'[d] = links[d]
      BY <2>2, <1>2 DEF TypeOK
    <3>2. PICK j \in Customers : links[d] = {j} /\ tg[j] # Absent
      BY <3>1 DEF OneCustomerPerChat
    <3>3. review[d] \in LinkedStatuses
      BY <3>1 DEF OneCustomerPerChat
    <3> QED BY <3>1, <3>2, <3>3
  <2> QED BY <2>1, <2>2
<1>5. AnalysesServeTheCustomer'
  <2> SUFFICES ASSUME NEW d \in Chats
               PROVE  /\ \A i \in DOMAIN queue[d] : queue[d][i].customer # None
                                      => links'[d] = {queue[d][i].customer}
                      /\ \A j \in Customers : Known(j)[d] > 0 => links'[d] = {j}
                      /\ \A v \in Analyses : drafts[d][v] > 0
                                      => links'[d] # {} /\ v \in journal[d]
    BY DEF AnalysesServeTheCustomer, Known, Blank
  <2>1. CASE d = c
    BY <2>1, <1>1 DEF AnalysesServeTheCustomer
  <2>2. CASE d # c
    BY <2>2, <1>2 DEF AnalysesServeTheCustomer
  <2> QED BY <2>1, <2>2
<1>6. FactsOnce' /\ OrdersOnce' /\ OnePending'
  BY DEF FactsOnce, OrdersOnce, OnePending, Known, Blank, Pending
<1> QED BY <1>3, <1>4, <1>5, <1>6

(* ----------------------- applying an analysis -------------------------- *)

\* At most one row is added to the queue, pending and for the chat's customer.
LEMMA QuarantinedAdds ==
  ASSUME TypeOK, OneCustomerPerChat, NEW c \in Chats
  PROVE  /\ Quarantined(c) \in Seq(Rows)
         /\ \/ Pending(c) # {} /\ Quarantined(c) = queue[c]
            \/ /\ Pending(c) = {}
               /\ Quarantined(c)
                    = Append(queue[c], [customer |-> CustomerOf(c), status |-> "pending"])
<1>1. CustomerOf(c) \in Customers \cup {None}
  BY Owner
<1>2. [customer |-> CustomerOf(c), status |-> "pending"] \in Rows
  BY <1>1 DEF Rows, QueueStatuses
<1>3. queue[c] \in Seq(Rows)
  BY DEF TypeOK
<1> QED BY <1>2, <1>3 DEF Quarantined

\* A fact more, for this chat; a second time only if it names no messages.
LEMMA RememberedAdds ==
  ASSUME TypeOK, FactsOnce, NEW k \in Customers, NEW c \in Chats
  PROVE  /\ Remembered(k, c) \in Profile
         /\ \A d \in Chats \ {c} : Remembered(k, c)[d] = Known(k)[d]
         /\ c \in Sourced => Remembered(k, c)[c] <= 1
<1>1. Known(k) \in [Chats -> 0..2]
  BY KnownType DEF Profile
<1>2. OneMore(Known(k)[c]) \in 0..2 /\ (Known(k)[c] = 0 => OneMore(Known(k)[c]) = 1)
  BY <1>1 DEF OneMore
<1>3. c \in Sourced => Known(k)[c] <= 1
  BY DEF FactsOnce
<1>4. Known(k)[c] \in 0..2
  BY <1>1
<1> QED BY <1>1, <1>2, <1>3, <1>4 DEF Remembered, Profile

\* After the rollback the version has no order of the chat left.
LEMMA NothingKept ==
  ASSUME TypeOK, AnalysesServeTheCustomer, NEW c \in Chats, NEW v \in Analyses
  PROVE  Kept(c, v) = 0 /\ OneMore(Kept(c, v)) = 1
<1>1. drafts[c][v] \in 0..2
  BY DEF TypeOK
<1>2. Kept(c, v) = 0
  BY <1>1 DEF Kept, AnalysesServeTheCustomer
<1> QED BY <1>2 DEF OneMore

\* What applying an analysis does to the rows of a customer.
LEMMA AppliedRows ==
  ASSUME Inv, NEW c \in Chats, NEW v \in Analyses, NEW kind \in Kinds, NEW force \in BOOLEAN,
         Applied(c, v, kind, force), ~(Ambiguous(c) \/ AlreadyApplied(c, v, force))
  PROVE  /\ queue' \in [Chats -> Seq(Rows)]
         /\ \A d \in Chats \ {c} : queue'[d] = queue[d]
         /\ queue'[c] \in {queue[c], Quarantined(c)}
         /\ profile' \in [Customers -> Profile \cup {None}]
         /\ \A k \in Customers : k # CustomerOf(c) => profile'[k] = profile[k]
         /\ \A k \in Customers : k = CustomerOf(c) =>
              profile'[k] \in {profile[k], Known(k), Remembered(k, c)}
         /\ CustomerOf(c) = None => drafts' = drafts /\ journal' = journal
         /\ CustomerOf(c) # None =>
              \/ drafts' = [drafts EXCEPT ![c][v] = 1] /\ journal' = [journal EXCEPT ![c] = @ \cup {v}]
              \/ drafts' = [drafts EXCEPT ![c][v] = 0] /\ journal' = [journal EXCEPT ![c] = @ \ {v}]
<1> DEFINE k == CustomerOf(c)
<1> USE DEF Inv
<1>1. /\ queue' = IF kind = "full" THEN [queue EXCEPT ![c] = Quarantined(c)] ELSE queue
      /\ profile' = IF k = None \/ kind = "skipped" THEN profile
                    ELSE [profile EXCEPT ![k] = IF kind = "full" THEN Remembered(k, c)
                                                ELSE Known(k)]
      /\ drafts' = IF k = None THEN drafts
                   ELSE [drafts EXCEPT ![c][v] = IF kind = "full" THEN OneMore(Kept(c, v))
                                                 ELSE Kept(c, v)]
      /\ journal' = IF k = None THEN journal
                    ELSE [journal EXCEPT ![c] = IF kind = "full" THEN @ \cup {v} ELSE @ \ {v}]
  BY DEF Applied
<1>2. k \in Customers \cup {None}
  BY Owner
<1>3. k # None => Remembered(k, c) \in Profile /\ Known(k) \in Profile
  BY <1>2, RememberedAdds, KnownType
<1>4. Quarantined(c) \in Seq(Rows)
  BY QuarantinedAdds
<1>5. Kept(c, v) = 0 /\ OneMore(Kept(c, v)) = 1
  BY NothingKept
<1>6. /\ queue' \in [Chats -> Seq(Rows)]
      /\ \A d \in Chats \ {c} : queue'[d] = queue[d]
      /\ queue'[c] \in {queue[c], Quarantined(c)}
  BY <1>1, <1>4 DEF TypeOK
<1>7. CASE k = None
  <2>1. None \notin Customers
    BY ChatAssumption
  <2> QED BY <1>1, <1>6, <1>7, <2>1 DEF TypeOK
<1>8. CASE k # None
  <2> HIDE DEF k
  <2>1. /\ profile' \in [Customers -> Profile \cup {None}]
        /\ \A j \in Customers : j # k => profile'[j] = profile[j]
        /\ profile'[k] \in {profile[k], Known(k), Remembered(k, c)}
    BY <1>1, <1>2, <1>3, <1>8 DEF TypeOK
  <2>2. \/ drafts' = [drafts EXCEPT ![c][v] = 1] /\ journal' = [journal EXCEPT ![c] = @ \cup {v}]
        \/ drafts' = [drafts EXCEPT ![c][v] = 0] /\ journal' = [journal EXCEPT ![c] = @ \ {v}]
    BY <1>1, <1>5, <1>8
  <2> QED BY <1>6, <1>8, <2>1, <2>2 DEF k
<1> QED BY <1>7, <1>8

LEMMA AppliedKeeps ==
  ASSUME Inv, NEW c \in Chats, NEW v \in Analyses, NEW kind \in Kinds, NEW force \in BOOLEAN,
         Applied(c, v, kind, force), UNCHANGED <<chatVars, customerVars>>,
         analysis' \in [Chats -> [Analyses -> Kinds]],
         newest' \in [Chats -> Analyses \cup {None}]
  PROVE  Inv'
<1> DEFINE k == CustomerOf(c)
<1>1. CASE Ambiguous(c) \/ AlreadyApplied(c, v, force)
  <2>1. UNCHANGED appliedVars
    BY <1>1 DEF Applied
  <2>2. TypeOK'
    BY <2>1 DEF Inv, TypeOK, chatVars, customerVars, appliedVars
  <2> QED BY <2>1, <2>2, ReviewKeeps DEF chatVars
<1>2. CASE ~(Ambiguous(c) \/ AlreadyApplied(c, v, force))
  <2>0. TypeOK /\ OneCustomerPerChat /\ AnalysesServeTheCustomer /\ FactsOnce /\ OrdersOnce
        /\ OnePending /\ HandlesUnique
    BY DEF Inv
  <2>1. /\ queue' \in [Chats -> Seq(Rows)]
        /\ \A d \in Chats \ {c} : queue'[d] = queue[d]
        /\ queue'[c] \in {queue[c], Quarantined(c)}
    BY <1>2, AppliedRows
  <2>2. /\ profile' \in [Customers -> Profile \cup {None}]
        /\ \A j \in Customers : j # k => profile'[j] = profile[j]
        /\ \A j \in Customers : j = k => profile'[j] \in {profile[j], Known(j), Remembered(j, c)}
    BY <1>2, AppliedRows
  <2>3. /\ k = None => drafts' = drafts /\ journal' = journal
        /\ k # None =>
             \/ drafts' = [drafts EXCEPT ![c][v] = 1] /\ journal' = [journal EXCEPT ![c] = @ \cup {v}]
             \/ drafts' = [drafts EXCEPT ![c][v] = 0] /\ journal' = [journal EXCEPT ![c] = @ \ {v}]
    BY <1>2, AppliedRows
  <2>4. \/ links[c] = {} /\ k = None
        \/ k \in Customers /\ links[c] = {k} /\ k # None
    BY <2>0, Owner, ChatAssumption
  <2> HIDE DEF k
  <2>5. /\ drafts' \in [Chats -> [Analyses -> 0..2]] /\ journal' \in [Chats -> SUBSET Analyses]
        /\ \A d \in Chats, u \in Analyses :
             /\ drafts'[d][u] = drafts[d][u] \/ (d = c /\ u = v /\ k # None /\ drafts'[d][u] = 0)
                  \/ (d = c /\ u = v /\ k # None /\ drafts'[d][u] = 1 /\ u \in journal'[d])
             /\ u \in journal[d] /\ ~(d = c /\ u = v) => u \in journal'[d]
             /\ drafts'[d][u] > 0 /\ d = c /\ u = v /\ k # None => u \in journal'[d]
    <3>0. /\ drafts \in [Chats -> [Analyses -> 0..2]] /\ journal \in [Chats -> SUBSET Analyses]
          /\ 0 \in 0..2 /\ 1 \in 0..2
      BY <2>0 DEF TypeOK
    <3>1. CASE k = None
      BY <2>3, <3>0, <3>1
    <3>2. CASE drafts' = [drafts EXCEPT ![c][v] = 1] /\ journal' = [journal EXCEPT ![c] = @ \cup {v}]
      <4>1. drafts' \in [Chats -> [Analyses -> 0..2]]
        BY <3>0, <3>2
      <4>2. journal' \in [Chats -> SUBSET Analyses]
        BY <3>0, <3>2
      <4> QED BY <2>3, <3>0, <3>1, <3>2, <4>1, <4>2
    <3>3. CASE drafts' = [drafts EXCEPT ![c][v] = 0] /\ journal' = [journal EXCEPT ![c] = @ \ {v}]
      <4>1. drafts' \in [Chats -> [Analyses -> 0..2]]
        BY <3>0, <3>3
      <4>2. journal' \in [Chats -> SUBSET Analyses]
        BY <3>0, <3>3
      <4> QED BY <2>3, <3>0, <3>1, <3>3, <4>1, <4>2
    <3> QED BY <2>3, <3>1, <3>2, <3>3
  <2>6. TypeOK'
    BY <2>0, <2>1, <2>2, <2>5 DEF TypeOK, chatVars, customerVars
  <2>7. OneCustomerPerChat' /\ HandlesUnique'
    BY <2>0 DEF OneCustomerPerChat, HandlesUnique, chatVars, customerVars
  <2>8. \A j \in Customers :
          /\ j # k => Known(j)' = Known(j)
          /\ j = k => \/ Known(j)' = Known(j) \/ Known(j)' = Remembered(j, c)
    <3> TAKE j \in Customers
    <3>1. CASE j # k
      BY <3>1, <2>2 DEF Known, Blank
    <3>2. CASE j = k
      <4>1. profile'[j] \in {profile[j], Known(j), Remembered(j, c)}
        BY <3>2, <2>2
      <4>2. Remembered(j, c) \in Profile
        BY <2>0, RememberedAdds
      <4>3. Remembered(j, c) # None
        BY <4>2, ChatAssumption DEF Profile
      <4>4. CASE profile'[j] = profile[j]
        BY <4>4, <3>2 DEF Known, Blank
      <4>5. CASE profile'[j] = Known(j)
        BY <4>5, <3>2 DEF Known, Blank
      <4>6. CASE profile'[j] = Remembered(j, c)
        BY <4>6, <4>3, <3>2 DEF Known
      <4> QED BY <4>1, <4>4, <4>5, <4>6
    <3> QED BY <3>1, <3>2
  <2>9. \A j \in Customers, d \in Chats :
          Known(j)'[d] = Known(j)[d] \/ (j = k /\ d = c /\ (c \in Sourced => Known(j)'[d] <= 1))
    BY <2>0, <2>8, RememberedAdds
  <2>10. \A d \in Chats : \A i \in DOMAIN queue'[d] :
           \/ i \in DOMAIN queue[d] /\ queue'[d][i] = queue[d][i]
           \/ /\ d = c /\ i = Len(queue[c]) + 1 /\ Pending(c) = {}
              /\ queue'[d][i] = [customer |-> k, status |-> "pending"]
    <3> TAKE d \in Chats
    <3> TAKE i \in DOMAIN queue'[d]
    <3>1. CASE queue'[d] = queue[d]
      BY <3>1
    <3>2. CASE d = c /\ queue'[c] = Append(queue[c], [customer |-> k, status |-> "pending"])
                /\ Pending(c) = {}
      <4>1. queue[c] \in Seq(Rows)
        BY <2>0 DEF TypeOK
      <4> QED BY <3>2, <4>1
    <3> QED BY <2>0, <2>1, <3>1, <3>2, QuarantinedAdds DEF k
  <2>11. AnalysesServeTheCustomer'
    <3> SUFFICES ASSUME NEW d \in Chats
                 PROVE  /\ \A i \in DOMAIN queue'[d] : queue'[d][i].customer # None
                                        => links[d] = {queue'[d][i].customer}
                        /\ \A j \in Customers : Known(j)'[d] > 0 => links[d] = {j}
                        /\ \A u \in Analyses : drafts'[d][u] > 0
                                        => links[d] # {} /\ u \in journal'[d]
      BY DEF AnalysesServeTheCustomer, chatVars
    <3>1. \A i \in DOMAIN queue'[d] : queue'[d][i].customer # None
                                        => links[d] = {queue'[d][i].customer}
      BY <2>0, <2>4, <2>10 DEF AnalysesServeTheCustomer
    <3>2. \A j \in Customers : Known(j)'[d] > 0 => links[d] = {j}
      <4> TAKE j \in Customers
      <4>1. CASE Known(j)'[d] = Known(j)[d]
        BY <2>0, <4>1 DEF AnalysesServeTheCustomer
      <4>2. CASE j = k /\ d = c
        BY <2>4, <4>2, ChatAssumption
      <4> QED BY <2>9, <4>1, <4>2
    <3>3. ASSUME NEW u \in Analyses, drafts'[d][u] > 0
          PROVE  links[d] # {} /\ u \in journal'[d]
      <4>1. CASE d = c /\ u = v /\ k # None
        BY <2>4, <2>5, <3>3, <4>1
      <4>2. CASE ~(d = c /\ u = v /\ k # None)
        <5>1. drafts[d][u] > 0
          BY <2>5, <3>3, <4>2
        <5>2. links[d] # {} /\ u \in journal[d]
          BY <2>0, <5>1 DEF AnalysesServeTheCustomer
        <5>3. CASE k = None
          BY <2>3, <5>2, <5>3
        <5>4. CASE k # None
          BY <2>5, <4>2, <5>2, <5>4
        <5> QED BY <5>3, <5>4
      <4> QED BY <4>1, <4>2
    <3> QED BY <3>1, <3>2, <3>3
  <2>12. FactsOnce'
    BY <2>0, <2>9, ChatAssumption DEF FactsOnce
  <2>13. OrdersOnce'
    <3> SUFFICES ASSUME NEW d \in Chats, NEW u \in Analyses PROVE drafts'[d][u] <= 1
      BY DEF OrdersOnce
    <3>1. drafts'[d][u] \in {0, 1, drafts[d][u]}
      BY <2>5
    <3> QED BY <2>0, <3>1 DEF OrdersOnce
  <2>14. OnePending'
    BY <2>0, <2>10 DEF OnePending, Pending
  <2> QED BY <2>6, <2>7, <2>11, <2>12, <2>13, <2>14 DEF Inv
<1> QED BY <1>1, <1>2

(* -------------------------- the other actions -------------------------- *)

\* An answer changes the status of one pending row.
LEMMA AnswerKeeps ==
  ASSUME Inv, NEW c \in Chats, NEW i \in 1..MaxRows[c], NEW st \in {"applied", "rejected"},
         Answerable(c, i), queue' = [queue EXCEPT ![c][i].status = st],
         email' \in [Customers -> Emails \cup {None}],
         UNCHANGED <<chatVars, tg, analysisVars, profile, drafts, journal>>
  PROVE  Inv'
<1>0. TypeOK /\ OneCustomerPerChat /\ AnalysesServeTheCustomer /\ FactsOnce /\ OrdersOnce
      /\ OnePending /\ HandlesUnique
  BY DEF Inv
<1>1. queue[c] \in Seq(Rows) /\ i \in DOMAIN queue[c]
  BY <1>0 DEF TypeOK, Answerable, Pending
<1>2. [queue[c][i] EXCEPT !.status = st] \in Rows
  <2>1. queue[c][i] \in Rows
    BY <1>1
  <2>2. st \in QueueStatuses
    BY DEF QueueStatuses
  <2> QED BY <2>1, <2>2 DEF Rows
<1>3. [queue[c] EXCEPT ![i] = [queue[c][i] EXCEPT !.status = st]] \in Seq(Rows)
  BY <1>1, <1>2
<1>4. queue' = [queue EXCEPT ![c] = [queue[c] EXCEPT ![i] = [queue[c][i] EXCEPT !.status = st]]]
  OBVIOUS
<1>5. queue' \in [Chats -> Seq(Rows)]
  BY <1>0, <1>3, <1>4 DEF TypeOK
<1>6. \A d \in Chats : /\ DOMAIN queue'[d] = DOMAIN queue[d]
                       /\ \A j \in DOMAIN queue[d] :
                            /\ queue'[d][j].customer = queue[d][j].customer
                            /\ queue'[d][j].status = "pending" => queue[d][j].status = "pending"
  <2> TAKE d \in Chats
  <2>1. CASE d = c
    BY <1>0, <1>1, <1>4, <2>1 DEF TypeOK, Rows
  <2>2. CASE d # c
    BY <1>0, <1>4, <2>2 DEF TypeOK
  <2> QED BY <2>1, <2>2
<1>7. TypeOK'
  BY <1>0, <1>5 DEF TypeOK, chatVars, analysisVars
<1>8. OneCustomerPerChat' /\ HandlesUnique'
  BY <1>0 DEF OneCustomerPerChat, HandlesUnique, chatVars
<1>9. AnalysesServeTheCustomer'
  BY <1>0, <1>6 DEF AnalysesServeTheCustomer, Known, Blank, chatVars
<1>10. OnePending'
  BY <1>0, <1>6 DEF OnePending, Pending
<1>11. FactsOnce' /\ OrdersOnce'
  BY <1>0 DEF FactsOnce, OrdersOnce, Known, Blank
<1> QED BY <1>7, <1>8, <1>9, <1>10, <1>11 DEF Inv

\* A link, to a customer there is or to a new one, keeps telegram_id unique.
LEMMA LinkHandles ==
  ASSUME TypeOK, HandlesUnique, NEW c \in Chats, NEW k \in Customers,
         \/ FillHandle(c, k) /\ tg[k] # Absent
         \/ FreeHandle(k, Handle[c]) /\ tg' = [tg EXCEPT ![k] = Handle[c]]
  PROVE  /\ tg' \in [Customers -> Handles \cup {None, Absent}] /\ HandlesUnique'
         /\ tg'[k] # Absent /\ \A j \in Customers : tg[j] # Absent => tg'[j] # Absent
<1>1. Handle[c] \in Handles /\ Handle[c] # Absent
  BY ChatAssumption
<1>2. CASE tg' = tg /\ tg[k] # Absent
  BY <1>2 DEF TypeOK, HandlesUnique
<1>3. CASE FreeHandle(k, Handle[c]) /\ tg' = [tg EXCEPT ![k] = Handle[c]]
  BY <1>1, <1>3 DEF TypeOK, HandlesUnique, FreeHandle
<1> QED BY <1>2, <1>3 DEF FillHandle

LEMMA InitInv == Init => Inv
<1> SUFFICES ASSUME Init PROVE Inv
  OBVIOUS
<1>1. TypeOK
  BY DEF Init, TypeOK, Reviews, Kinds
<1>2. \A k \in Customers : Known(k) = Blank
  BY DEF Init, Known
<1>3. OneCustomerPerChat /\ OrdersOnce
  BY DEF Init, OneCustomerPerChat, OrdersOnce
<1>4. AnalysesServeTheCustomer
  BY <1>2 DEF Init, AnalysesServeTheCustomer, Blank
<1>5. FactsOnce
  BY <1>2, ChatAssumption DEF FactsOnce, Blank
<1>6. OnePending
  BY DEF Init, OnePending, Pending
<1>7. HandlesUnique
  BY ChatAssumption DEF Init, HandlesUnique
<1> QED BY <1>1, <1>3, <1>4, <1>5, <1>6, <1>7 DEF Inv

LEMMA NextInv == Inv /\ [Next]_vars => Inv'
<1> SUFFICES ASSUME Inv, [Next]_vars PROVE Inv'
  OBVIOUS
<1> USE ChatAssumption
<1>0. TypeOK /\ OneCustomerPerChat /\ HandlesUnique
  BY DEF Inv
<1>1. ASSUME NEW c \in Chats, Import(c) PROVE Inv'
  <2>1. TypeOK'
    BY <1>0, <1>1 DEF Import, TypeOK, customerVars, analysisVars, appliedVars
  <2> QED BY <1>1, <2>1, ReviewKeeps DEF Import
<1>2. ASSUME NEW c \in Chats, Ignore(c) PROVE Inv'
  <2>1. TypeOK'
    BY <1>0, <1>2 DEF Ignore, TypeOK, Reviews, customerVars, analysisVars, appliedVars
  <2>2. \A d \in Chats : review[d] \in LinkedStatuses => review'[d] = review[d]
    BY <1>0, <1>2 DEF Ignore, Reviewable, LinkedStatuses, TypeOK
  <2> QED BY <1>2, <2>1, <2>2, ReviewKeeps DEF Ignore
<1>3. ASSUME NEW c \in Chats, ApplyPending(c) PROVE Inv'
  <2>1. newest[c] \in Analyses /\ analysis[c][newest[c]] \in Kinds
    BY <1>0, <1>3 DEF ApplyPending, TypeOK
  <2>2. Applied(c, newest[c], analysis[c][newest[c]], TRUE)
        /\ UNCHANGED <<chatVars, customerVars, analysisVars>>
    BY <1>3 DEF ApplyPending
  <2>3. analysis' \in [Chats -> [Analyses -> Kinds]] /\ newest' \in [Chats -> Analyses \cup {None}]
    BY <1>0, <2>2 DEF TypeOK, analysisVars
  <2> QED BY <2>1, <2>2, <2>3, AppliedKeeps
<1>4. ASSUME NEW k \in Customers, NEW h \in Handles \cup {None}, NEW e \in Emails \cup {None},
             CreateCustomer(k, h, e) \/ UpdateCustomer(k, h, e)
      PROVE  Inv'
  <2>1. /\ tg' = tg \/ (tg' = [tg EXCEPT ![k] = h] /\ (h # None => FreeHandle(k, h)))
        /\ email' = email \/ email' = [email EXCEPT ![k] = e]
        /\ UNCHANGED <<chatVars, analysisVars, appliedVars>>
    BY <1>4 DEF CreateCustomer, UpdateCustomer
  <2>2. h # Absent
    OBVIOUS
  <2>3. TypeOK'
    <3>1. tg' \in [Customers -> Handles \cup {None, Absent}]
      BY <1>0, <2>1 DEF TypeOK
    <3>2. email' \in [Customers -> Emails \cup {None}]
      BY <1>0, <2>1 DEF TypeOK
    <3> QED BY <1>0, <2>1, <3>1, <3>2 DEF TypeOK, chatVars, analysisVars, appliedVars
  <2>4. HandlesUnique'
    <3>1. CASE tg' = tg
      BY <1>0, <3>1 DEF HandlesUnique
    <3>2. CASE tg' = [tg EXCEPT ![k] = h] /\ h = None
      <4>1. None \notin Handles
        OBVIOUS
      <4> QED BY <1>0, <3>2, <4>1 DEF TypeOK, HandlesUnique
    <3>3. CASE tg' = [tg EXCEPT ![k] = h] /\ FreeHandle(k, h)
      BY <1>0, <3>3 DEF TypeOK, HandlesUnique, FreeHandle
    <3> QED BY <2>1, <3>1, <3>2, <3>3
  <2>5. \A j \in Customers : tg[j] # Absent => tg'[j] # Absent
    BY <1>0, <2>1, <2>2 DEF TypeOK
  <2> QED BY <2>1, <2>3, <2>4, <2>5, ContactsKeep
<1>5. ASSUME NEW c \in Chats, NEW k \in Customers, Link(c, k) PROVE Inv'
  <2>1. "linked" \in LinkedStatuses
    BY DEF LinkedStatuses
  <2> QED BY <1>0, <1>5, <2>1, LinkHandles, LinkKeeps DEF Link
<1>6. ASSUME NEW c \in Chats, NEW k \in Customers, LinkNew(c, k) PROVE Inv'
  <2>1. StatusOfNew \in LinkedStatuses
    BY DEF LinkedStatuses, StatusOfNew
  <2> QED BY <1>0, <1>6, <2>1, LinkHandles, LinkKeeps DEF LinkNew
<1>7. ASSUME NEW c \in Chats, NEW v \in Versions, NEW force \in BOOLEAN,
             Analyse(c, v, force) \/ AnalyseOnly(c, v, force)
      PROVE  Inv'
  <2>1. v \in Analyses /\ "full" \in Kinds
    BY DEF Analyses, Kinds
  <2>2. analysis' \in [Chats -> [Analyses -> Kinds]] /\ newest' \in [Chats -> Analyses \cup {None}]
    <3>1. analysis' = [analysis EXCEPT ![c][v] = "full"] /\ newest' = [newest EXCEPT ![c] = v]
      BY <1>7 DEF Analyse, AnalyseOnly, Recorded
    <3>2. analysis \in [Chats -> [Analyses -> Kinds]] /\ newest \in [Chats -> Analyses \cup {None}]
      BY <1>0 DEF TypeOK
    <3>3. [analysis[c] EXCEPT ![v] = "full"] \in [Analyses -> Kinds]
      BY <2>1, <3>2
    <3>4. analysis' = [analysis EXCEPT ![c] = [analysis[c] EXCEPT ![v] = "full"]]
      BY <3>1
    <3>5. analysis' \in [Chats -> [Analyses -> Kinds]]
      BY <3>2, <3>3, <3>4
    <3> QED BY <2>1, <3>1, <3>2, <3>5
  <2>3. CASE Analyse(c, v, force)
    BY <2>1, <2>2, <2>3, AppliedKeeps DEF Analyse
  <2>4. CASE AnalyseOnly(c, v, force)
    <3>1. TypeOK'
      BY <1>0, <2>2, <2>4 DEF AnalyseOnly, TypeOK, chatVars, customerVars, appliedVars
    <3> QED BY <2>4, <3>1, ReviewKeeps DEF AnalyseOnly, chatVars
  <2> QED BY <1>7, <2>3, <2>4
<1>8. ASSUME NEW c \in Chats, NEW v \in Versions, WorkOn(c, v) PROVE Inv'
  <2>0. v \in Analyses
    BY DEF Analyses
  <2>1. drafts \in [Chats -> [Analyses -> 0..2]] /\ drafts[c][v] - 1 \in 0..2
    BY <1>0, <1>8, <2>0 DEF TypeOK, WorkOn
  <2>2. /\ drafts' \in [Chats -> [Analyses -> 0..2]]
        /\ \A d \in Chats, u \in Analyses : drafts'[d][u] = drafts[d][u]
             \/ (d = c /\ u = v /\ drafts'[d][u] = drafts[d][u] - 1)
    BY <1>8, <2>1 DEF WorkOn
  <2>3. \A d \in Chats, u \in Analyses : drafts'[d][u] <= drafts[d][u] /\ drafts[d][u] \in 0..2
                                           /\ drafts'[d][u] \in 0..2
    BY <2>1, <2>2
  <2>4. TypeOK'
    BY <1>0, <1>8, <2>2 DEF TypeOK, WorkOn, chatVars, customerVars, analysisVars
  <2>5. OrdersOnce'
    BY <2>3 DEF Inv, OrdersOnce
  <2>6. UNCHANGED <<review, links, tg, queue, profile, journal>>
    BY <1>8 DEF WorkOn, chatVars, customerVars
  <2>7. AnalysesServeTheCustomer'
    <3>1. \A d \in Chats, u \in Analyses : drafts'[d][u] > 0 => drafts[d][u] > 0
      BY <2>3
    <3> QED BY <2>6, <3>1 DEF Inv, AnalysesServeTheCustomer, Known, Blank
  <2>8. OneCustomerPerChat' /\ HandlesUnique' /\ FactsOnce' /\ OnePending'
    BY <2>6 DEF Inv, OneCustomerPerChat, HandlesUnique, FactsOnce, OnePending, Known, Blank, Pending
  <2> QED BY <2>4, <2>5, <2>7, <2>8 DEF Inv
<1>9. ASSUME NEW c \in Chats, NEW kind \in {"skipped", "plain"}, Classify(c, kind) PROVE Inv'
  <2>1. TypeOK'
    BY <1>0, <1>9 DEF Classify, Recorded, TypeOK, Analyses, Kinds, chatVars, customerVars, appliedVars
  <2> QED BY <1>9, <2>1, ReviewKeeps DEF Classify, chatVars
<1>10. ASSUME NEW c \in Chats, NEW i \in 1..MaxRows[c], Reject(c, i) PROVE Inv'
  <2>1. email' \in [Customers -> Emails \cup {None}]
    BY <1>0, <1>10 DEF Reject, TypeOK, customerVars
  <2> QED BY <1>10, <2>1, AnswerKeeps DEF Reject, customerVars
<1>11. ASSUME NEW c \in Chats, NEW i \in 1..MaxRows[c], Overwrite(c, i) PROVE Inv'
  <2>1. email' \in [Customers -> Emails \cup {None}]
    BY <1>0, <1>11 DEF Overwrite, TypeOK
  <2> QED BY <1>11, <2>1, AnswerKeeps DEF Overwrite
<1>12. CASE UNCHANGED vars
  <2>1. TypeOK'
    BY <1>0, <1>12 DEF vars, TypeOK, chatVars, customerVars, analysisVars, appliedVars
  <2> QED BY <1>12, <2>1, ReviewKeeps DEF vars, chatVars
<1> QED
  BY <1>1, <1>2, <1>3, <1>4, <1>5, <1>6, <1>7, <1>8, <1>9, <1>10, <1>11, <1>12 DEF Next

(* ------------------------------- theorems ------------------------------ *)

\* The invariant holds for all values of the constants.
THEOREM Invariant == Spec => []Inv
BY InitInv, NextInv, PTL DEF Spec

\* Every value of the model has its type.
THEOREM TypeCorrect == Spec => []TypeOK
<1>1. Inv => TypeOK
  BY DEF Inv
<1> QED BY <1>1, Invariant, PTL

\* No sequence of reviews, imports and analyses gives a chat two customers
\* (link_chat_to_customer, get_customer_for_chat).
THEOREM OneCustomer == Spec => []OneCustomerPerChat
<1>1. Inv => OneCustomerPerChat
  BY DEF Inv
<1> QED BY <1>1, Invariant, PTL

\* Nothing an analysis leaves behind belongs to anybody but the chat's customer
\* (apply_analysis_to_customer).
THEOREM ServesTheCustomer == Spec => []AnalysesServeTheCustomer
<1>1. Inv => AnalysesServeTheCustomer
  BY DEF Inv
<1> QED BY <1>1, Invariant, PTL

\* Repetition, force and preflight rows never double a fact with a source, an
\* untouched order or a question to the operator.
THEOREM AppliedOnce == Spec => []AppliedOnceEach
<1>1. Inv => AppliedOnceEach
  <2> SUFFICES ASSUME Inv, NEW c \in Chats PROVE Cardinality(Pending(c)) <= 1
    BY DEF Inv, AppliedOnceEach, FactsOnce, OrdersOnce
  <2>1. CASE Pending(c) = {}
    BY <2>1, FS_EmptySet
  <2>2. CASE Pending(c) # {}
    <3>1. PICK i \in Pending(c) : Pending(c) = {i}
      BY <2>2 DEF Inv, OnePending
    <3> QED BY <3>1, FS_Singleton
  <2> QED BY <2>1, <2>2
<1> QED BY <1>1, Invariant, PTL

\* The queue grows at its end or a pending row is answered, and nothing else: no
\* answer is taken back, no row changes its customer (apply_identity_update,
\* extract_identity_to_quarantine).
THEOREM AnswersFinal == Spec => AnswersAreFinal
<1> DEFINE Final == \A c \in Chats : \A i \in DOMAIN queue[c] :
                      /\ i \in DOMAIN queue'[c]
                      /\ queue'[c][i].customer = queue[c][i].customer
                      /\ queue[c][i].status # "pending" => queue'[c][i] = queue[c][i]
<1>1. Inv /\ [Next]_vars => [Final]_vars
  <2> SUFFICES ASSUME Inv, Next PROVE Final
    BY DEF vars
  <2>0. TypeOK /\ OneCustomerPerChat
    BY DEF Inv
  <2>1. ASSUME NEW c \in Chats, queue' = [queue EXCEPT ![c] = Quarantined(c)] PROVE Final
    <3>1. \/ Quarantined(c) = queue[c]
          \/ Quarantined(c) = Append(queue[c], [customer |-> CustomerOf(c), status |-> "pending"])
      BY <2>0, QuarantinedAdds
    <3>2. queue[c] \in Seq(Rows)
      BY <2>0 DEF TypeOK
    <3>3. \A i \in DOMAIN queue[c] : i \in DOMAIN Quarantined(c) /\ Quarantined(c)[i] = queue[c][i]
      BY <3>1, <3>2
    <3> QED BY <2>0, <2>1, <3>3 DEF TypeOK
  <2>2. ASSUME NEW c \in Chats, NEW i \in 1..MaxRows[c], Reject(c, i) \/ Overwrite(c, i) PROVE Final
    <3>1. PICK st \in {"applied", "rejected"} : queue' = [queue EXCEPT ![c][i].status = st]
      BY <2>2 DEF Reject, Overwrite
    <3>2. queue[c] \in Seq(Rows) /\ i \in DOMAIN queue[c] /\ queue[c][i].status = "pending"
      BY <2>0, <2>2 DEF TypeOK, Reject, Overwrite, Answerable, Pending
    <3>3. \A j \in DOMAIN queue[c] :
            /\ queue[c][j] \in Rows
            /\ [queue[c][j] EXCEPT !.status = st].customer = queue[c][j].customer
      <4> TAKE j \in DOMAIN queue[c]
      <4>1. queue[c][j] \in Rows
        BY <3>2
      <4> QED BY <4>1 DEF Rows
    <3>4. queue' = [queue EXCEPT ![c] = [queue[c] EXCEPT ![i] = [queue[c][i] EXCEPT !.status = st]]]
      BY <3>1
    <3> QED BY <2>0, <3>2, <3>3, <3>4 DEF TypeOK
  <2>3. ASSUME queue' = queue PROVE Final
    BY <2>3
  <2>4. ASSUME NEW c \in Chats, NEW v, NEW kind, NEW force, Applied(c, v, kind, force)
        PROVE  queue' = queue \/ queue' = [queue EXCEPT ![c] = Quarantined(c)]
    BY <2>4 DEF Applied, appliedVars
  <2>5. \/ queue' = queue
        \/ \E c \in Chats : queue' = [queue EXCEPT ![c] = Quarantined(c)]
        \/ \E c \in Chats : \E i \in 1..MaxRows[c] : Reject(c, i) \/ Overwrite(c, i)
    BY <2>4 DEF Next, Import, Ignore, ApplyPending, CreateCustomer, UpdateCustomer, Link, LinkNew,
                Analyse, AnalyseOnly, WorkOn, Classify, appliedVars
  <2> QED BY <2>1, <2>2, <2>3, <2>5
<1>2. AnswersAreFinal <=> [][Final]_vars
  BY DEF AnswersAreFinal
<1> QED BY <1>1, <1>2, Invariant, PTL DEF Spec

\* Reviewing a chat takes no telegram_id from a customer and gives none to a second
\* one, although accounts of one person share it (link_chat_to_customer).
THEOREM HandlesKept == Spec => HandlesAreKept
<1> DEFINE Keeps == review' # review =>
                      \A k \in Customers : tg[k] \in Handles =>
                        /\ tg'[k] = tg[k]
                        /\ \A j \in Customers \ {k} : tg'[j] # tg[k]
<1>1. Inv /\ [Next]_vars => [Keeps]_vars
  <2> SUFFICES ASSUME Inv, Next, review' # review PROVE Keeps
    BY DEF vars
  <2>0. TypeOK /\ HandlesUnique /\ None \notin Handles /\ Absent \notin Handles
    BY ChatAssumption DEF Inv
  <2>1. \/ \E c \in Chats : Ignore(c)
        \/ \E c \in Chats, k \in Customers : Link(c, k) \/ LinkNew(c, k)
    BY DEF Next, Import, ApplyPending, CreateCustomer, UpdateCustomer, Analyse, AnalyseOnly,
           WorkOn, Classify, Reject, Overwrite, chatVars
  <2>2. \/ tg' = tg
        \/ \E c \in Chats, k \in Customers :
             /\ tg[k] \in {None, Absent} /\ FreeHandle(k, Handle[c])
             /\ tg' = [tg EXCEPT ![k] = Handle[c]]
    BY <2>1 DEF Ignore, Link, LinkNew, FillHandle, customerVars
  <2>3. CASE tg' = tg
    BY <2>0, <2>3 DEF HandlesUnique
  <2>4. ASSUME NEW c \in Chats, NEW k \in Customers, tg[k] \in {None, Absent},
               FreeHandle(k, Handle[c]), tg' = [tg EXCEPT ![k] = Handle[c]]
        PROVE  Keeps
    BY <2>0, <2>4 DEF HandlesUnique, FreeHandle, TypeOK
  <2> QED BY <2>2, <2>3, <2>4
<1>2. HandlesAreKept <=> [][Keeps]_vars
  BY DEF HandlesAreKept
<1> QED BY <1>1, <1>2, Invariant, PTL DEF Spec
=============================================================================
