-------------------------------- MODULE ChatBook --------------------------------
(***************************************************************************)
(* Telegram chats, the customers they belong to, and what is learnt about  *)
(* these from analyses.  Every tool call and every chat of a worker's run  *)
(* is one step here.                                                       *)
(*                                                                         *)
(* A chat is reviewed once: linked to a customer, made into a new one, or  *)
(* ignored.  The link is a row per message, so links[c] is the set of the  *)
(* customers those rows name.  Applying an analysis queues the contact it  *)
(* found, appends what it learnt to the customer's profile, creates an order *)
(* and enters it in a journal; the operator answers the queue and works on *)
(* the orders.                                                             *)
(*                                                                         *)
(* Per chat there is one contact (an e-mail, the kind of contact with a    *)
(* unique key), one fact for the profile and one order; counts stop at 2,  *)
(* which stands for more.                                                  *)
(***************************************************************************)
EXTENDS Naturals, Sequences, FiniteSets

CONSTANTS Chats, Customers,
          Versions,     \* versions of the analyzer
          Preflight,    \* the version preflight verdicts are stored under
          Handles, Emails,
          Handle,       \* telegram_chat_id of a chat; accounts may share one
          Email,        \* the e-mail the analysis of a chat finds
          Sourced,      \* chats whose fact names the messages it comes from
          None, Absent,
          MaxRows       \* bound: rows of the queue, for each chat

Reviews == {"unreviewed", "linked", "new_customer", "ignored"}
LinkedStatuses == {"linked", "new_customer"}
Analyses == Versions \cup {Preflight}
Kinds == {"none", "skipped", "plain", "full"}
QueueStatuses == {"pending", "applied", "rejected"}

ASSUME ChatAssumption ==
  /\ None \notin Handles \cup Emails \cup Customers \cup Analyses \cup [Chats -> 0..2]
  /\ Absent \notin Handles \cup {None}
  /\ Preflight \notin Versions
  /\ Handle \in [Chats -> Handles] /\ Email \in [Chats -> Emails]
  /\ Sourced \subseteq Chats
  /\ MaxRows \in [Chats -> Nat]

VARIABLES review, messages, links, tg, email, analysis, newest, queue, profile, drafts, journal

chatVars == <<review, messages, links>>
customerVars == <<tg, email>>
analysisVars == <<analysis, newest>>
appliedVars == <<queue, profile, drafts, journal>>
vars == <<chatVars, customerVars, analysisVars, appliedVars>>

Rows == [customer : Customers \cup {None}, status : QueueStatuses]
Profile == [Chats -> 0..2]

TypeOK ==
  /\ review \in [Chats -> Reviews]
  /\ messages \in [Chats -> BOOLEAN]
  /\ links \in [Chats -> SUBSET Customers]
  /\ tg \in [Customers -> Handles \cup {None, Absent}]
  /\ email \in [Customers -> Emails \cup {None}]
  /\ analysis \in [Chats -> [Analyses -> Kinds]]
  /\ newest \in [Chats -> Analyses \cup {None}]
  /\ queue \in [Chats -> Seq(Rows)]
  /\ profile \in [Customers -> Profile \cup {None}]
  /\ drafts \in [Chats -> [Analyses -> 0..2]]
  /\ journal \in [Chats -> SUBSET Analyses]

\* A chat as the importer leaves it, without or with messages.
Init ==
  /\ review = [c \in Chats |-> "unreviewed"]
  /\ messages \in [Chats -> BOOLEAN]
  /\ links = [c \in Chats |-> {}]
  /\ tg = [k \in Customers |-> Absent]
  /\ email = [k \in Customers |-> None]
  /\ analysis = [c \in Chats |-> [v \in Analyses |-> "none"]]
  /\ newest = [c \in Chats |-> None]
  /\ queue = [c \in Chats |-> <<>>]
  /\ profile = [k \in Customers |-> None]
  /\ drafts = [c \in Chats |-> [v \in Analyses |-> 0]]
  /\ journal = [c \in Chats |-> {}]

\* The importer adds the first message of a chat it had stored without one.
Import(c) ==
  /\ ~messages[c]
  /\ messages' = [messages EXCEPT ![c] = TRUE]
  /\ UNCHANGED <<review, links, customerVars, analysisVars, appliedVars>>

(* ------------------------------- customers ----------------------------- *)

\* The unique keys of orders_customer, NULLs excepted.
FreeHandle(k, h) == \A j \in Customers \ {k} : tg[j] # h
FreeEmail(k, e) == \A j \in Customers \ {k} : email[j] # e

\* create_customer; one whose only contact is a phone has neither h nor e.
CreateCustomer(k, h, e) ==
  /\ tg[k] = Absent
  /\ h # None => FreeHandle(k, h)
  /\ e # None => FreeEmail(k, e)
  /\ tg' = [tg EXCEPT ![k] = h]
  /\ email' = [email EXCEPT ![k] = e]
  /\ UNCHANGED <<chatVars, analysisVars, appliedVars>>

\* update_customer: an empty field leaves its column alone.
UpdateCustomer(k, h, e) ==
  /\ tg[k] # Absent
  /\ h # None \/ e # None
  /\ h # None => FreeHandle(k, h)
  /\ e # None => FreeEmail(k, e)
  /\ tg' = IF h = None THEN tg ELSE [tg EXCEPT ![k] = h]
  /\ email' = IF e = None THEN email ELSE [email EXCEPT ![k] = e]
  /\ UNCHANGED <<chatVars, analysisVars, appliedVars>>

(* -------------------------- link_chat_to_customer ---------------------- *)

\* Mutant: the status is not tested.
ReviewableAlways(c) == TRUE

Reviewable(c) == review[c] = "unreviewed"

\* A link row for every message there is.
LinkMessages(c, k) ==
  links' = IF messages[c] THEN [links EXCEPT ![c] = @ \cup {k}] ELSE links

\* Mutant: the customer's telegram_id follows the chat.
FillHandleAlways(c, k) ==
  tg' = IF FreeHandle(k, Handle[c]) THEN [tg EXCEPT ![k] = Handle[c]] ELSE tg

\* telegram_id is filled from the chat when it is empty and the handle is free.
FillHandle(c, k) ==
  tg' = IF tg[k] = None /\ FreeHandle(k, Handle[c])
        THEN [tg EXCEPT ![k] = Handle[c]] ELSE tg

Link(c, k) ==
  /\ Reviewable(c)
  /\ tg[k] # Absent
  /\ review' = [review EXCEPT ![c] = "linked"]
  /\ LinkMessages(c, k)
  /\ FillHandle(c, k)
  /\ UNCHANGED <<messages, email, analysisVars, appliedVars>>

\* Mutant: the status is called as the mode is.
StatusByMode == "create_new"

StatusOfNew == "new_customer"

\* Mode create_new; the unique key rolls it all back if the handle is taken.
LinkNew(c, k) ==
  /\ Reviewable(c)
  /\ tg[k] = Absent /\ FreeHandle(k, Handle[c])
  /\ review' = [review EXCEPT ![c] = StatusOfNew]
  /\ tg' = [tg EXCEPT ![k] = Handle[c]]
  /\ LinkMessages(c, k)
  /\ UNCHANGED <<messages, email, analysisVars, appliedVars>>

Ignore(c) ==
  /\ Reviewable(c)
  /\ review' = [review EXCEPT ![c] = "ignored"]
  /\ UNCHANGED <<messages, links, customerVars, analysisVars, appliedVars>>

(* -------------------------- applying an analysis ----------------------- *)

\* get_customer_for_chat; two customers raise MultipleCustomersForChatError.
Ambiguous(c) == Cardinality(links[c]) > 1
CustomerOf(c) == IF links[c] = {} THEN None ELSE CHOOSE k \in Customers : k \in links[c]

Pending(c) == {i \in DOMAIN queue[c] : queue[c][i].status = "pending"}

\* Mutant: the row goes to whoever the contact already belongs to.
QuarantinedByContact(c) ==
  LET owners == {k \in Customers : email[k] = Email[c]}
      owner == IF owners = {} THEN CustomerOf(c) ELSE CHOOSE k \in owners : TRUE
  IN  IF Pending(c) # {} THEN queue[c]
      ELSE Append(queue[c], [customer |-> owner, status |-> "pending"])

\* extract_identity_to_quarantine: INSERT ... ON CONFLICT DO NOTHING, where only
\* pending rows conflict.  Confidence is always "medium", so nothing is applied
\* without the operator (auto_apply_safe_identity_updates keeps every row).
Quarantined(c) ==
  IF Pending(c) # {} THEN queue[c]
  ELSE Append(queue[c], [customer |-> CustomerOf(c), status |-> "pending"])

Blank == [c \in Chats |-> 0]
Known(k) == IF profile[k] = None THEN Blank ELSE profile[k]
OneMore(n) == IF n = 2 THEN 2 ELSE n + 1

\* A fact is known by the messages it comes from; one that names none is appended
\* again every time.  Incidents are treated like preferences; delivery
\* preferences are replaced and carry no history.
Remembered(k, c) ==
  IF c \in Sourced /\ Known(k)[c] > 0 THEN Known(k)
  ELSE [Known(k) EXCEPT ![c] = OneMore(@)]

\* The journal already lists this version's order of the chat and the caller does
\* not force: AnalysisAlreadyAppliedError.
AlreadyApplied(c, v, force) == CustomerOf(c) # None /\ v \in journal[c] /\ ~force

\* Mutant: the rollback is forgotten.
KeptAll(c, v) == drafts[c][v]

\* delete_created_entities: what the journal says this version made is taken back
\* as long as nobody has worked on it, whatever kind of analysis comes next.
Kept(c, v) == IF v \in journal[c] THEN 0 ELSE drafts[c][v]

\* apply_analysis_to_customer on a row of version v and of the given kind.
Applied(c, v, kind, force) ==
  LET k == CustomerOf(c)
      full == kind = "full"
  IN  IF Ambiguous(c) \/ AlreadyApplied(c, v, force) THEN UNCHANGED appliedVars
      ELSE /\ full /\ Pending(c) = {} => Len(queue[c]) < MaxRows[c]
           /\ queue' = IF full THEN [queue EXCEPT ![c] = Quarantined(c)] ELSE queue
           /\ profile' = IF k = None \/ kind = "skipped" THEN profile
                         ELSE [profile EXCEPT ![k] = IF full THEN Remembered(k, c)
                                                     ELSE Known(k)]
           /\ drafts' = IF k = None THEN drafts
                        ELSE [drafts EXCEPT ![c][v] = IF full THEN OneMore(Kept(c, v))
                                                      ELSE Kept(c, v)]
           /\ journal' = IF k = None THEN journal
                         ELSE [journal EXCEPT ![c] = IF full THEN @ \cup {v} ELSE @ \ {v}]

Recorded(c, v, kind) ==
  /\ analysis' = [analysis EXCEPT ![c][v] = kind]
  /\ newest' = [newest EXCEPT ![c] = v]

\* The worker's pass over a chat, after its LLM calls: record, then apply.  A chat
\* that has an analysis of the version is skipped unless forced.
Analyse(c, v, force) ==
  /\ messages[c]
  /\ force \/ analysis[c][v] = "none"
  /\ Recorded(c, v, "full")
  /\ Applied(c, v, "full", force)
  /\ UNCHANGED <<chatVars, customerVars>>

\* The same with --no-apply.
AnalyseOnly(c, v, force) ==
  /\ messages[c]
  /\ force \/ analysis[c][v] = "none"
  /\ Recorded(c, v, "full")
  /\ UNCHANGED <<chatVars, customerVars, appliedVars>>

\* A preflight verdict: skipped for an empty chat and for a certain "not_client".
Classify(c, kind) ==
  /\ kind = "skipped" \/ messages[c]
  /\ Recorded(c, Preflight, kind)
  /\ UNCHANGED <<chatVars, customerVars, appliedVars>>

\* apply_pending_analysis: the newest row of any version, by force.
ApplyPending(c) ==
  /\ review[c] \in LinkedStatuses
  /\ newest[c] # None
  /\ Applied(c, newest[c], analysis[c][newest[c]], TRUE)
  /\ UNCHANGED <<chatVars, customerVars, analysisVars>>

\* The operator moves an order past in_procurement, or deletes it; the journal
\* keeps its entry.
WorkOn(c, v) ==
  /\ drafts[c][v] > 0
  /\ drafts' = [drafts EXCEPT ![c][v] = @ - 1]
  /\ UNCHANGED <<chatVars, customerVars, analysisVars, queue, profile, journal>>

(* -------------------------- apply_identity_update ---------------------- *)

\* Mutant: an answered row may be answered again.
AnswerableAlways(c, i) == i \in DOMAIN queue[c]

Answerable(c, i) == i \in Pending(c)

Reject(c, i) ==
  /\ Answerable(c, i)
  /\ queue' = [queue EXCEPT ![c][i].status = "rejected"]
  /\ UNCHANGED <<chatVars, customerVars, analysisVars, profile, drafts, journal>>

\* A collision on the e-mail's unique key leaves the row pending.
Overwrite(c, i) ==
  LET k == queue[c][i].customer
  IN  /\ Answerable(c, i)
      /\ k # None
      /\ FreeEmail(k, Email[c])
      /\ email' = [email EXCEPT ![k] = Email[c]]
      /\ queue' = [queue EXCEPT ![c][i].status = "applied"]
      /\ UNCHANGED <<chatVars, tg, analysisVars, profile, drafts, journal>>

Next ==
  \/ \E c \in Chats : Import(c) \/ Ignore(c) \/ ApplyPending(c)
  \/ \E k \in Customers, h \in Handles \cup {None}, e \in Emails \cup {None} :
       CreateCustomer(k, h, e) \/ UpdateCustomer(k, h, e)
  \/ \E c \in Chats, k \in Customers : Link(c, k) \/ LinkNew(c, k)
  \/ \E c \in Chats, v \in Versions, force \in BOOLEAN :
       Analyse(c, v, force) \/ AnalyseOnly(c, v, force)
  \/ \E c \in Chats, v \in Versions : WorkOn(c, v)
  \/ \E c \in Chats : \E kind \in {"skipped", "plain"} : Classify(c, kind)
  \/ \E c \in Chats : \E i \in 1..MaxRows[c] : Reject(c, i) \/ Overwrite(c, i)

Spec == Init /\ [][Next]_vars

(* ------------------------------ properties ----------------------------- *)

\* A chat has at most one customer, and only if its review says so: no sequence of
\* calls makes get_customer_for_chat ambiguous or leaves an ignored chat's
\* analyses somebody to apply to.
OneCustomerPerChat ==
  \A c \in Chats : links[c] # {} =>
    /\ \E k \in Customers : links[c] = {k} /\ tg[k] # Absent
    /\ review[c] \in LinkedStatuses

\* What analyses leave behind belongs to the chat's customer: rows of the queue that
\* name anybody, facts of a profile and orders.
AnalysesServeTheCustomer ==
  \A c \in Chats :
    /\ \A i \in DOMAIN queue[c] : queue[c][i].customer # None
                                    => links[c] = {queue[c][i].customer}
    /\ \A k \in Customers : Known(k)[c] > 0 => links[c] = {k}
    /\ \A v \in Analyses : drafts[c][v] > 0 => links[c] # {} /\ v \in journal[c]

\* However often analyses are repeated, forced, re-applied or replaced by preflight
\* rows: a fact that names its messages is in a profile once, of the orders a
\* version made of a chat at most one is still untouched, and at most one row of the queue awaits the operator.
AppliedOnceEach ==
  \A c \in Chats :
    /\ c \in Sourced => \A k \in Customers : Known(k)[c] <= 1
    /\ \A v \in Analyses : drafts[c][v] <= 1
    /\ Cardinality(Pending(c)) <= 1

\* What the comment at app/analysis/service.py:345 and the message of
\* apply_identity_update promise: once the chat is linked, whoever answers a row of
\* the queue knows the customer.
PendingAnswerable ==
  \A c \in Chats : links[c] # {} =>
    \A i \in Pending(c) : queue[c][i].customer # None

\* An answer is final: re-analysis may queue the contact again, but a row that was
\* applied or rejected stays as it is, and so does whom a row is about.
AnswersAreFinal ==
  [][\A c \in Chats : \A i \in DOMAIN queue[c] :
       /\ i \in DOMAIN queue'[c]
       /\ queue'[c][i].customer = queue[c][i].customer
       /\ queue[c][i].status # "pending" => queue'[c][i] = queue[c][i]]_vars

\* Linking a chat never replaces a telegram_id somebody has, nor takes one.
HandlesAreKept ==
  [][review' # review =>
       \A k \in Customers : tg[k] \in Handles =>
         /\ tg'[k] = tg[k]
         /\ \A j \in Customers \ {k} : tg'[j] # tg[k]]_vars
=============================================================================
