------------------------------ MODULE ChatVerdicts ------------------------------
(***************************************************************************)
(* What kind of chat a chat is: the rows of its analyses, of which some    *)
(* carry a verdict.  The classifier writes them, the import from the old   *)
(* shop database and the analysis run; messages keep arriving.             *)
(***************************************************************************)
EXTENDS Integers, FiniteSets, SequencesExt

CONSTANTS Chats,
          Messages,     \* ids in the order they were given
          ChatOf,       \* the chat of each message
          Old,          \* messages that are there from the start
          Verdicts,     \* the classifications in use
          None

Versions == {"legacy", "preflight", "full"}

ASSUME VerdictAssumption ==
  /\ Chats \subseteq Nat /\ IsFiniteSet(Chats)
  /\ Messages \subseteq Nat /\ IsFiniteSet(Messages)
  /\ ChatOf \in [Messages -> Chats]
  /\ Old \subseteq Messages
  /\ "not_client" \in Verdicts
  /\ None \notin Verdicts /\ None \notin Chats

VARIABLES here,    \* messages imported so far
          rows,    \* per chat, its rows of analyses in the order of analyzed_at
          legacy   \* whether the import of old verdicts has its transaction open

tables == <<here, rows, legacy>>

\* A row another session does not see until it is committed.
Row == [version : Versions, verdict : Verdicts \cup {None}, committed : BOOLEAN]

\* At most a row of each version for a chat.
History == UNION {[1..n -> Row] : n \in 0..Cardinality(Versions)}
OneOfEach(s) == \A i, j \in DOMAIN s : s[i].version = s[j].version => i = j

\* Only the import of old verdicts keeps a row of a chat open.
OpenRows(s, open) == \A i \in DOMAIN s : ~s[i].committed => open /\ s[i].version = "legacy"

TablesOK ==
  /\ here \subseteq Messages
  /\ rows \in [Chats -> History]
  /\ \A c \in Chats : OneOfEach(rows[c]) /\ OpenRows(rows[c], legacy)
  /\ legacy \in BOOLEAN

TablesInit ==
  /\ here = Old
  /\ rows = [c \in Chats |-> <<>>]
  /\ legacy = FALSE

In(c) == {m \in here : ChatOf[m] = c}
Before(S, m) == {x \in S : x < m}
After(S, m) == {x \in S : x > m}
Least(S) == CHOOSE x \in S : \A y \in S : x <= y

Committed(s) == SelectSeq(s, LAMBDA r : r.committed)

\* The key is the chat and the version, so there is one row of a version at most.
Without(s, v) == RemoveFirstMatch(s, LAMBDA r : r.version = v)

\* Mutant: the key of the upsert leaves the version out of account.
UpsertedAnew(c, v, verdict) ==
  [rows EXCEPT ![c] = Append(@, [version |-> v, verdict |-> verdict, committed |-> TRUE])]

\* upsert_analysis with analyzed_at = now.
Upserted(c, v, verdict) ==
  [rows EXCEPT ![c] = Append(Without(@, v),
                        [version |-> v, verdict |-> verdict, committed |-> TRUE])]

\* A chat with a verdict of the classifier or of the old database.
HasVerdict(c) == \E i \in DOMAIN rows[c] : rows[c][i].committed /\ rows[c][i].verdict # None

\* get_latest_preflight_for_chat: the newest row of any version; "unknown" is no row
\* and a row without a verdict.
Latest(c) ==
  LET s == Committed(rows[c])
  IN  IF s = <<>> \/ s[Len(s)].verdict = None THEN "unknown" ELSE s[Len(s)].verdict

\* record_full_analysis: the analysis run hands over no verdict.
Analysed(c) ==
  /\ In(c) # {}
  /\ rows' = Upserted(c, "full", None)
  /\ UNCHANGED <<here, legacy>>

\* A verdict of the classifier: a chat without messages is judged by that alone.
Judged(c, v) ==
  /\ In(c) = {} => v = "not_client"
  /\ rows' = Upserted(c, "preflight", v)
  /\ UNCHANGED <<here, legacy>>

\* A message an import has committed; two imports commit in any order.
Arrive(m) ==
  /\ m \notin here
  /\ here' = here \cup {m}
  /\ UNCHANGED <<rows, legacy>>

(* ----------------------- the old shop's verdicts ----------------------- *)

\* import_preflight: analyzed_at is the time the import began, whenever its rows are
\* committed.  A chat that has an old verdict keeps it; names that are not found
\* or ambiguous are left out.
LegacyBegin(f) ==
  /\ ~legacy
  /\ legacy' = TRUE
  /\ rows' = [c \in Chats |->
                IF c \notin DOMAIN f \/ \E i \in DOMAIN rows[c] : rows[c][i].version = "legacy"
                THEN rows[c]
                ELSE Append(rows[c], [version |-> "legacy", verdict |-> f[c], committed |-> FALSE])]
  /\ UNCHANGED here

LegacyCommit ==
  /\ legacy
  /\ legacy' = FALSE
  /\ rows' = [c \in Chats |-> [i \in DOMAIN rows[c] |-> [rows[c][i] EXCEPT !.committed = TRUE]]]
  /\ UNCHANGED here

\* An unknown category, another import's key, --dry-run, a crash.
LegacyRollback ==
  /\ legacy
  /\ legacy' = FALSE
  /\ rows' = [c \in Chats |-> RemoveFirstMatch(rows[c], LAMBDA r : ~r.committed)]
  /\ UNCHANGED here

Partial(S, T) == UNION {[D -> T] : D \in SUBSET S}

Around ==
  \/ \E m \in Messages : Arrive(m)
  \/ \E c \in Chats : Analysed(c)
  \/ \E f \in Partial(Chats, Verdicts) : LegacyBegin(f)
  \/ LegacyCommit \/ LegacyRollback

TablesNext ==
  \/ Around
  \/ \E c \in Chats, v \in Verdicts : Judged(c, v)
=============================================================================
