-------------------------------- MODULE TgImport --------------------------------
(***************************************************************************)
(* Telegram exports, the importer that copies them into the database and   *)
(* the backfill of media metadata.                                         *)
(*                                                                         *)
(* An export holds everything an account has up to a message; one of any   *)
(* age may lie in the folder of an account, perhaps of the wrong one, and  *)
(* may be replaced at any time.  An import opens it twice, to compare the  *)
(* phone in it with the folder's and to parse it, and runs one transaction *)
(* per chat: look the chat up or create it, insert what is above its       *)
(* watermark in batches, move the watermark and commit.  Imports of one    *)
(* account, the backfill, failed transactions and killed processes         *)
(* interleave in any way.                                                  *)
(***************************************************************************)
EXTENDS Integers, FiniteSets

CONSTANTS Accounts, Chats,
          Ids,            \* telegram ids of messages, counted per account
          ChatOf,         \* the chat of each of an account's messages
          Kind,           \* what the parser makes of it
          Legacy,         \* messages imported before media were recorded
          Placed,         \* bound: exports made, and in which folder
          Procs,          \* import processes
          Batch,          \* MESSAGE_INSERT_BATCH_SIZE
          None, Absent

Kinds == {"text", "media", "skipped"}

\* An export: whose it is, the last message in it, and what it says of its account,
\* which is all, nothing or a part (_read_personal_information).
Files == [of : Accounts, upto : Ids, shows : SUBSET {"phone", "user"}]

ASSUME TgAssumption ==
  /\ Ids \subseteq Nat /\ IsFiniteSet(Ids)
  /\ ChatOf \in [Accounts -> UNION {[S -> Chats] : S \in SUBSET Ids}]
  /\ Kind \in [Accounts -> [Ids -> Kinds]]
  \* The first import left no gaps: what a chat of it lacks follows its last message.
  /\ \A a \in Accounts : /\ Legacy[a] \subseteq DOMAIN ChatOf[a]
                         /\ \A i \in Legacy[a], j \in DOMAIN ChatOf[a] :
                              j <= i /\ ChatOf[a][j] = ChatOf[a][i] /\ Kind[a][j] # "skipped"
                                => j \in Legacy[a]
  /\ Batch \in Nat \ {0}
  /\ None \notin Ids \cup Accounts \cup Chats \cup Files
  /\ Absent \notin Ids \cup {None}
  /\ Absent \notin [user : Accounts \cup {None}, imported : BOOLEAN]
  /\ Placed \subseteq Files \X Accounts

VARIABLES files, account, chats, stored, media, imp, bf

tables == <<account, chats, stored, media>>
vars == <<files, tables, imp, bf>>

\* A message is known by the account it was sent from or to and its id.
Messages == {m \in Accounts \X Ids : m[2] \in DOMAIN ChatOf[m[1]]}
ChatIn(m) == ChatOf[m[1]][m[2]]

\* parse_export: service messages, stickers and voice messages without a text are
\* left out, everything else is a message.
Parsed(f) == {m \in Messages : /\ m[1] = f.of /\ m[2] <= f.upto
                               /\ Kind[m[1]][m[2]] # "skipped"}
In(f, t) == {m \in Parsed(f) : ChatIn(m) = t}
ChatsOf(a) == {ChatOf[a][i] : i \in DOMAIN ChatOf[a]}
WithMedia(S) == {m \in S : Kind[m[1]][m[2]] = "media"}
IdsOf(S) == {m[2] : m \in S}

\* The greatest of a set of ids.
Last(S) == CHOOSE i \in S : \A j \in S : j <= i

Idle == [pc |-> "idle", acc |-> None, read |-> None, file |-> None, todo |-> {},
         chat |-> None, mark |-> None, left |-> {}, rows |-> {}, ok |-> FALSE,
         failed |-> FALSE]
BfIdle == [pc |-> "idle", acc |-> None, file |-> None, known |-> {}, todo |-> {},
           chat |-> None, found |-> {}]

Pcs == {"idle", "parse", "next", "create", "insert", "commit"}

TypeOK ==
  /\ files \in [Accounts -> Files \cup {None}]
  /\ account \in [Accounts -> [user : Accounts \cup {None}, imported : BOOLEAN]
                               \cup {Absent}]
  /\ chats \in [Accounts -> [Chats -> Ids \cup {None, Absent}]]
  /\ stored \in [Accounts -> SUBSET Messages]
  /\ media \in [Accounts -> SUBSET Messages]
  /\ imp \in [Procs -> [pc : Pcs, acc : Accounts \cup {None}, read : Files \cup {None},
                        file : Files \cup {None}, todo : SUBSET Chats,
                        chat : Chats \cup {None}, mark : Ids \cup {None},
                        left : SUBSET Messages, rows : SUBSET Messages,
                        ok : BOOLEAN, failed : BOOLEAN]]
  /\ bf \in [pc : {"idle", "next", "insert"}, acc : Accounts \cup {None},
             file : Files \cup {None}, known : SUBSET Chats, todo : SUBSET Chats,
             chat : Chats \cup {None}, found : SUBSET Messages]

\* The database as the migration leaves it: one account with the chats and messages
\* of the first import, if there were any, and no row about media.
LegacyIds(a, t) == {i \in Legacy[a] : ChatOf[a][i] = t}
Init ==
  /\ files = [a \in Accounts |-> None]
  /\ account = [a \in Accounts |-> IF Legacy[a] = {} THEN Absent
                                   ELSE [user |-> None, imported |-> TRUE]]
  /\ chats = [a \in Accounts |-> [t \in Chats |->
                IF LegacyIds(a, t) = {} THEN Absent ELSE Last(LegacyIds(a, t))]]
  /\ stored = [a \in Accounts |-> {a} \X Legacy[a]]
  /\ media = [a \in Accounts |-> {}]
  /\ imp = [p \in Procs |-> Idle]
  /\ bf = BfIdle

(* --------------------------- exports, accounts ------------------------- *)

\* An export is put into the folder of a, in place of what lay there.  (One put beside
\* it is found by the next run only: for a run under way as if it came after its parse.)
Export(f, a) ==
  /\ files[a] # f
  /\ files' = [files EXCEPT ![a] = f]
  /\ UNCHANGED <<tables, imp, bf>>

Register(a) ==
  /\ account[a] = Absent
  /\ account' = [account EXCEPT ![a] = [user |-> None, imported |-> FALSE]]
  /\ UNCHANGED <<files, chats, stored, media, imp, bf>>

(* -------------------------------- import ------------------------------- *)

\* detect_account_phone, find_result_json: the folder called after the phone, or one
\* in it, and the newest export there.
FileOf(a) == files[a]

\* Mutant: the phone in the export is not compared with the folder's.
AnyPhone(f, a) == TRUE

\* An export without a phone is taken as it is.
SamePhone(f, a) == "phone" \in f.shows => f.of = a

\* _run_cli: a folder without an export or with another account's ends the run.
StartImport(p, a) ==
  /\ imp[p].pc = "idle"
  /\ FileOf(a) # None /\ SamePhone(FileOf(a), a)
  /\ imp' = [imp EXCEPT ![p] = [Idle EXCEPT !.pc = "parse", !.acc = a, !.read = FileOf(a)]]
  /\ UNCHANGED <<files, tables, bf>>

\* The account is looked up and the file opened again, whatever it is by now.
ParseExport(p) ==
  LET f == FileOf(imp[p].acc)
  IN  /\ imp[p].pc = "parse" /\ account[imp[p].acc] # Absent
      /\ imp' = [imp EXCEPT ![p].pc = "next", ![p].file = f, ![p].todo = ChatsOf(f.of)]
      /\ UNCHANGED <<files, tables, bf>>

\* Mutant: ids are compared as the strings they are stored as, where "10" < "9".
AboveAsText(i, mark) ==
  mark = None \/ (IF i < 10 THEN i * 10 ELSE i) > (IF mark < 10 THEN mark * 10 ELSE mark)

Above(i, mark) == mark = None \/ i > mark

NewIn(f, t, mark) == {m \in In(f, t) : Above(m[2], mark)}

\* What follows once the chat's row is there: new messages, or the commit at once.
Opened(p, t, mark) ==
  LET new == NewIn(imp[p].file, t, mark)
  IN  [imp EXCEPT ![p].chat = t, ![p].mark = mark, ![p].left = new,
                  ![p].todo = @ \ {t},
                  ![p].pc = IF new = {} THEN "commit" ELSE "insert"]

OpenChat(p, t) ==
  LET a == imp[p].acc
  IN  /\ imp[p].pc = "next" /\ t \in imp[p].todo
      /\ imp' = IF chats[a][t] = Absent
                THEN [imp EXCEPT ![p].chat = t, ![p].todo = @ \ {t}, ![p].pc = "create"]
                ELSE Opened(p, t, chats[a][t])
      /\ UNCHANGED <<files, tables, bf>>

\* p and q work on one chat and q has written something that p must wait for.
InOneChat(p, q) == p # q /\ imp[q].acc = imp[p].acc /\ imp[q].chat = imp[p].chat

\* The transaction of q has created the chat's row, which nobody sees yet.
HasCreated(q) == /\ imp[q].pc \in {"insert", "commit"}
                 /\ chats[imp[q].acc][imp[q].chat] = Absent

\* A message already there or inserted by p under the unique key of m.
Present(S, m) == \E x \in S : x[2] = m[2] /\ ChatIn(x) = ChatIn(m)

\* Mutant: the end and the beginning of what is left take turns.
NextBatchZigzag(S) ==
  IF Cardinality(S) % 2 = 0 THEN {m \in S : \A x \in S : x[2] <= m[2]}
  ELSE {m \in S : \A x \in S : m[2] <= x[2]}

NextBatch(S) == {m \in S : Cardinality({x \in S : x[2] < m[2]}) < Batch}

\* A key p is about to insert was inserted by q, which may still roll it back.
Waits(p, q) ==
  /\ InOneChat(p, q)
  /\ \/ imp[p].pc = "create" /\ HasCreated(q)
     \/ /\ imp[p].pc = "insert"
        /\ \E m \in NextBatch(imp[p].left) : Present(imp[q].rows, m)

CreateChat(p) ==
  /\ imp[p].pc = "create"
  /\ \A q \in Procs : ~Waits(p, q)
  /\ chats[imp[p].acc][imp[p].chat] = Absent
  /\ imp' = Opened(p, imp[p].chat, None)
  /\ UNCHANGED <<files, tables, bf>>

\* INSERT ... ON CONFLICT DO NOTHING waits for a row another transaction has
\* inserted under the same key.
InsertBatch(p) ==
  LET b == NextBatch(imp[p].left)
      a == imp[p].acc
  IN  /\ imp[p].pc = "insert"
      /\ \A q \in Procs : ~Waits(p, q)
      /\ imp' = [imp EXCEPT ![p].left = @ \ b,
                            ![p].rows = @ \cup {m \in b : ~Present(stored[a], m)},
                            ![p].pc = IF imp[p].left = b THEN "commit" ELSE "insert"]
      /\ UNCHANGED <<files, tables, bf>>

Forget(r) == [r EXCEPT !.pc = "next", !.chat = None, !.mark = None,
                       !.left = {}, !.rows = {}]

\* The greatest id of the new messages, inserted or found there; a chat without any
\* keeps its watermark, NULL if p has created it.
MarkOf(p) ==
  LET r == imp[p]
      new == NewIn(r.file, r.chat, r.mark)
      old == chats[r.acc][r.chat]
  IN  IF new # {} THEN Last(IdsOf(new)) ELSE IF old = Absent THEN None ELSE old

\* Mutant: only the media of the last batch are recorded.
MediaOfLast(p) == WithMedia({m \in imp[p].rows : m[2] = Last(IdsOf(imp[p].rows))})

\* A row of metadata for every inserted message with media.
MediaOf(p) == WithMedia(imp[p].rows)

\* Mutant: an import replaces what the chat had.
TableAnew(p) == {x \in stored[imp[p].acc] : ChatIn(x) # imp[p].chat} \cup imp[p].rows

Table(p) == stored[imp[p].acc] \cup imp[p].rows

\* The UPDATE of the watermark may wait for another's and is the last statement: the
\* chat's row changes in the order of the commits.
CommitChat(p) ==
  LET a == imp[p].acc
  IN  /\ imp[p].pc = "commit"
      /\ chats' = [chats EXCEPT ![a][imp[p].chat] = MarkOf(p)]
      /\ stored' = [stored EXCEPT ![a] = Table(p)]
      /\ media' = [media EXCEPT ![a] = @ \cup MediaOf(p)]
      /\ imp' = [imp EXCEPT ![p] = [Forget(imp[p]) EXCEPT !.ok = TRUE]]
      /\ UNCHANGED <<files, account, bf>>

\* The unique key of the chats: another transaction created it first.
LoseChat(p) ==
  /\ imp[p].pc = "create"
  /\ chats[imp[p].acc][imp[p].chat] # Absent
  /\ imp' = [imp EXCEPT ![p] = [Forget(imp[p]) EXCEPT !.failed = TRUE]]
  /\ UNCHANGED <<files, tables, bf>>

\* Mutant: the watermark is moved in a transaction of its own.
MarkSurvives(p) ==
  IF imp[p].pc = "commit" THEN [chats EXCEPT ![imp[p].acc][imp[p].chat] = MarkOf(p)] ELSE chats

RolledBack(p) == chats

\* Any exception rolls the chat back, is counted and lets the next chat begin.
FailChat(p) ==
  /\ imp[p].pc \in {"create", "insert", "commit"}
  /\ imp' = [imp EXCEPT ![p] = [Forget(imp[p]) EXCEPT !.failed = TRUE]]
  /\ chats' = RolledBack(p)
  /\ UNCHANGED <<files, account, stored, media, bf>>

\* Mutant: the id of a chat is taken for the account's.
ImportedByFolder(a, f) == [user |-> CHOOSE t \in ChatsOf(f.of) : TRUE, imported |-> TRUE]

\* update_account_timestamps: telegram_user_id is filled once, with what was read at
\* the start.
Imported(a, f) == [user |-> IF account[a].user = None /\ "user" \in f.shows THEN f.of
                            ELSE account[a].user,
                   imported |-> TRUE]

\* The run counts as an import unless every chat failed.
EndImport(p) ==
  /\ imp[p].pc = "next" /\ imp[p].todo = {}
  /\ account' = IF ~imp[p].ok THEN account
                ELSE [account EXCEPT ![imp[p].acc] = Imported(imp[p].acc, imp[p].read)]
  /\ imp' = [imp EXCEPT ![p] = Idle]
  /\ UNCHANGED <<files, chats, stored, media, bf>>

\* The process dies or ends early: the account is not registered, or the file does not
\* parse.
Kill(p) ==
  /\ imp[p].pc # "idle"
  /\ imp' = [imp EXCEPT ![p] = Idle]
  /\ UNCHANGED <<files, tables, bf>>

(* ------------------------------- backfill ------------------------------ *)

\* The accounts that are registered; the phone in the export is not looked at.
BfStart(a) ==
  /\ bf.pc = "idle" /\ FileOf(a) # None /\ account[a] # Absent
  /\ bf' = [BfIdle EXCEPT !.pc = "next", !.acc = a, !.file = FileOf(a),
                          !.known = {t \in Chats : chats[a][t] # Absent},
                          !.todo = ChatsOf(FileOf(a).of)]
  /\ UNCHANGED <<files, tables, imp>>

\* Chats not in the database are passed over, and messages not stored are left out.
BfChat(t) ==
  /\ bf.pc = "next" /\ t \in bf.todo
  /\ bf' = IF t \notin bf.known THEN [bf EXCEPT !.todo = @ \ {t}]
           ELSE [bf EXCEPT !.pc = "insert", !.todo = @ \ {t}, !.chat = t,
                   !.found = {m \in WithMedia(In(bf.file, t)) : Present(stored[bf.acc], m)}]
  /\ UNCHANGED <<files, tables, imp>>

\* Mutant: a chat with any row of metadata is taken for done.
HasAnyMedia(a, m) == \E x \in media[a] : ChatIn(x) = ChatIn(m)

\* A message has one row of metadata.
HasMedia(a, m) == Present(media[a], m)

BfInsert ==
  /\ bf.pc = "insert"
  /\ media' = [media EXCEPT ![bf.acc] =
                 @ \cup {m \in bf.found : ~HasMedia(bf.acc, m)}]
  /\ bf' = [bf EXCEPT !.pc = "next", !.chat = None, !.found = {}]
  /\ UNCHANGED <<files, account, chats, stored, imp>>

BfEnd ==
  /\ bf.pc = "next" /\ bf.todo = {}
  /\ bf' = BfIdle
  /\ UNCHANGED <<files, tables, imp>>

\* Ctrl-C ends the backfill before the next chat; a second one, or an exception, at once.
BfInterrupt ==
  /\ bf.pc # "idle"
  /\ bf' = BfIdle
  /\ UNCHANGED <<files, tables, imp>>

ImportStep(p) ==
  \/ ParseExport(p)
  \/ \E t \in Chats : OpenChat(p, t)
  \/ CreateChat(p) \/ LoseChat(p)
  \/ InsertBatch(p) \/ CommitChat(p) \/ EndImport(p)

BackfillStep == (\E t \in Chats : BfChat(t)) \/ BfInsert \/ BfEnd

Next ==
  \/ \E a \in Accounts : Register(a) \/ BfStart(a)
  \/ \E x \in Placed : Export(x[1], x[2])
  \/ \E p \in Procs : \/ \E a \in Accounts : StartImport(p, a)
                      \/ ImportStep(p) \/ FailChat(p) \/ Kill(p)
  \/ BackfillStep \/ BfInterrupt

Spec == Init /\ [][Next]_vars

(* ------------------------------ properties ----------------------------- *)

\* The file that was parsed is the one whose phone was compared.
Compared(r) == "phone" \in r.read.shows /\ r.file = r.read

\* ADR-012 6 (the check against mixed-up folders): messages of another account, and its
\* telegram id, come into an account only by an import that parsed an export without a
\* phone or one that took the place of what it had compared.
OwnMessages ==
  [][\A a \in Accounts :
       \/ /\ \A m \in stored'[a] \ stored[a] : m[1] = a
          /\ account[a] # Absent => account'[a].user \in {account[a].user, a}
       \/ \E p \in Procs : imp'[p] # imp[p] /\ imp[p].acc = a /\ ~Compared(imp[p])]_vars

\* No message of another account has come into the chat.
Unmixed(a, t) == \A m \in stored[a] : ChatIn(m) = t => m[1] = a

\* Whatever is at or below the watermark of a chat is stored, although imports of
\* older and newer exports overlap, move the watermark back and fail: what is
\* missing is ahead, where the next import looks.  Only messages of another account
\* can hide what is missing, and then they are there to be seen.
UpToWatermark ==
  \A a \in Accounts, t \in Chats : chats[a][t] \in Ids /\ Unmixed(a, t) =>
    \A i \in DOMAIN ChatOf[a] :
      /\ i <= chats[a][t] /\ ChatOf[a][i] = t /\ Kind[a][i] # "skipped"
      => <<a, i>> \in stored[a]

\* An import of the account's own export that ends without a failed chat has everything
\* the export holds in the database, but for chats with messages of another account.
ImportedIsStored ==
  \A p \in Procs :
    imp[p].pc = "next" /\ imp[p].todo = {} /\ ~imp[p].failed /\ imp[p].file.of = imp[p].acc =>
      \A m \in Parsed(imp[p].file) :
        Unmixed(imp[p].acc, ChatIn(m)) => m \in stored[imp[p].acc]

\* A message with media has its row of metadata from the moment it is seen, unless
\* it was imported before such rows were written.
MediaRecorded ==
  \A a \in Accounts : \A m \in WithMedia(stored[a]) :
    m \notin {a} \X Legacy[a] => Present(media[a], m)

\* After a backfill that was not interrupted no stored message of its export lacks
\* its metadata, those included that an import stored behind its back.
BackfillComplete ==
  bf.pc = "next" /\ bf.todo = {} =>
    \A m \in WithMedia(Parsed(bf.file)) :
      m \in stored[bf.acc] => Present(media[bf.acc], m)

\* The table of messages is an archive: rows are never lost or changed, and a chat
\* has one row per telegram id, also when two accounts number their messages alike.
Rows == UNION {{a} \X stored[a] : a \in Accounts}
RowKey(r) == <<r[1], ChatIn(r[2]), r[2][2]>>
MessageArchive == INSTANCE Archive WITH KeyOf <- RowKey, held <- Rows
ImplementsArchive == MessageArchive!Spec

\* Imports wait for each other's keys and never in a circle, which PostgreSQL would
\* break by failing one: a message in any export is inserted after those below it.
NoCircularWait == \A p, q \in Procs : Waits(p, q) => ~Waits(q, p)
=============================================================================
