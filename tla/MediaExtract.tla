------------------------------ MODULE MediaExtract ------------------------------
(***************************************************************************)
(* Texts for the media of the messages.  A run takes the media of chats    *)
(* with the right verdicts in batches, asks the vision model or a parser   *)
(* about each, and commits a few results at a time.  Runs overlap each     *)
(* other, the classifier, the imports and the analyses.                    *)
(***************************************************************************)
EXTENDS ChatVerdicts

CONSTANTS Procs,        \* runs of the extractor
          Media,        \* metadata of each message
          Filters,      \* --classification: the sets of verdicts asked for, or All
          All,
          Described,    \* messages with a text of an older version
          BatchSize,    \* --batch-size
          Probe,        \* batch_size of _has_vision_pending
          CommitEvery,  \* COMMIT_BATCH_SIZE
          Absent

Types == {"photo", "file", "other"}
Mimes == {"image", "sheet", "document", "other"}
ExtractorVersions == {"old", "current"}
Texts == [version : ExtractorVersions, placeholder : BOOLEAN]

ASSUME MediaAssumption ==
  /\ Media \in [Messages -> [type : Types, mime : Mimes, exported : BOOLEAN]]
  /\ \A F \in Filters : F = All \/ F \subseteq Verdicts \cup {"unknown"}
  /\ Described \subseteq Old
  /\ Absent \notin Texts /\ 0 \notin Messages
  /\ {BatchSize, Probe, CommitEvery} \subseteq Nat \ {0}

VARIABLES texts,   \* per message, its extraction
          mx       \* the runs

vars == <<tables, texts, mx>>

MxIdle == [pc |-> "idle", scope |-> {}, filter |-> {}, regen |-> FALSE, due |-> {},
           after |-> 0, batch |-> {}, text |-> None, saw |-> None, txn |-> <<>>, stop |-> FALSE]

TypeOK ==
  /\ TablesOK
  /\ texts \in [Messages -> Texts \cup {Absent}]
  /\ \A p \in Procs :
       LET r == mx[p]
       IN  /\ r.pc \in {"idle", "load", "select", "work", "save"}
           /\ r.scope \subseteq Chats /\ r.regen \in BOOLEAN /\ r.stop \in BOOLEAN
           /\ r.filter \in Filters \cup {{}}
           /\ r.due \subseteq Messages /\ r.batch \subseteq here
           /\ r.after \in Messages \cup {0}
           /\ r.text \in Texts \cup {None} /\ r.saw \in Texts \cup {Absent, None}
           /\ DOMAIN r.txn \subseteq Messages
           /\ \A m \in DOMAIN r.txn : r.txn[m] \in Texts /\ r.txn[m].version = "current"

Init ==
  /\ TablesInit
  /\ texts = [m \in Messages |->
                IF m \in Described THEN [version |-> "old", placeholder |-> FALSE] ELSE Absent]
  /\ mx = [p \in Procs |-> MxIdle]

(* -------------------------------- choice ------------------------------- *)

\* The verdict of the newest row of the chat; All is no filter.
Wanted(c, F) == F = All \/ Latest(c) \in F

\* --regenerate takes what has a text as well; a text of another version does not
\* count as one.
Pending(m, regen) == regen \/ texts[m] = Absent \/ texts[m].version # "current"

\* select_pending_messages without its cursor and its limit.
Selectable(scope, F, regen) ==
  {m \in here : ChatOf[m] \in scope /\ Pending(m, regen) /\ Wanted(ChatOf[m], F)}

\* Mutant: the batches come in no order, the cursor goes by the greatest id.
BatchUnordered(r) ==
  LET S == {m \in Selectable(r.scope, r.filter, r.regen) : m > r.after}
  IN  {m \in S : Cardinality(After(S, m)) < BatchSize}

NextBatch(r) ==
  LET S == {m \in Selectable(r.scope, r.filter, r.regen) : m > r.after}
  IN  {m \in S : Cardinality(Before(S, m)) < BatchSize}

Greatest(S) == CHOOSE x \in S : \A y \in S : y <= x

\* decide_extractor
Extractor(m) ==
  IF ~Media[m].exported THEN "placeholder"
  ELSE IF Media[m].type = "photo" \/ (Media[m].type = "file" /\ Media[m].mime = "image") THEN "vision"
  ELSE IF Media[m].type = "file" /\ Media[m].mime \in {"sheet", "document"} THEN "office"
  ELSE "placeholder"

\* extract_image: a description, an answer that repeats itself with or without a
\* beginning worth keeping, one off the template, or an image that does not open.
ImageOutcomes == {"described", "salvaged", "discarded", "mismatch", "broken"}

\* extract_xlsx, extract_docx
OfficeOutcomes == {"parsed", "broken"}

\* extract_image_or_fail, extract_office_or_placeholder: the file may be missing.
Outcomes(m) ==
  {"missing"} \cup CASE Extractor(m) = "vision" -> ImageOutcomes
                     [] Extractor(m) = "office" -> OfficeOutcomes
                     [] OTHER -> {}

\* A file that is missing or broken is a placeholder.
ResultsOf(m) ==
  {[version |-> "current", placeholder |-> o \in {"missing", "broken"}] : o \in Outcomes(m)}

(* --------------------------------- a run ------------------------------- *)

\* _has_vision_pending peeks at the first of them: a picture behind those is met
\* without the wait for the model.
NeedsVision(S) == \E m \in S : Cardinality(Before(S, m)) < Probe /\ Extractor(m) = "vision"

\* main, with the probe that decides whether the vision model is needed: --chat-id
\* alone is not filtered, with --classification it ends at once if the verdict is
\* another.
MxStart(p, S, F, regen) ==
  LET found == Selectable(S, F, regen)
  IN  /\ mx[p].pc = "idle"
      /\ S # Chats => \A c \in S : Wanted(c, F)
      /\ mx' = [mx EXCEPT ![p] = [MxIdle EXCEPT
                  !.pc = IF NeedsVision(found) THEN "load" ELSE "select",
                  !.scope = S, !.filter = F, !.regen = regen, !.due = found]]
      /\ UNCHANGED <<tables, texts>>

MxLoaded(p) ==
  /\ mx[p].pc = "load"
  /\ mx' = [mx EXCEPT ![p].pc = "select"]
  /\ UNCHANGED <<tables, texts>>

MxTimeout(p) ==
  /\ mx[p].pc = "load"
  /\ mx' = [mx EXCEPT ![p] = MxIdle]
  /\ UNCHANGED <<tables, texts>>

Done(r) == r.pc = "select" /\ NextBatch(r) = {}

MxSelect(p) ==
  LET b == NextBatch(mx[p])
  IN  /\ mx[p].pc = "select" /\ b # {}
      /\ mx' = [mx EXCEPT ![p].pc = "work", ![p].batch = b, ![p].after = Greatest(b)]
      /\ UNCHANGED <<tables, texts>>

MxEnd(p) ==
  /\ Done(mx[p])
  /\ mx' = [mx EXCEPT ![p] = MxIdle]
  /\ UNCHANGED <<tables, texts>>

\* _process_message up to its first statement.
MxExtract(p, t) ==
  LET m == Least(mx[p].batch)
  IN  /\ mx[p].pc = "work" /\ mx[p].batch # {} /\ ~mx[p].stop
      /\ t \in ResultsOf(m)
      /\ mx' = [mx EXCEPT ![p].pc = "save", ![p].text = t,
                                ![p].saw = IF mx[p].regen THEN texts[m] ELSE None]
      /\ UNCHANGED <<tables, texts>>

\* The row another run has inserted or deleted and may still roll back.
Held(p, m) == \E q \in Procs \ {p} : m \in DOMAIN mx[q].txn

\* Mutant: the commit is one result late.
CommitDueLate(n) == n > CommitEvery

CommitDue(n) == n >= CommitEvery

Stored(txn) == [m \in Messages |-> IF m \in DOMAIN txn THEN txn[m] ELSE texts[m]]
With(txn, m, t) == [x \in DOMAIN txn \cup {m} |-> IF x = m THEN t ELSE txn[x]]

Saved(p) == [mx[p] EXCEPT !.pc = "work", !.batch = @ \ {Least(@)}, !.text = None, !.saw = None]

\* save_extraction and the commit of every few rows: DELETE and INSERT, which finds
\* the row as the DELETE saw it, or INSERT ... ON CONFLICT DO NOTHING.
MxSave(p) ==
  LET m == Least(mx[p].batch)
      txn == With(mx[p].txn, m, mx[p].text)
  IN  /\ mx[p].pc = "save" /\ ~Held(p, m)
      /\ IF ~mx[p].regen /\ texts[m] # Absent
         THEN mx' = [mx EXCEPT ![p] = Saved(p)] /\ UNCHANGED texts
         ELSE /\ mx[p].regen => texts[m] = mx[p].saw
              /\ IF CommitDue(Cardinality(DOMAIN txn))
                 THEN /\ texts' = Stored(txn)
                      /\ mx' = [mx EXCEPT ![p] = [Saved(p) EXCEPT !.txn = <<>>]]
                 ELSE /\ mx' = [mx EXCEPT ![p] = [Saved(p) EXCEPT !.txn = txn]]
                      /\ UNCHANGED texts
      /\ UNCHANGED tables

\* The rest is committed; Ctrl-C ends the run here, otherwise the next batch follows.
MxBatchEnd(p) ==
  /\ mx[p].pc = "work" /\ (mx[p].batch = {} \/ mx[p].stop)
  /\ texts' = Stored(mx[p].txn)
  /\ mx' = [mx EXCEPT ![p] = IF mx[p].stop THEN MxIdle
                             ELSE [mx[p] EXCEPT !.pc = "select", !.txn = <<>>]]
  /\ UNCHANGED tables

\* Looked at before each message.
MxSigint(p) ==
  /\ mx[p].pc \in {"work", "save"} /\ ~mx[p].stop
  /\ mx' = [mx EXCEPT ![p].stop = TRUE]
  /\ UNCHANGED <<tables, texts>>

\* Mutant: the DELETE of --regenerate is committed by itself.
DeletedStay(p) ==
  [m \in Messages |-> IF mx[p].regen /\ m \in DOMAIN mx[p].txn THEN Absent ELSE texts[m]]

RolledBack(p) == texts

\* The model or the database fails, a second INSERT meets the first, a crash: the run
\* is over and what it has not committed is lost.
MxFail(p) ==
  /\ mx[p].pc # "idle"
  /\ texts' = RolledBack(p)
  /\ mx' = [mx EXCEPT ![p] = MxIdle]
  /\ UNCHANGED tables

(* ------------------------------- together ------------------------------ *)

\* A run owes no text to a chat whose verdict has changed under it.
StillDue(r) == {m \in r.due : r.filter = All \/ Latest(ChatOf[m])' \in r.filter}

Meanwhile ==
  /\ TablesNext
  /\ mx' = [p \in Procs |-> [mx[p] EXCEPT !.due = StillDue(mx[p])]]
  /\ UNCHANGED texts

MxStep(p) ==
  \/ MxLoaded(p) \/ MxTimeout(p) \/ MxSelect(p) \/ MxEnd(p)
  \/ \E t \in Texts : MxExtract(p, t)
  \/ MxSave(p) \/ MxBatchEnd(p)

Next ==
  \/ Meanwhile
  \/ \E p \in Procs :
       \/ \E F \in Filters, regen \in BOOLEAN :
            \/ MxStart(p, Chats, F, regen)
            \/ \E c \in Chats : MxStart(p, {c}, F, regen)
       \/ MxStep(p) \/ MxSigint(p) \/ MxFail(p)

Spec == Init /\ [][Next]_vars

(* ------------------------------ properties ----------------------------- *)

\* A run that ends by itself has passed over nothing that was pending when it began and
\* whose chat kept its verdict; what --regenerate found has a text of this version.
RunLeavesNothing ==
  \A p \in Procs : Done(mx[p]) =>
    \A m \in mx[p].due :
      /\ texts[m] # Absent
      /\ mx[p].regen => texts[m].version = "current"

\* A crash loses fewer than COMMIT_BATCH_SIZE results, between batches none.
LossIsBounded ==
  \A p \in Procs :
    /\ Cardinality(DOMAIN mx[p].txn) < CommitEvery
    /\ mx[p].pc \notin {"work", "save"} => mx[p].txn = <<>>

\* A message that has a text keeps one, while --regenerate replaces it, runs meet on
\* it and fail.
MessagesWithText == {m \in Messages : texts[m] # Absent}
TextKey(m) == m
TextArchive == INSTANCE Archive WITH KeyOf <- TextKey, held <- MessagesWithText
TextsStay == TextArchive!Spec
=============================================================================
