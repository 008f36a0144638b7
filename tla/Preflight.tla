------------------------------- MODULE Preflight -------------------------------
(***************************************************************************)
(* The preflight classifier: it asks the model about every chat without a  *)
(* verdict, shows it both ends of the chat, and commits chat by chat.      *)
(***************************************************************************)
EXTENDS ChatVerdicts

CONSTANTS PREVIEW_HEAD, PREVIEW_TAIL,
          MaxRetries    \* DEFAULT_MAX_RETRIES

ASSUME PreflightAssumption == /\ PREVIEW_HEAD \in Nat \ {0} /\ PREVIEW_TAIL \in Nat
                              /\ MaxRetries \in Nat \ {0}

VARIABLE pf   \* the classifier

pfVars == <<tables, pf>>

PfIdle == [pc |-> "idle", scope |-> {}, todo |-> {}, chat |-> None, shown |-> {},
           tries |-> 0, regen |-> FALSE, errors |-> FALSE, stop |-> FALSE]

Classifier ==
  [pc : {"idle", "load", "next", "ask"}, scope : SUBSET Chats, todo : SUBSET Chats,
   chat : Chats \cup {None}, shown : SUBSET Messages, tries : 0..MaxRetries,
   regen : BOOLEAN, errors : BOOLEAN, stop : BOOLEAN]

PfTypeOK == TablesOK /\ pf \in Classifier

PfInit == TablesInit /\ pf = PfIdle

\* main: --all or --chat-id; the model must be loaded by hand before it goes on.
PfStart(S, regen) ==
  /\ pf.pc = "idle"
  /\ pf' = [PfIdle EXCEPT !.pc = "load", !.scope = S, !.regen = regen]
  /\ UNCHANGED tables

\* Mutant: a chat with an analysis of any kind is taken for judged.
PfPendingAnyRow(c, regen) == regen \/ Committed(rows[c]) = <<>>

\* select_pending_chats.
PfPending(c, regen) == regen \/ ~HasVerdict(c)

\* ensure_model_loaded returns, or gives up and ends the run.
PfLoaded ==
  /\ pf.pc = "load"
  /\ pf' = [pf EXCEPT !.pc = "next", !.todo = {c \in pf.scope : PfPending(c, pf.regen)}]
  /\ UNCHANGED tables

PfTimeout ==
  /\ pf.pc = "load"
  /\ pf' = PfIdle
  /\ UNCHANGED tables

\* build_preview: all of a short chat, or its first and its last messages.
Preview(S) ==
  IF Cardinality(S) <= PREVIEW_HEAD + PREVIEW_TAIL THEN S
  ELSE {m \in S : Cardinality(Before(S, m)) < PREVIEW_HEAD \/ Cardinality(After(S, m)) < PREVIEW_TAIL}

\* Mutant: the model is asked about any chat.
NeverEmpty(c) == FALSE

\* is_empty_chat
IsEmpty(c) == In(c) = {}

\* The next chat by id, without messages: judged without the model.
PfEmpty ==
  LET c == Least(pf.todo)
  IN  /\ pf.pc = "next" /\ pf.todo # {} /\ ~pf.stop
      /\ IsEmpty(c)
      /\ Judged(c, "not_client")
      /\ pf' = [pf EXCEPT !.todo = @ \ {c}]

PfAsk ==
  LET c == Least(pf.todo)
  IN  /\ pf.pc = "next" /\ pf.todo # {} /\ ~pf.stop
      /\ ~IsEmpty(c)
      /\ pf' = [pf EXCEPT !.pc = "ask", !.todo = @ \ {c}, !.chat = c, !.shown = Preview(In(c))]
      /\ UNCHANGED tables

Answered(errors) ==
  [pf EXCEPT !.pc = "next", !.chat = None, !.shown = {}, !.tries = 0, !.errors = errors]

\* The verdict's row and its commit.
PfVerdict(v) ==
  /\ pf.pc = "ask"
  /\ rows' = Upserted(pf.chat, "preflight", v)
  /\ pf' = Answered(pf.errors)
  /\ UNCHANGED <<here, legacy>>

\* complete: a failed request is tried again, and the last one is no answer.
PfRetry ==
  /\ pf.pc = "ask"
  /\ pf' = IF pf.tries + 1 < MaxRetries THEN [pf EXCEPT !.tries = @ + 1] ELSE Answered(TRUE)
  /\ UNCHANGED tables

\* classify_chat returns None: no model is found, or the answer is not a verdict.
PfNoVerdict ==
  /\ pf.pc = "ask"
  /\ pf' = Answered(TRUE)
  /\ UNCHANGED tables

PfSigint ==
  /\ pf.pc # "idle" /\ ~pf.stop
  /\ pf' = [pf EXCEPT !.stop = TRUE]
  /\ UNCHANGED tables

PfEnd ==
  /\ pf.pc = "next" /\ (pf.stop \/ pf.todo = {})
  /\ pf' = PfIdle
  /\ UNCHANGED tables

\* An exception (rollback, exit code 1), a second Ctrl-C, a crash: each chat before
\* this one has been committed.
PfAbort ==
  /\ pf.pc # "idle"
  /\ pf' = PfIdle
  /\ UNCHANGED tables

PfStep ==
  \/ PfLoaded \/ PfTimeout \/ PfEmpty \/ PfAsk \/ PfRetry \/ PfNoVerdict \/ PfEnd
  \/ \E v \in Verdicts : PfVerdict(v)

PfNext ==
  \/ Around /\ UNCHANGED pf
  \/ \E regen \in BOOLEAN : \/ PfStart(Chats, regen)
                            \/ \E c \in Chats : PfStart({c}, regen)
  \/ PfStep \/ PfSigint \/ PfAbort

PfSpec == PfInit /\ [][PfNext]_pfVars

(* ------------------------------ properties ----------------------------- *)

\* A run that ends by itself and counts no error leaves a verdict for every chat it
\* was called for, although messages, analyses and old verdicts come in between.
RunJudgesAll ==
  pf.pc = "next" /\ pf.todo = {} /\ ~pf.errors => \A c \in pf.scope : HasVerdict(c)

\* To the rest of the system the classifier is what ChatVerdicts says of it: one
\* row at a time, the newest of its chat, and never a client without messages.
ImplementsVerdicts == TablesInit /\ [][TablesNext]_tables
=============================================================================
