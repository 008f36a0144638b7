------------------------------ MODULE AnalysisRun ------------------------------
(***************************************************************************)
(* `python -m analysis.run': processes that take chats one by one through  *)
(* a row of LLM calls, store the analysis and apply it to the customer.    *)
(*                                                                         *)
(* state[c] is the checkpoint row of chat c: absent, or updated less       *)
(* ("fresh") or more ("stale") than ten minutes ago.  Its stage and its    *)
(* partial result are written and never read again, so they are left out.  *)
(* analysed and passes are committed rows: whether version v has an        *)
(* analysis of c, and of how many passes of applying it the journal holds  *)
(* the rows (a rollback empties the journal; the confirmed orders it       *)
(* spares are no longer the analyzer's).  run[w] is a process with its     *)
(* arguments, its work list and its uncommitted writes.                    *)
(***************************************************************************)
EXTENDS Naturals

CONSTANTS Chats,
          Empty,       \* chats without a message to analyse
          Versions,    \* analyzer versions, one per worker tag
          Workers,
          Commands,    \* the command lines in use, a subset of Args
          Chunks,      \* chunks of a chat
          MaxFaults    \* bound on failures and on Ctrl-C

\* --chat-ids and the other selectors, --worker-tag, --force and --no-apply.
Args == [sel : SUBSET Chats, ver : Versions, force : BOOLEAN, apply : BOOLEAN]

\* --all of a version, as in the runbook.
AllChats(v) == [sel |-> Chats, ver |-> v, force |-> FALSE, apply |-> TRUE]

ASSUME RunAssumption ==
  /\ Empty \subseteq Chats
  /\ Commands \subseteq Args
  /\ \A v \in Versions : AllChats(v) \in Commands
  /\ Chunks \in Nat \ {0}
  /\ MaxFaults \in Nat

VARIABLES state, analysed, passes, run, faults

rows == <<state, analysed, passes>>
vars == <<state, analysed, passes, run, faults>>

Off == [pc |-> "off"]

\* A session that has upserted the analyses of the chats C, and nothing else.
Wrote(C) == [wrote |-> C, rolled |-> FALSE, made |-> 0]
Clean == Wrote({})

\* The LLM calls of one chat: its chunks, master summary, narrative, structured
\* extract with identity, matching.
Calls == Chunks + 4

Process == [pc : {"select", "next", "loading", "llm", "recording", "apply", "finish"},
            args : Args, stale : SUBSET Chats, todo : SUBSET Chats, chat : SUBSET Chats,
            left : 0..Calls, sigint : BOOLEAN,
            dirty : [wrote : SUBSET Chats, rolled : BOOLEAN, made : 0..1]]

TypeOK ==
  /\ state \in [Chats -> {"none", "fresh", "stale"}]
  /\ analysed \in [Versions -> SUBSET Chats]
  /\ passes \in [Versions -> [Chats -> Nat]]
  /\ run \in [Workers -> {Off} \cup Process]
  /\ faults \in 0..MaxFaults

Init ==
  /\ state = [c \in Chats |-> "none"]
  /\ analysed = [v \in Versions |-> {}]
  /\ passes = [v \in Versions |-> [c \in Chats |-> 0]]
  /\ run = [w \in Workers |-> Off]
  /\ faults = 0

At(w, pc) == run[w].pc = pc
Goto(w, p) == run' = [run EXCEPT ![w] = p]
Fault == faults < MaxFaults /\ faults' = faults + 1

\* upsert_state of the chats C: updated_at is set by the INSERT alone.
Upserted(C) == [c \in Chats |-> IF c \in C /\ state[c] = "none" THEN "fresh" ELSE state[c]]

\* A commit of w publishes what its session wrote, checkpoints st included; w goes
\* on as next.
Commit(w, st, next) ==
  LET p == run[w]
      v == p.args.ver
      d == p.dirty
  IN  /\ state' = st
      /\ analysed' = [analysed EXCEPT ![v] = @ \cup d.wrote]
      /\ passes' = [passes EXCEPT ![v] = [c \in Chats |->
                      IF c \notin d.wrote THEN @[c]
                      ELSE (IF d.rolled THEN 0 ELSE @[c]) + d.made]]
      /\ Goto(w, [next EXCEPT !.dirty = Clean])

(* ------------------------------- start-up ------------------------------ *)

\* Mutant: a checkpoint of any age is taken for a running process.
CheckAnyAge(w, a) ==
  /\ At(w, "off")
  /\ \A c \in Chats : state[c] = "none"
  /\ Goto(w, [pc |-> "select", args |-> a, todo |-> {}, chat |-> {}, left |-> 0,
              sigint |-> FALSE, dirty |-> Clean, stale |-> {}])
  /\ UNCHANGED <<rows, faults>>

\* check_running_process and get_stale_states; a fresh checkpoint ends the process.
CheckRunning(w, a) ==
  /\ At(w, "off")
  /\ \A c \in Chats : state[c] # "fresh"
  /\ Goto(w, [pc |-> "select", args |-> a, todo |-> {}, chat |-> {}, left |-> 0,
              sigint |-> FALSE, dirty |-> Clean,
              stale |-> {c \in Chats : state[c] = "stale"}])
  /\ UNCHANGED <<rows, faults>>

\* --restart, or the operator's answer, drops the stale checkpoints; --resume keeps
\* them, and nothing reads them.  Chats the version has analysed are skipped.
Select(w) ==
  LET p == run[w]
      todo == {c \in p.args.sel : p.args.force \/ c \notin analysed[p.args.ver]}
  IN  /\ At(w, "select")
      /\ \E dropped \in {{}, p.stale} :
           state' = [c \in Chats |-> IF c \in dropped THEN "none" ELSE state[c]]
      /\ Goto(w, IF todo = {} THEN Off
                 ELSE [p EXCEPT !.pc = "next", !.todo = todo, !.stale = {}])
      /\ UNCHANGED <<analysed, passes, faults>>

(* ------------------------------ one chat ------------------------------- *)

\* The first commit of a chat also publishes what an exception left in the session.
NextChat(w) ==
  LET p == run[w]
  IN  /\ At(w, "next")
      /\ IF p.todo = {} \/ p.sigint
         THEN Goto(w, Off) /\ UNCHANGED rows
         ELSE \E c \in p.todo :
                Commit(w, Upserted({c}),
                       [p EXCEPT !.pc = "loading", !.chat = {c}, !.todo = @ \ {c}])
      /\ UNCHANGED faults

\* The chat is over: mark_failed or mark_done, a commit, the next one.
EndChat(w, st) ==
  Commit(w, st, [run[w] EXCEPT !.pc = "next", !.chat = {}, !.left = 0])

MarkFailed(w) == EndChat(w, Upserted(run[w].chat))

LoadChat(w) ==
  LET p == run[w]
  IN  /\ At(w, "loading")
      /\ IF p.chat \subseteq Empty THEN MarkFailed(w)
         ELSE Commit(w, Upserted(p.chat), [p EXCEPT !.pc = "llm", !.left = Calls])
      /\ UNCHANGED faults

\* Ctrl-C is looked for before every LLM call but the last, and an interrupted
\* chat ends the run.  A call that succeeds is followed by a checkpoint.
Call(w) ==
  LET p == run[w]
  IN  /\ At(w, "llm")
      /\ IF p.sigint /\ p.left > 1
         THEN Goto(w, Off) /\ UNCHANGED rows
         ELSE Commit(w, Upserted(p.chat),
                     [p EXCEPT !.left = @ - 1,
                               !.pc = IF p.left = 1 THEN "recording" ELSE "llm"])
      /\ UNCHANGED faults

\* LLMRequestError, after the client's retries and the extract's.
CallFails(w) == At(w, "llm") /\ Fault /\ MarkFailed(w)

\* Mutant: the analysis is looked up and then inserted or updated, without a lock.
RecordUnlocked(w) ==
  LET p == run[w]
  IN  /\ At(w, "recording")
      /\ Goto(w, [p EXCEPT !.pc = IF p.args.apply THEN "apply" ELSE "finish",
                           !.dirty = Wrote(p.chat)])
      /\ UNCHANGED <<rows, faults>>

\* INSERT ... ON CONFLICT (chat_id, analyzer_version) DO UPDATE holds the key until
\* the commit: a second one waits.
Record(w) ==
  LET p == run[w]
  IN  /\ At(w, "recording")
      /\ \A r \in Workers \ {w} : run[r] # Off /\ run[r].args.ver = p.args.ver
                                    => run[r].dirty.wrote \cap p.chat = {}
      /\ Goto(w, [p EXCEPT !.pc = IF p.args.apply THEN "apply" ELSE "finish",
                           !.dirty = Wrote(p.chat)])
      /\ UNCHANGED <<rows, faults>>

Applied(p) == \E c \in p.chat : passes[p.args.ver][c] > 0

\* apply_analysis_to_customer up to the rows it makes: none for a chat without a
\* customer or without an order.  Earlier rows make it fail, or are rolled back.
Apply(w) ==
  LET p == run[w]
  IN  /\ At(w, "apply")
      /\ IF Applied(p) /\ ~p.args.force THEN MarkFailed(w)
         ELSE /\ \E made \in 0..1 :
                   Goto(w, [p EXCEPT !.pc = "finish", !.dirty.made = made,
                                     !.dirty.rolled = Applied(p)])
              /\ UNCHANGED rows
      /\ UNCHANGED faults

\* mark_done deletes the checkpoint.
Finish(w) ==
  /\ At(w, "finish")
  /\ EndChat(w, [c \in Chats |-> IF c \in run[w].chat THEN "none" ELSE state[c]])
  /\ UNCHANGED faults

(* -------------------------------- faults ------------------------------- *)

\* Any other exception: the run goes on with the next chat and the same session,
\* whatever part of the apply it had written.
Raise(w) ==
  LET p == run[w]
  IN  /\ run[w].pc \in {"loading", "llm", "recording", "apply", "finish"}
      /\ Fault
      /\ \E d \in {p.dirty} \cup
                  (IF At(w, "apply") /\ (p.args.force \/ ~Applied(p))
                   THEN {[p.dirty EXCEPT !.rolled = Applied(p), !.made = m] : m \in 0..1}
                   ELSE {}) :
           Goto(w, [p EXCEPT !.pc = "next", !.chat = {}, !.left = 0, !.dirty = d])
      /\ UNCHANGED rows

\* A second Ctrl-C, a killed process, or an error of the database: its transaction is
\* aborted, so every later chat of the run fails and writes nothing.
Crash(w) == ~At(w, "off") /\ Fault /\ Goto(w, Off) /\ UNCHANGED rows

Sigint(w) ==
  /\ run[w].pc \notin {"off", "select"} /\ ~run[w].sigint
  /\ Fault
  /\ Goto(w, [run[w] EXCEPT !.sigint = TRUE])
  /\ UNCHANGED rows

TenMinutesPass(c) ==
  /\ state[c] = "fresh"
  /\ state' = [state EXCEPT ![c] = "stale"]
  /\ UNCHANGED <<analysed, passes, run, faults>>

Step(w) == \/ Select(w) \/ NextChat(w) \/ LoadChat(w) \/ Call(w) \/ Record(w)
           \/ Apply(w) \/ Finish(w)

Next == \/ \E w \in Workers : \/ \E a \in Commands : CheckRunning(w, a)
                              \/ Step(w) \/ CallFails(w) \/ Raise(w) \/ Crash(w)
                              \/ Sigint(w)
        \/ \E c \in Chats : TenMinutesPass(c)

Spec == Init /\ [][Next]_vars

\* Processes run, time passes, and for every version the operator comes back to
\* start --all however often the start was refused.
Fairness == /\ \A w \in Workers : WF_vars(Step(w))
            /\ \A c \in Chats : WF_vars(TenMinutesPass(c))
            /\ \A v \in Versions : SF_vars(\E w \in Workers : CheckRunning(w, AllChats(v)))

FairSpec == Spec /\ Fairness

(* ------------------------------ properties ----------------------------- *)

\* Two processes may work on one chat (the check reads, it locks nothing), and
\* still the journal never holds the rows of a chat twice for one version.
AppliedOnce == \A v \in Versions, c \in Chats : passes[v][c] <= 1

\* No failure, crash, Ctrl-C or leftover checkpoint keeps a chat with messages from
\* being analysed.
EveryChatAnalysed ==
  \A v \in Versions : \A c \in Chats \ Empty : <>(c \in analysed[v])
=============================================================================
