--------------------------- MODULE AnalysisRunProofs ---------------------------
(* AppliedOnce for any number of processes, chats and versions.  The key    *)
(* Record holds until the commit is what makes the check of Apply and the   *)
(* rows Commit publishes one step for everybody else.                       *)
EXTENDS AnalysisRun, TLAPS

(* --------------------------- the invariant ----------------------------- *)

\* No two processes hold the key of one chat in one version.
KeysDisjoint ==
  \A w, r \in Workers :
    w # r /\ run[w] # Off /\ run[r] # Off /\ run[w].args.ver = run[r].args.ver
      => run[w].dirty.wrote \cap run[r].dirty.wrote = {}

\* Rows are made only where the version has none, or rolls back those it has.
MadeOnce ==
  \A w \in Workers : run[w] # Off =>
    LET d == run[w].dirty
    IN  d.made = 0 \/ d.rolled \/ \A c \in d.wrote : passes[run[w].args.ver][c] = 0

\* A process about to apply holds the key of its chat.
HoldsKey == \A w \in Workers : run[w].pc = "apply" => run[w].dirty.wrote = run[w].chat

\* A process among the LLM calls has one to make.
CallsLeft == \A w \in Workers : run[w].pc = "llm" => run[w].left > 0

Inv == TypeOK /\ KeysDisjoint /\ MadeOnce /\ HoldsKey /\ CallsLeft /\ AppliedOnce

(* ------------------------------- lemmas -------------------------------- *)

\* Off has no dirty writes: what is not Off is a process.
LEMMA ProcessIsOpen ==
  ASSUME TypeOK, NEW w \in Workers, run[w].pc # "off"
  PROVE  run[w] \in Process /\ run[w] # Off
BY DEF TypeOK, Off, Process

LEMMA CleanType == Clean \in [wrote : SUBSET Chats, rolled : BOOLEAN, made : 0..1]
BY DEF Clean, Wrote

\* A step that touches w alone keeps the invariant when the new w holds no key of
\* another, makes rows only where it may, and holds its key when it applies.
LEMMA LocalKeeps ==
  ASSUME Inv, NEW w \in Workers, NEW q \in {Off} \cup Process, Goto(w, q),
         state' \in [Chats -> {"none", "fresh", "stale"}],
         UNCHANGED <<analysed, passes>>, faults' \in 0..MaxFaults,
         q = Off \/
         /\ \A r \in Workers \ {w} : run[r] # Off /\ run[r].args.ver = q.args.ver
                                     => run[r].dirty.wrote \cap q.dirty.wrote = {}
         /\ q.dirty.made = 0 \/ q.dirty.rolled
              \/ \A c \in q.dirty.wrote : passes[q.args.ver][c] = 0
         /\ q.pc = "apply" => q.dirty.wrote = q.chat
         /\ q.pc = "llm" => q.left > 0
  PROVE  Inv'
<1>1. run' = [run EXCEPT ![w] = q] /\ run \in [Workers -> {Off} \cup Process]
  BY DEF Inv, TypeOK, Goto
<1>2. run'[w] = q /\ \A r \in Workers \ {w} : run'[r] = run[r]
  BY <1>1
<1>3. TypeOK'
  BY <1>1 DEF Inv, TypeOK
<1>4. KeysDisjoint'
  <2> SUFFICES ASSUME NEW u \in Workers, NEW r \in Workers, u # r,
                      run'[u] # Off, run'[r] # Off,
                      run'[u].args.ver = run'[r].args.ver
               PROVE  run'[u].dirty.wrote \cap run'[r].dirty.wrote = {}
    BY DEF KeysDisjoint
  <2>1. CASE u = w
    BY <2>1, <1>2
  <2>2. CASE r = w
    BY <2>2, <1>2
  <2>3. CASE u # w /\ r # w
    BY <2>3, <1>2 DEF Inv, KeysDisjoint
  <2> QED BY <2>1, <2>2, <2>3
<1>5. MadeOnce'
  <2> SUFFICES ASSUME NEW u \in Workers, run'[u] # Off
               PROVE  LET d == run'[u].dirty
                      IN  d.made = 0 \/ d.rolled
                            \/ \A c \in d.wrote : passes'[run'[u].args.ver][c] = 0
    BY DEF MadeOnce
  <2>1. CASE u = w
    BY <2>1, <1>2
  <2>2. CASE u # w
    BY <2>2, <1>2 DEF Inv, MadeOnce
  <2> QED BY <2>1, <2>2
<1>6. HoldsKey'
  BY <1>2 DEF Inv, HoldsKey, Off
<1>7. CallsLeft'
  BY <1>2 DEF Inv, CallsLeft, Off
<1>8. AppliedOnce'
  BY DEF Inv, AppliedOnce
<1> QED BY <1>3, <1>4, <1>5, <1>6, <1>7, <1>8 DEF Inv

\* What a commit makes of the passes of one chat stays at one.
LEMMA CommitCounts ==
  ASSUME Inv, NEW w \in Workers, run[w] \in Process, run[w] # Off,
         NEW st, NEW next, Commit(w, st, next)
  PROVE  /\ passes' \in [Versions -> [Chats -> 0..1]]
         /\ \A v \in Versions, c \in Chats :
              v # run[w].args.ver \/ c \notin run[w].dirty.wrote
                => passes'[v][c] = passes[v][c]
<1> DEFINE ver == run[w].args.ver
           d == run[w].dirty
           new(c) == IF c \notin d.wrote THEN passes[ver][c]
                     ELSE (IF d.rolled THEN 0 ELSE passes[ver][c]) + d.made
<1>1. /\ ver \in Versions /\ d.wrote \subseteq Chats /\ d.made \in 0..1
      /\ d.rolled \in BOOLEAN
  BY DEF Process, Args
<1>2. passes \in [Versions -> [Chats -> Nat]]
  BY DEF Inv, TypeOK
<1>3. \A v \in Versions, c \in Chats : passes[v][c] \in 0..1
  BY <1>2 DEF Inv, AppliedOnce
<1>4. \A c \in Chats : new(c) \in 0..1
  <2> TAKE c \in Chats
  <2>1. CASE c \notin d.wrote
    BY <2>1, <1>1, <1>3
  <2>2. CASE c \in d.wrote
    <3>1. d.made = 0 \/ d.rolled \/ passes[ver][c] = 0
      BY <2>2 DEF Inv, MadeOnce
    <3> QED BY <3>1, <2>2, <1>1, <1>3
  <2> QED BY <2>1, <2>2
<1>5. passes' = [passes EXCEPT ![ver] = [c \in Chats |-> new(c)]]
  BY DEF Commit
<1> HIDE DEF new
<1>6. [c \in Chats |-> new(c)] \in [Chats -> 0..1]
  BY <1>4
<1>7. \A v \in Versions : passes[v] \in [Chats -> 0..1]
  BY <1>2, <1>3
<1>8. passes' \in [Versions -> [Chats -> 0..1]]
  BY <1>1, <1>2, <1>5, <1>6, <1>7
<1>9. ASSUME NEW v \in Versions, NEW c \in Chats, v # ver \/ c \notin d.wrote
      PROVE  passes'[v][c] = passes[v][c]
  <2>1. CASE v # ver
    BY <2>1, <1>1, <1>2, <1>5
  <2>2. CASE v = ver /\ c \notin d.wrote
    <3>1. passes'[v][c] = new(c)
      BY <2>2, <1>1, <1>2, <1>5
    <3> QED BY <3>1, <2>2 DEF new
  <2> QED BY <2>1, <2>2, <1>9
<1> QED BY <1>8, <1>9

\* A commit keeps the invariant: the chats it writes are written by nobody else.
LEMMA CommitKeeps ==
  ASSUME Inv, NEW w \in Workers, run[w] \in Process, run[w] # Off,
         NEW st \in [Chats -> {"none", "fresh", "stale"}], NEW next \in Process,
         next.pc # "apply", next.pc = "llm" => next.left > 0,
         Commit(w, st, next), faults' \in 0..MaxFaults
  PROVE  Inv'
<1> DEFINE q == [next EXCEPT !.dirty = Clean]
<1>1. q \in Process /\ q.pc = next.pc /\ q.left = next.left /\ q.dirty = Clean
  BY CleanType DEF Process
<1>2. run' = [run EXCEPT ![w] = q] /\ run \in [Workers -> {Off} \cup Process]
  BY DEF Inv, TypeOK, Goto, Commit
<1>3. run'[w] = q /\ \A r \in Workers \ {w} : run'[r] = run[r]
  BY <1>2
<1>4. run[w].args.ver \in Versions /\ run[w].dirty.wrote \subseteq Chats
  BY DEF Process, Args
<1> HIDE DEF q
<1>5. TypeOK'
  <2>1. state' \in [Chats -> {"none", "fresh", "stale"}]
    BY DEF Commit
  <2>2. analysed' \in [Versions -> SUBSET Chats]
    BY <1>4 DEF Commit, Inv, TypeOK
  <2>3. passes' \in [Versions -> [Chats -> Nat]]
    BY CommitCounts
  <2>4. run' \in [Workers -> {Off} \cup Process]
    BY <1>1, <1>2
  <2> QED BY <2>1, <2>2, <2>3, <2>4 DEF TypeOK
<1>6. KeysDisjoint'
  <2> SUFFICES ASSUME NEW u \in Workers, NEW r \in Workers, u # r,
                      run'[u] # Off, run'[r] # Off,
                      run'[u].args.ver = run'[r].args.ver
               PROVE  run'[u].dirty.wrote \cap run'[r].dirty.wrote = {}
    BY DEF KeysDisjoint
  <2>1. CASE u = w \/ r = w
    BY <2>1, <1>1, <1>3 DEF Clean, Wrote
  <2>2. CASE u # w /\ r # w
    BY <2>2, <1>3 DEF Inv, KeysDisjoint
  <2> QED BY <2>1, <2>2
<1>7. MadeOnce'
  <2> SUFFICES ASSUME NEW u \in Workers, run'[u] # Off,
                      run'[u].dirty.made # 0, ~run'[u].dirty.rolled,
                      NEW c \in run'[u].dirty.wrote
               PROVE  passes'[run'[u].args.ver][c] = 0
    BY DEF MadeOnce
  <2>1. u # w
    BY <1>1, <1>3 DEF Clean, Wrote
  <2>2. run'[u] = run[u] /\ run[u] \in Process /\ run[u] # Off
    BY <2>1, <1>2, <1>3
  <2>3. run[u].args.ver \in Versions /\ c \in Chats
    BY <2>2 DEF Process, Args
  <2>4. run[u].args.ver # run[w].args.ver \/ c \notin run[w].dirty.wrote
    BY <2>1, <2>2 DEF Inv, KeysDisjoint
  <2>5. passes[run[u].args.ver][c] = 0
    BY <2>2 DEF Inv, MadeOnce
  <2> QED BY <2>2, <2>3, <2>4, <2>5, CommitCounts
<1>8. HoldsKey'
  BY <1>1, <1>3 DEF Inv, HoldsKey
<1>9. CallsLeft'
  BY <1>1, <1>3 DEF Inv, CallsLeft
<1>10. AppliedOnce'
  BY CommitCounts DEF AppliedOnce
<1> QED BY <1>5, <1>6, <1>7, <1>8, <1>9, <1>10 DEF Inv

LEMMA UpsertedType ==
  ASSUME Inv, NEW C
  PROVE  Upserted(C) \in [Chats -> {"none", "fresh", "stale"}]
BY DEF Inv, TypeOK, Upserted

\* A process that goes away, its writes with it.
LEMMA GoneKeeps ==
  ASSUME Inv, NEW w \in Workers, Goto(w, Off), UNCHANGED rows, faults' \in 0..MaxFaults
  PROVE  Inv'
BY LocalKeeps DEF rows, Inv, TypeOK

\* The end of a chat, well or badly.
LEMMA EndKeeps ==
  ASSUME Inv, NEW w \in Workers, run[w].pc # "off",
         NEW st \in [Chats -> {"none", "fresh", "stale"}], EndChat(w, st),
         faults' \in 0..MaxFaults
  PROVE  Inv'
<1> DEFINE next == [run[w] EXCEPT !.pc = "next", !.chat = {}, !.left = 0]
<1>1. run[w] \in Process /\ run[w] # Off
  BY ProcessIsOpen DEF Inv
<1>2. Calls \in Nat
  BY RunAssumption DEF Calls
<1>3. next \in Process
  <2>1. [run[w] EXCEPT !.pc = "next", !.chat = {}] \in Process
    BY <1>1 DEF Process
  <2>2. 0 \in 0..Calls
    BY <1>2
  <2> QED BY <2>1, <2>2 DEF Process
<1>5. next.pc = "next"
  BY <1>1 DEF Process
<1> HIDE DEF next
<1>4. Commit(w, st, next)
  BY DEF EndChat, next
<1> QED BY <1>1, <1>3, <1>4, <1>5, CommitKeeps

LEMMA FailKeeps ==
  ASSUME Inv, NEW w \in Workers, run[w].pc # "off", MarkFailed(w),
         faults' \in 0..MaxFaults
  PROVE  Inv'
BY UpsertedType, EndKeeps DEF MarkFailed

(* ------------------------------- actions ------------------------------- *)

LEMMA CheckKeeps ==
  ASSUME Inv, NEW w \in Workers, NEW a \in Commands, CheckRunning(w, a)
  PROVE  Inv'
<1> DEFINE q == [pc |-> "select", args |-> a, todo |-> {}, chat |-> {}, left |-> 0,
                 sigint |-> FALSE, dirty |-> Clean,
                 stale |-> {c \in Chats : state[c] = "stale"}]
<1>1. Calls \in Nat /\ a \in Args
  BY RunAssumption DEF Calls
<1>2. q \in Process
  BY <1>1, CleanType DEF Process
<1>3. q.pc = "select" /\ q.dirty.wrote = {} /\ q.dirty.made = 0
  BY DEF Clean, Wrote
<1>4. Goto(w, q) /\ UNCHANGED <<rows, faults>>
  BY DEF CheckRunning
<1> HIDE DEF q
<1>5. state' \in [Chats -> {"none", "fresh", "stale"}] /\ faults' \in 0..MaxFaults
  BY <1>4 DEF Inv, TypeOK, rows
<1> QED BY <1>2, <1>3, <1>4, <1>5, LocalKeeps DEF rows

\* A process that keeps its arguments and its writes, or is gone.
LEMMA SameWritesKeep ==
  ASSUME Inv, NEW w \in Workers, run[w].pc # "off", NEW q \in Process, Goto(w, q),
         q.args = run[w].args, q.dirty = run[w].dirty,
         q.pc \in {"apply", "llm"}
           => q.pc = run[w].pc /\ q.chat = run[w].chat /\ q.left = run[w].left,
         state' \in [Chats -> {"none", "fresh", "stale"}],
         UNCHANGED <<analysed, passes>>, faults' \in 0..MaxFaults
  PROVE  Inv'
<1>1. run[w] \in Process /\ run[w] # Off
  BY ProcessIsOpen DEF Inv
<1>2. \A r \in Workers \ {w} : run[r] # Off /\ run[r].args.ver = q.args.ver
                              => run[r].dirty.wrote \cap q.dirty.wrote = {}
  BY <1>1 DEF Inv, KeysDisjoint
<1>3. q.dirty.made = 0 \/ q.dirty.rolled
        \/ \A c \in q.dirty.wrote : passes[q.args.ver][c] = 0
  BY <1>1 DEF Inv, MadeOnce
<1>4. q.pc = "apply" => q.dirty.wrote = q.chat
  BY DEF Inv, HoldsKey
<1>5. q.pc = "llm" => q.left > 0
  BY DEF Inv, CallsLeft
<1> QED BY <1>2, <1>3, <1>4, <1>5, LocalKeeps

LEMMA SelectKeeps ==
  ASSUME Inv, NEW w \in Workers, Select(w)
  PROVE  Inv'
<1> DEFINE p == run[w]
           todo == {c \in p.args.sel : p.args.force \/ c \notin analysed[p.args.ver]}
           q == [p EXCEPT !.pc = "next", !.todo = todo, !.stale = {}]
<1>1. p \in Process /\ p # Off /\ p.pc # "off"
  BY ProcessIsOpen DEF Inv, Select, At
<1>2. todo \subseteq Chats
  BY <1>1 DEF Process, Args
<1>3. q \in Process /\ q.args = p.args /\ q.dirty = p.dirty /\ q.pc = "next"
  BY <1>1, <1>2 DEF Process
<1>4. state' \in [Chats -> {"none", "fresh", "stale"}] /\ faults' \in 0..MaxFaults
  BY DEF Select, Inv, TypeOK
<1>5. (Goto(w, Off) \/ Goto(w, q)) /\ UNCHANGED <<analysed, passes>>
  BY DEF Select
<1>6. CASE Goto(w, Off)
  BY <1>4, <1>5, <1>6, LocalKeeps
<1>7. CASE Goto(w, q)
  <2> HIDE DEF q
  <2> QED BY <1>1, <1>3, <1>4, <1>5, <1>7, SameWritesKeep
<1> QED BY <1>5, <1>6, <1>7

LEMMA NextChatKeeps ==
  ASSUME Inv, NEW w \in Workers, NextChat(w)
  PROVE  Inv'
<1>1. run[w] \in Process /\ run[w] # Off /\ faults' \in 0..MaxFaults
  BY ProcessIsOpen DEF Inv, TypeOK, NextChat, At
<1>2. CASE Goto(w, Off) /\ UNCHANGED rows
  BY <1>1, <1>2, GoneKeeps
<1>3. ASSUME NEW c \in run[w].todo,
             Commit(w, Upserted({c}), [run[w] EXCEPT !.pc = "loading", !.chat = {c},
                                                     !.todo = @ \ {c}])
      PROVE  Inv'
  <2> DEFINE next == [run[w] EXCEPT !.pc = "loading", !.chat = {c}, !.todo = @ \ {c}]
  <2>1. next \in Process /\ next.pc = "loading"
    BY <1>1 DEF Process
  <2> HIDE DEF next
  <2>2. Commit(w, Upserted({c}), next)
    BY <1>3 DEF next
  <2> QED BY <1>1, <2>1, <2>2, UpsertedType, CommitKeeps
<1> QED BY <1>2, <1>3 DEF NextChat

LEMMA LoadKeeps ==
  ASSUME Inv, NEW w \in Workers, LoadChat(w)
  PROVE  Inv'
<1> DEFINE next == [run[w] EXCEPT !.pc = "llm", !.left = Calls]
<1>1. run[w] \in Process /\ run[w] # Off /\ run[w].pc # "off" /\ faults' \in 0..MaxFaults
  BY ProcessIsOpen DEF Inv, TypeOK, LoadChat, At
<1>2. CASE MarkFailed(w)
  BY <1>1, <1>2, FailKeeps
<1>3. CASE Commit(w, Upserted(run[w].chat), next)
  <2>1. Calls \in 0..Calls /\ Calls > 0
    BY RunAssumption DEF Calls
  <2>2. next \in Process /\ next.pc = "llm" /\ next.left > 0
    BY <1>1, <2>1 DEF Process
  <2> HIDE DEF next
  <2> QED BY <1>1, <1>3, <2>2, UpsertedType, CommitKeeps
<1> QED BY <1>2, <1>3 DEF LoadChat

LEMMA CallKeeps ==
  ASSUME Inv, NEW w \in Workers, Call(w)
  PROVE  Inv'
<1> DEFINE p == run[w]
           next == [p EXCEPT !.left = @ - 1,
                             !.pc = IF p.left = 1 THEN "recording" ELSE "llm"]
<1>1. p \in Process /\ p # Off /\ faults' \in 0..MaxFaults
  BY ProcessIsOpen DEF Inv, TypeOK, Call, At
<1>2. CASE Goto(w, Off) /\ UNCHANGED rows
  BY <1>1, <1>2, GoneKeeps
<1>3. CASE Commit(w, Upserted(p.chat), next)
  <2>1. p.left \in 1..Calls
    BY <1>1 DEF Inv, CallsLeft, Call, At, Process
  <2>2. p.left - 1 \in 0..Calls /\ (p.left # 1 => p.left - 1 > 0)
    BY <2>1, RunAssumption DEF Calls
  <2>3. next \in Process
    BY <1>1, <2>2 DEF Process
  <2>4. next.pc = (IF p.left = 1 THEN "recording" ELSE "llm") /\ next.left = p.left - 1
    BY <1>1 DEF Process
  <2> HIDE DEF next
  <2> QED BY <1>1, <1>3, <2>2, <2>3, <2>4, UpsertedType, CommitKeeps
<1> QED BY <1>2, <1>3 DEF Call

\* Record waits for whoever holds the key.
LEMMA RecordKeeps ==
  ASSUME Inv, NEW w \in Workers, Record(w)
  PROVE  Inv'
<1> DEFINE p == run[w]
           q == [p EXCEPT !.pc = IF p.args.apply THEN "apply" ELSE "finish",
                          !.dirty = Wrote(p.chat)]
<1>1. p \in Process /\ p # Off
  BY ProcessIsOpen DEF Inv, Record, At
<1>2. Wrote(p.chat) \in [wrote : SUBSET Chats, rolled : BOOLEAN, made : 0..1]
  BY <1>1 DEF Wrote, Process
<1>3. q \in Process
  BY <1>1, <1>2 DEF Process
<1>4. q.pc \in {"apply", "finish"} /\ q.chat = p.chat /\ q.args = p.args
  BY <1>1 DEF Process
<1>5. q.dirty.wrote = p.chat /\ q.dirty.made = 0
  BY <1>1 DEF Process, Wrote
<1>6. Goto(w, q) /\ UNCHANGED <<rows, faults>>
  BY DEF Record
<1>7. \A r \in Workers \ {w} : run[r] # Off /\ run[r].args.ver = p.args.ver
                              => run[r].dirty.wrote \cap p.chat = {}
  BY DEF Record
<1> HIDE DEF q
<1>8. state' \in [Chats -> {"none", "fresh", "stale"}] /\ faults' \in 0..MaxFaults
  BY <1>6 DEF Inv, TypeOK, rows
<1> QED BY <1>3, <1>4, <1>5, <1>6, <1>7, <1>8, LocalKeeps DEF rows

\* What an apply leaves in the session: at most one pass, beside none or after a
\* rollback.
LEMMA WritesKeep ==
  ASSUME Inv, NEW w \in Workers, run[w].pc = "apply", NEW m \in 0..1,
         NEW q \in Process, q.pc \in {"next", "finish"}, q.args = run[w].args,
         q.dirty = [run[w].dirty EXCEPT !.rolled = Applied(run[w]), !.made = m],
         Goto(w, q), UNCHANGED rows, faults' \in 0..MaxFaults
  PROVE  Inv'
<1> DEFINE p == run[w]
<1>1. p \in Process /\ p # Off
  BY ProcessIsOpen DEF Inv
<1>2. p.dirty.wrote = p.chat
  BY DEF Inv, HoldsKey
<1>3. q.dirty.wrote = p.chat /\ q.dirty.rolled = Applied(p)
  BY <1>1, <1>2 DEF Process
<1>4. \A r \in Workers \ {w} : run[r] # Off /\ run[r].args.ver = q.args.ver
                              => run[r].dirty.wrote \cap q.dirty.wrote = {}
  BY <1>1, <1>2, <1>3 DEF Inv, KeysDisjoint
<1>5. Applied(p) \/ \A c \in p.chat : passes[p.args.ver][c] = 0
  BY <1>1 DEF Applied, Inv, TypeOK, Process, Args
<1>6. state' \in [Chats -> {"none", "fresh", "stale"}]
  BY DEF Inv, TypeOK, rows
<1> QED BY <1>3, <1>4, <1>5, <1>6, LocalKeeps DEF rows

LEMMA ApplyKeeps ==
  ASSUME Inv, NEW w \in Workers, Apply(w)
  PROVE  Inv'
<1> DEFINE p == run[w]
<1>1. p \in Process /\ p.pc = "apply" /\ faults' \in 0..MaxFaults
  BY ProcessIsOpen DEF Inv, TypeOK, Apply, At
<1>2. CASE MarkFailed(w)
  BY <1>1, <1>2, FailKeeps
<1>3. ASSUME UNCHANGED rows, NEW m \in 0..1,
             Goto(w, [p EXCEPT !.pc = "finish", !.dirty.made = m,
                               !.dirty.rolled = Applied(p)])
      PROVE  Inv'
  <2> DEFINE q == [p EXCEPT !.pc = "finish", !.dirty.made = m,
                            !.dirty.rolled = Applied(p)]
  <2>1. Applied(p) \in BOOLEAN
    BY DEF Applied
  <2>2. q \in Process /\ q.pc = "finish" /\ q.args = p.args
    BY <1>1, <2>1 DEF Process
  <2>3. q.dirty = [p.dirty EXCEPT !.rolled = Applied(p), !.made = m]
    BY <1>1 DEF Process
  <2> HIDE DEF q
  <2>4. Goto(w, q)
    BY <1>3 DEF q
  <2> QED BY <1>1, <1>3, <2>2, <2>3, <2>4, WritesKeep
<1> QED BY <1>2, <1>3 DEF Apply

LEMMA FinishKeeps ==
  ASSUME Inv, NEW w \in Workers, Finish(w)
  PROVE  Inv'
<1>1. [c \in Chats |-> IF c \in run[w].chat THEN "none" ELSE state[c]]
        \in [Chats -> {"none", "fresh", "stale"}]
  BY DEF Inv, TypeOK
<1>2. run[w].pc # "off" /\ faults' \in 0..MaxFaults
  BY DEF Finish, At, Inv, TypeOK
<1> QED BY <1>1, <1>2, EndKeeps DEF Finish

LEMMA FaultType == ASSUME Inv, Fault PROVE faults' \in 0..MaxFaults
BY RunAssumption DEF Inv, TypeOK, Fault

\* An exception leaves the writes of the session as they are.
LEMMA RaiseKeeps ==
  ASSUME Inv, NEW w \in Workers, Raise(w)
  PROVE  Inv'
<1> DEFINE p == run[w]
           q(d) == [p EXCEPT !.pc = "next", !.chat = {}, !.left = 0, !.dirty = d]
<1>1. p \in Process /\ p.pc # "off" /\ faults' \in 0..MaxFaults /\ UNCHANGED rows
  BY ProcessIsOpen, FaultType DEF Inv, Raise
<1>2. 0 \in 0..Calls
  BY RunAssumption DEF Calls
<1>3. ASSUME NEW d \in [wrote : SUBSET Chats, rolled : BOOLEAN, made : 0..1]
      PROVE  q(d) \in Process /\ q(d).pc = "next" /\ q(d).args = p.args /\ q(d).dirty = d
  <2>1. [p EXCEPT !.pc = "next", !.chat = {}, !.dirty = d] \in Process
    BY <1>1 DEF Process
  <2>2. q(d) \in Process
    BY <1>1, <1>2, <2>1 DEF Process
  <2> QED BY <1>1, <2>2 DEF Process
<1>4. p.dirty \in [wrote : SUBSET Chats, rolled : BOOLEAN, made : 0..1]
  BY <1>1 DEF Process
<1>5. CASE Goto(w, q(p.dirty))
  <2>1. state' \in [Chats -> {"none", "fresh", "stale"}] /\ UNCHANGED <<analysed, passes>>
    BY <1>1 DEF rows, Inv, TypeOK
  <2>2. q(p.dirty) \in Process /\ q(p.dirty).pc = "next" /\ q(p.dirty).args = p.args
        /\ q(p.dirty).dirty = p.dirty
    BY <1>3, <1>4
  <2> HIDE DEF q
  <2> QED BY <1>1, <1>5, <2>1, <2>2, SameWritesKeep
<1>6. ASSUME NEW m \in 0..1, p.pc = "apply",
             Goto(w, q([p.dirty EXCEPT !.rolled = Applied(p), !.made = m]))
      PROVE  Inv'
  <2> DEFINE d == [p.dirty EXCEPT !.rolled = Applied(p), !.made = m]
  <2>1. Applied(p) \in BOOLEAN
    BY DEF Applied
  <2>2. d \in [wrote : SUBSET Chats, rolled : BOOLEAN, made : 0..1]
    BY <1>4, <2>1
  <2>3. q(d) \in Process /\ q(d).pc = "next" /\ q(d).args = p.args /\ q(d).dirty = d
    BY <1>3, <2>2
  <2> HIDE DEF q
  <2> QED BY <1>1, <1>6, <2>3, WritesKeep
<1> QED BY <1>5, <1>6 DEF Raise, At

LEMMA SigintKeeps ==
  ASSUME Inv, NEW w \in Workers, Sigint(w)
  PROVE  Inv'
<1> DEFINE q == [run[w] EXCEPT !.sigint = TRUE]
<1>1. run[w] \in Process /\ run[w].pc # "off" /\ faults' \in 0..MaxFaults
  BY ProcessIsOpen, FaultType DEF Inv, Sigint
<1>2. q \in Process /\ q.pc = run[w].pc /\ q.args = run[w].args
      /\ q.dirty = run[w].dirty /\ q.chat = run[w].chat /\ q.left = run[w].left
  BY <1>1 DEF Process
<1>3. Goto(w, q) /\ UNCHANGED rows
  BY DEF Sigint
<1> HIDE DEF q
<1>4. state' \in [Chats -> {"none", "fresh", "stale"}] /\ UNCHANGED <<analysed, passes>>
  BY <1>3 DEF Inv, TypeOK, rows
<1> QED BY <1>1, <1>2, <1>3, <1>4, SameWritesKeep

(* ------------------------------ theorems ------------------------------- *)

LEMMA InitInv == Init => Inv
BY RunAssumption DEF Init, Inv, TypeOK, KeysDisjoint, MadeOnce, HoldsKey, CallsLeft,
   AppliedOnce, Off

LEMMA NextInv == Inv /\ [Next]_vars => Inv'
<1> SUFFICES ASSUME Inv, [Next]_vars PROVE Inv'
  OBVIOUS
<1>1. CASE UNCHANGED vars
  BY <1>1 DEF vars, Inv, TypeOK, KeysDisjoint, MadeOnce, HoldsKey, CallsLeft, AppliedOnce
<1>2. ASSUME NEW c \in Chats, TenMinutesPass(c) PROVE Inv'
  BY <1>2 DEF TenMinutesPass, Inv, TypeOK, KeysDisjoint, MadeOnce, HoldsKey, CallsLeft,
              AppliedOnce
<1>3. ASSUME NEW w \in Workers, NEW a \in Commands, CheckRunning(w, a) PROVE Inv'
  BY <1>3, CheckKeeps
<1>4. ASSUME NEW w \in Workers, Step(w) PROVE Inv'
  BY <1>4, SelectKeeps, NextChatKeeps, LoadKeeps, CallKeeps, RecordKeeps, ApplyKeeps,
     FinishKeeps DEF Step
<1>5. ASSUME NEW w \in Workers, CallFails(w) PROVE Inv'
  BY <1>5, FailKeeps, FaultType DEF CallFails, At
<1>6. ASSUME NEW w \in Workers, Raise(w) PROVE Inv'
  BY <1>6, RaiseKeeps
<1>7. ASSUME NEW w \in Workers, Crash(w) PROVE Inv'
  BY <1>7, GoneKeeps, FaultType DEF Crash
<1>8. ASSUME NEW w \in Workers, Sigint(w) PROVE Inv'
  BY <1>8, SigintKeeps
<1> QED BY <1>1, <1>2, <1>3, <1>4, <1>5, <1>6, <1>7, <1>8 DEF Next

\* The variables of a run of the analysis have their types.
THEOREM TypeCorrect == Spec => []TypeOK
<1>1. Inv => TypeOK
  BY DEF Inv
<1> QED BY <1>1, InitInv, NextInv, PTL DEF Spec

\* However many processes work on a chat at once, and whatever fails on the way, a
\* version of the analyzer creates the rows of a chat once (analysis/run.py,
\* apply_analysis_to_customer).
THEOREM NeverAppliedTwice == Spec => []AppliedOnce
<1>1. Inv => AppliedOnce
  BY DEF Inv
<1> QED BY <1>1, InitInv, NextInv, PTL DEF Spec

=============================================================================
