-------------------------------- MODULE Extract --------------------------------
(***************************************************************************)
(* The pure parts of the analysis pipeline: the chunks of a chat, the      *)
(* identity put together from windows of it, the verdict on a line of an   *)
(* order, and the loops in what the vision model says.                     *)
(***************************************************************************)
EXTENDS Integers, Sequences, FiniteSets

CONSTANTS None,
          OperatorNames,                                   \* OPERATOR_NAME_VARIANTS
          ConfidentThreshold, ConfidentMargin, DiscardThreshold, TopN,
          MinWindow, MaxWindow, Threshold                  \* of the loop detector

(* -------------------------------- chunks ------------------------------- *)

\* load_chat_messages: by the time of sending, those of one time in any order.
Loaded(M, s) ==
  LET texts == {m \in M : m.text # None}
  IN  /\ Len(s) = Cardinality(texts)
      /\ {s[i] : i \in DOMAIN s} = texts
      /\ \A i, j \in DOMAIN s : i < j => s[i].at <= s[j].at

\* split_into_chunks
Split(s, size) ==
  [k \in 1..((Len(s) + size - 1) \div size) |->
     SubSeq(s, (k - 1) * size + 1, IF k * size < Len(s) THEN k * size ELSE Len(s))]

(* ------------------------------- identity ------------------------------ *)

\* What a long message of the operator says is not about the client.
Kept(s) == SelectSeq(s, LAMBDA m : ~(m.operator /\ m.long))

\* Windows of IDENTITY_WINDOW_SIZE over all chunks.
Windows(chunks, size) == Split(Kept(chunks), size)

\* _merge_identities: per field the first window with a value.  A window whose call
\* fails has none.
FirstOf(results, f) ==
  LET having == {i \in DOMAIN results : results[i][f] # None}
  IN  IF having = {} THEN None
      ELSE results[CHOOSE i \in having : \A j \in having : i <= j][f]

\* The operator's own name is taken out of what was merged.
IdentityOf(results, fields) ==
  [f \in fields |-> LET v == FirstOf(results, f)
                    IN  IF f = "name" /\ v \in OperatorNames THEN None ELSE v]

(* ------------------------------- matching ------------------------------ *)

\* fuzzy_candidates: the best TopN products by their score, best first.
Candidates(score, s) ==
  LET near == {p \in DOMAIN score : score[p] >= DiscardThreshold}
      chosen == {s[i] : i \in DOMAIN s}
  IN  /\ chosen \subseteq near
      /\ Len(s) = (IF Cardinality(near) < TopN THEN Cardinality(near) ELSE TopN)
      /\ \A i, j \in DOMAIN s : i < j => s[i] # s[j] /\ score[s[i]] >= score[s[j]]
      /\ \A p \in chosen, q \in near \ chosen : score[p] >= score[q]

\* _is_confident
IsConfident(score, s) ==
  /\ s # <<>> /\ score[s[1]] >= ConfidentThreshold
  /\ Len(s) > 1 => score[s[1]] - score[s[2]] >= ConfidentMargin

NotFound == [status |-> "not_found", products |-> {}]

\* _parse_qwen_verdict: what is not among the candidates does not count.  An answer
\* that is no JSON is another decision.
Verdict(answer, pool) ==
  CASE answer.decision = "confident_match" ->
         IF answer.product \in pool
         THEN [status |-> "confident_match", products |-> {answer.product}] ELSE NotFound
    [] answer.decision = "ambiguous" ->
         IF answer.ids \cap pool # {}
         THEN [status |-> "ambiguous", products |-> answer.ids \cap pool] ELSE NotFound
    [] OTHER -> NotFound

\* decide_match: the model is asked only about candidates that leave a doubt.
Decision(score, s, answer) ==
  IF s = <<>> THEN NotFound
  ELSE IF IsConfident(score, s) THEN [status |-> "confident_match", products |-> {s[1]}]
  ELSE Verdict(answer, {s[i] : i \in DOMAIN s})

(* --------------------------------- loops ------------------------------- *)

\* n tokens from i on follow Threshold times.
RepeatsAt(t, n, i) ==
  LET end == i + n * Threshold - 1
  IN  end <= Len(t) /\ \A k \in i..(end - n) : t[k] = t[k + n]

Loops(t) == {l \in (MinWindow..MaxWindow) \X DOMAIN t : RepeatsAt(t, l[1], l[2])}

\* detect_repetition_loop: the longest phrase, and where it first repeats.
TheLoop(t) ==
  CHOOSE l \in Loops(t) :
    \A k \in Loops(t) : l[1] > k[1] \/ (l[1] = k[1] /\ l[2] <= k[2])

\* The beginning that extract_image keeps if it is long enough.
BeforeLoop(t) == IF Loops(t) = {} THEN t ELSE SubSeq(t, 1, TheLoop(t)[2] - 1)
=============================================================================
