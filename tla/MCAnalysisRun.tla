----------------------------- MODULE MCAnalysisRun -----------------------------
(* Two processes, two chats, started with --all or --all --force.          *)
EXTENDS AnalysisRun, Sequences, FiniteSets

X == INSTANCE Extract WITH
       None <- "none", OperatorNames <- {"operator"},
       ConfidentThreshold <- 7, ConfidentMargin <- 2, DiscardThreshold <- 4, TopN <- 2,
       MinWindow <- 1, MaxWindow <- 2, Threshold <- 2

MCCommands == {[sel |-> Chats, ver |-> v, force |-> f, apply |-> TRUE]
                 : v \in Versions, f \in BOOLEAN}

SeqsUpTo(S, n) == UNION {[1..k -> S] : k \in 0..n}

\* Chunks take the messages apart, in their order and without leaving one out: the
\* i-th message is in chunk (i - 1) \div size + 1, each chunk but the last is full.
ASSUME ChunksPartition ==
  \A n \in 0..7, size \in 1..4 :
    LET s == [i \in 1..n |-> i]
        chunks == X!Split(s, size)
    IN  /\ \A i \in 1..n : \E k \in DOMAIN chunks :
             k = (i - 1) \div size + 1 /\ chunks[k][i - (k - 1) * size] = i
        /\ \A k \in DOMAIN chunks :
             Len(chunks[k]) = (IF k < Len(chunks) THEN size ELSE n - (k - 1) * size)
        /\ n > 0 => chunks[Len(chunks)] # <<>>

\* Every text of the client is in one window, in the order of sending.
ASSUME ClientIsReadOnce ==
  \A M \in {S \in SUBSET [at : 1..2, text : {"none", "t"}, operator : BOOLEAN, long : {TRUE}]
                : Cardinality(S) <= 4} :
    LET mine == {m \in M : ~m.operator /\ m.text = "t"}
    IN  \A s \in {t \in SeqsUpTo(M, 4) : X!Loaded(M, t)} :
          LET windows == X!Windows(s, 2)
              seen == {<<k, i>> \in (DOMAIN windows) \X (1..2) : i \in DOMAIN windows[k]}
          IN  /\ \A m \in mine : Cardinality({x \in seen : windows[x[1]][x[2]] = m}) = 1
              /\ \A x, y \in seen : x[1] < y[1] =>
                   windows[x[1]][x[2]].at <= windows[y[1]][y[2]].at

\* A client's detail that some window saw is kept, but for a name that comes after
\* the operator's: then there is none.
ASSUME IdentityIsKept ==
  \A results \in SeqsUpTo([{"name", "phone"} -> {"none", "client", "operator"}], 3) :
    LET saw(f) == {results[i][f] : i \in DOMAIN results} \ {"none"}
        id == X!IdentityOf(results, {"name", "phone"})
    IN  /\ IF saw("phone") = {} THEN id["phone"] = "none" ELSE id["phone"] \in saw("phone")
        /\ saw("name") = {"client"} => id["name"] = "client"
        /\ id["name"] \in {"none", "client"}

\* Whatever the model answers, the verdict names candidates alone, one if it is
\* confident and at least one if it is ambiguous; without being asked, only a
\* product that is ahead of the whole catalogue is taken.
ASSUME VerdictsAreSound ==
  LET products == 1..3
      answers == [decision : {"confident_match", "ambiguous", "other"},
                  product : 0..3, ids : SUBSET (0..3)]
  IN  \A score \in [products -> {3, 4, 6, 7, 8, 9}] :
        \A s \in {t \in SeqsUpTo(products, 2) : X!Candidates(score, t)} :
          /\ \A a \in answers :
               LET d == X!Decision(score, s, a)
               IN  /\ \A p \in d.products : score[p] >= 4
                   /\ d.status = "confident_match" => Cardinality(d.products) = 1
                   /\ d.status = "ambiguous" => d.products # {}
                   /\ d.status = "not_found" => d.products = {}
          /\ X!IsConfident(score, s) =>
               \A p \in products \ {s[1]} : score[s[1]] - score[p] >= 2

\* What is kept of an answer does not contain a phrase of the length found, or of a
\* greater one, that repeats; an answer without a loop is kept whole.
ASSUME PrefixHasNoLongerLoop ==
  \A t \in SeqsUpTo({"a", "b"}, 7) :
    LET kept == X!BeforeLoop(t)
    IN  IF X!Loops(t) = {} THEN kept = t
        ELSE \A l \in X!Loops(kept) : l[1] < X!TheLoop(t)[1]
=============================================================================
