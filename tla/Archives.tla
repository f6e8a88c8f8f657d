-------------------------------- MODULE Archives --------------------------------
(***************************************************************************)
(* ArchiveManager and ArchiveRegistry as operators on an archive record:   *)
(* where a candidate is routed when it is given a fate, what the removal   *)
(* before the routing leaves behind, which candidate may be the answer.    *)
(* Novelty, rarity, mechanism, latent and patch lanes hold copies nothing  *)
(* below reads, and are left out; they are cleared and filled with the     *)
(* others.  Scores are a profile of each candidate, fixed for an instance. *)
(***************************************************************************)
EXTENDS Naturals, Sequences, FiniteSets, FiniteSetsExt, SequencesExt

CONSTANTS Cands,         \* candidate ids, numbered in the order of their births
          Niches,        \* the niches of each candidate, the keys of elites_by_niche
          Cell,          \* its descriptor cell, the key of cell_elites
          Final,         \* candidate_final_quality
          Quality,       \* max of its final and search quality
          Root,          \* the root of its lineage, the target of constraint records
          Frontier,      \* candidates that are a verified frontier while dormant
          Delta,         \* candidates with an obligation or an evidence delta
          Negative,      \* those whose source binding admits negative_archive_only
          SourceBlocked  \* those bound to an invented or unresolved source

ASSUME ArchivesAssumption ==
    /\ IsFiniteSet(Cands) /\ Cands = 1 .. Cardinality(Cands)
    /\ {Final, Quality} \subseteq [Cands -> Nat] /\ \A c \in Cands : Final[c] <= Quality[c]
    /\ DOMAIN Niches = Cands /\ DOMAIN Cell = Cands /\ DOMAIN Root = Cands
    /\ Frontier \union Delta \union Negative \union SourceBlocked \subseteq Cands

Terminal == {"culled", "failed"}
Answering == {"active", "elite"}
Fates == Answering \union Terminal \union {"incubating", "dormant", "auxiliary"}

\* sound: nothing blocks it; flawed: evidence or verification blocks it as an answer;
\* broken: structurally blocked.
Verdicts == {"sound", "flawed", "broken"}

\* The mutable part of a candidate object or of a stored copy of it.
Bodies == [fate: Fates, verdict: Verdicts, measured: BOOLEAN, new: BOOLEAN]
Absent == [fate |-> "absent", verdict |-> "broken", measured |-> FALSE, new |-> FALSE]
Held(f) == {c \in Cands : f[c] # Absent}

Blocked(b) == b.verdict = "broken"
Passed(b) == b.verdict = "sound"
NoEntry == [id |-> 0, body |-> Absent]

EmptyArchives ==
    [fate    |-> [c \in Cands |-> "none"],
     answer  |-> [c \in Cands |-> Absent],
     dormant |-> [c \in Cands |-> Absent],
     aux     |-> {}, failure |-> {}, tomb |-> {},
     elite   |-> [n \in UNION Range(Niches) |-> NoEntry],
     cell    |-> [n \in Range(Cell) |-> NoEntry],
     frozen  |-> {}]

Beats(c, entry) == entry = NoEntry \/ Quality[c] >= Quality[entry.id]

\* QualityDiversityArchive.update: the newcomer takes a niche or a cell it ties.
UpdateDiversity(A, c, b) ==
    LET stored == [id |-> c, body |-> [b EXCEPT !.new = FALSE]] IN
    [A EXCEPT !.elite = [n \in DOMAIN @ |-> IF n \in Niches[c] /\ Beats(c, @[n]) THEN stored
                                            ELSE @[n]],
              !.cell[Cell[c]] = IF Beats(c, @) THEN stored ELSE @]

\* A terminal candidate, or one bound to a negative source, goes to the failure lane alone.
Route(A, c, b) ==
    LET copy == [b EXCEPT !.new = FALSE]
        D == UpdateDiversity(A, c, b)
    IN  IF b.fate \in Terminal \/ c \in Negative
        THEN [A EXCEPT !.failure = @ \union {c}]
        ELSE [D EXCEPT !.answer[c]  = IF b.fate = "elite" /\ c \notin SourceBlocked
                                      THEN copy ELSE @,
                       !.dormant[c] = IF b.fate = "dormant" THEN copy ELSE @,
                       !.aux        = IF b.fate = "auxiliary" THEN @ \union {c} ELSE @]

\* Stale memberships are removed before a candidate is routed anew; cell_elites are not.
RemoveCandidate(A, c) ==
    [A EXCEPT !.answer[c] = Absent, !.dormant[c] = Absent, !.aux = @ \ {c},
              !.failure = @ \ {c}, !.tomb = @ \ {c},
              !.elite = [n \in DOMAIN @ |-> IF @[n].id = c THEN NoEntry ELSE @[n]]]

\* A structurally blocked failure without an evidence delta freezes its lineage
\* (lineage_freeze), for good.  It has a failure context: who is marked as failed is given a
\* lesson in the same step (reproduction.py).  Nothing below reads the lesson records.
RecordConstraints(A, c, b) ==
    IF b.fate \in Terminal /\ Blocked(b) /\ c \notin Delta THEN [A EXCEPT !.frozen = @ \union {Root[c]}] ELSE A

\* Mutant: the lane of the newest fate is added to the lanes the candidate is in.
UpdateOneInPlace(A, c, b) ==
    LET I == [A EXCEPT !.fate[c] = b.fate]
        T == IF b.fate \in Terminal THEN [I EXCEPT !.tomb = @ \union {c}] ELSE I
    IN  RecordConstraints(Route(T, c, b), c, b)

\* One assignment of ArchiveManager.update, b being the body with its new fate.
UpdateOne(A, c, b) ==
    LET R == RemoveCandidate([A EXCEPT !.fate[c] = b.fate], c)
        T == IF b.fate \in Terminal THEN [R EXCEPT !.tomb = @ \union {c}] ELSE R
    IN  RecordConstraints(Route(T, c, b), c, b)

\* ArchiveManager.update: the assignments in order, each removal seeing the routings before
\* it.  bodies holds the candidates with the fates assigned to them.
Update(A, bodies, ids) ==
    LET upTo[c \in {0} \union Cands] ==
            IF c = 0 THEN A
            ELSE IF c \in ids THEN UpdateOne(upTo[c - 1], c, bodies[c]) ELSE upTo[c - 1]
    IN  upTo[Cardinality(Cands)]

\* is_final_answer_eligible: both records of the fate must allow it.
Eligible(A, c, b) ==
    LET indexed == IF A.fate[c] = "none" THEN b.fate ELSE A.fate[c]
    IN  /\ Passed(b)
        /\ \/ {indexed, b.fate} \subseteq Answering
           \/ {indexed, b.fate} = {"dormant"} /\ c \in Frontier

\* The body best_answer_candidate judges: the live object before the archived copy.
JudgedBody(A, live, c) ==
    IF live[c] # Absent THEN live[c]
    ELSE IF A.answer[c] # Absent THEN A.answer[c]
    ELSE (CHOOSE e \in Range(A.elite) : e.id = c).body

\* Candidates with a copy in the answer lane or in a niche.
Archived(A) == Held(A.answer) \union ({e.id : e \in Range(A.elite)} \ {0})

AnswerPool(A, live) == {c \in Archived(A) : Eligible(A, c, JudgedBody(A, live, c))}

\* What best_answer_candidate may return, 0 for none: the first of the best by final quality
\* in the order of the answer lane and then of the niches, which is left open.
BestAnswers(A, live) ==
    LET answers == AnswerPool(A, live)
        best == {c \in answers : \A d \in answers : Final[d] <= Final[c]}
    IN  IF answers = {} THEN {0} ELSE best

\* Some answer is at least as good as b.
AsGood(A, live, b) == \E d \in BestAnswers(A, live) : d # 0 /\ Final[d] >= Final[b]

\* Of a frozen lineage, only a candidate that is not structurally blocked, or that has an
\* evidence delta, is reactivated.
ReactivationAllowed(A, c) == Root[c] \in A.frozen => ~Blocked(A.dormant[c]) \/ c \in Delta

Reactivable(A) == {c \in Held(A.dormant) : ReactivationAllowed(A, c)}

\* reactivate_dormant: the candidate leaves every lane and its index says active.
Reactivate(A, c) ==
    [arch |-> [RemoveCandidate(A, c) EXCEPT !.fate[c] = "active"],
     body |-> [A.dormant[c] EXCEPT !.fate = "active"]]

\* The copies that may re-enter as parents: from the niches and, unlike the answers, from
\* the cells, when the copy as stored is not structurally blocked.
StoredElites(A, live) ==
    {e \in Range(A.elite) \union Range(A.cell) :
        e # NoEntry /\ live[e.id] = Absent /\ ~Blocked(e.body)}

-----------------------------------------------------------------------------
(* What the proofs need to know of the archives.                           *)

Copies == Bodies \union {Absent}
Entries == [id: Cands, body: Bodies] \union {NoEntry}

ArchiveStates ==
    [fate: [Cands -> Fates \union {"none"}], answer: [Cands -> Copies], dormant: [Cands -> Copies],
     aux: SUBSET Cands, failure: SUBSET Cands, tomb: SUBSET Cands,
     elite: [UNION Range(Niches) -> Entries], cell: [Range(Cell) -> Entries],
     frozen: SUBSET Range(Root)]

\* The lanes of a candidate, but for the niches, are in A what they are in B.
SameLanes(A, B, c) ==
    /\ A.fate[c] = B.fate[c] /\ A.answer[c] = B.answer[c] /\ A.dormant[c] = B.dormant[c]
    /\ c \in A.aux <=> c \in B.aux
    /\ c \in A.failure <=> c \in B.failure
    /\ c \in A.tomb <=> c \in B.tomb

\* The lanes of a candidate in B are those of its fate; who ends or sleeps is on record.
LanesOf(B, c, fate) ==
    /\ B.fate[c] = fate
    /\ B.answer[c] # Absent => fate = "elite"
    /\ B.dormant[c] # Absent => fate = "dormant"
    /\ c \in B.aux => fate = "auxiliary"
    /\ c \in B.tomb <=> fate \in Terminal
    /\ fate \in Terminal \union {"dormant"} => c \in B.failure \/ B.dormant[c] # Absent

\* The lanes of all candidates are those of their newest fates.
LanesAgree(A) ==
    /\ \A c \in Held(A.answer) : A.fate[c] = "elite"
    /\ \A c \in Held(A.dormant) : A.fate[c] = "dormant"
    /\ \A c \in A.aux : A.fate[c] = "auxiliary"
    /\ A.tomb = {c \in Cands : A.fate[c] \in Terminal}
    /\ \A e \in Range(A.elite) : e # NoEntry => A.fate[e.id] \notin Terminal

\* B is what A becomes when the candidates of ids are routed with the fates of bodies.
Routed(A, B, bodies, ids) ==
    /\ B \in ArchiveStates
    /\ \A c \in Cands \ ids : SameLanes(A, B, c)
    /\ \A c \in ids : LanesOf(B, c, bodies[c].fate)
    /\ \A n \in DOMAIN B.elite :
          LET e == B.elite[n]
          IN  \/ e = NoEntry
              \/ e.id \in ids /\ bodies[e.id].fate \notin Terminal
              \/ e = A.elite[n] /\ e.id \notin ids

\* The copies of one candidate in the niches are the same.
CopiesAgree(A) ==
    \A n, m \in DOMAIN A.elite : A.elite[n].id = A.elite[m].id => A.elite[n] = A.elite[m]

\* The niches when A becomes B by that routing: only who is routed leaves or takes one, and
\* takes it from nobody better.
NichesRouted(A, B, bodies, ids) ==
    \A n \in DOMAIN A.elite :
        LET a == A.elite[n]
            e == B.elite[n]
        IN  \/ e = NoEntry /\ (a = NoEntry \/ a.id \in ids)
            \/ e = a /\ a.id \notin ids
            \/ /\ e.id \in ids /\ bodies[e.id].fate \notin Terminal
               /\ e = [id |-> e.id, body |-> [bodies[e.id] EXCEPT !.new = FALSE]]
               /\ a.id \notin {0} \union ids => Quality[e.id] >= Quality[a.id]
=============================================================================
