-------------------------------- MODULE Harvest --------------------------------
(***************************************************************************)
(* CandidateHarvester and CandidateDeduper as operators on a harvest: what *)
(* an answer adds to it, when it stops, and what a window of concurrent    *)
(* requests makes of it.  An answer is a sequence of candidates or an      *)
(* error of the model boundary; a candidate is known by its text.  The     *)
(* reservoir of rejected seeds is a report and is left out.                *)
(***************************************************************************)
EXTENDS Integers, FiniteSets, SequencesExt

CONSTANTS Texts,       \* what a model may write: 1 .. n
          Meaning,     \* the semantic signature of each text
          Artifact,    \* the signature of its materialised artifact, 0 for none
          Qualified,   \* the texts relevant enough to count for the target
          MinBatches, Patience

ASSUME HarvestAssumption ==
    /\ IsFiniteSet(Texts) /\ Texts = 1 .. Cardinality(Texts)
    /\ Meaning \in [Texts -> Nat] /\ Artifact \in [Texts -> Nat] /\ Qualified \subseteq Texts
    /\ {MinBatches, Patience} \subseteq Nat \ {0}

Waiting == [items |-> <<>>, error |-> "waiting"]
Answer(items) == [items |-> items, error |-> "none"]
Failure(kind) == [items |-> <<>>, error |-> kind]   \* "fault", or "quota" when is_quota_error

\* target: how many qualified candidates end the harvest; fatal: the error that did.
NewHarvest(target) ==
    [target |-> target, accepted |-> <<>>, rejected |-> <<>>, failed |-> {}, batches |-> 0,
     stop |-> "none", fatal |-> "none", streak |-> 0]

SameArtifact(c, d) == Artifact[c.text] # 0 /\ Artifact[c.text] = Artifact[d.text]
Alike(c, d) == SameArtifact(c, d) \/ Meaning[c.text] = Meaning[d.text]
Differ(S) == \A c, d \in S : c # d => ~Alike(c, d)

\* CandidateDeduper.__post_init__, for every order of the list: a candidate like one that is
\* registered is refused, and registers neither its meaning nor its artifact.
Registered(S) ==
    {R \in SUBSET S : Differ(R) /\ \A c \in S \ R : \E d \in R : Alike(c, d)}

\* CandidateDeduper.add for one candidate, with the record a refusal leaves; known are the
\* candidates registered before the harvest.
Take(h, c, known) ==
    LET seen == known \union Range(h.accepted)
    IN  IF \E d \in seen : Alike(c, d)
        THEN [h EXCEPT !.rejected = Append(@, [candidate |-> c,
                                               artifact |-> \E d \in seen : SameArtifact(c, d)])]
        ELSE [h EXCEPT !.accepted = Append(@, c)]

\* Mutant: an answer is compared with what its request was told, not with what was taken since.
TakeAllAtOnce(h, items, known) ==
    FoldLeft(LAMBDA g, c : LET seen == known IN
                 IF \E d \in seen : Alike(c, d) THEN g ELSE [g EXCEPT !.accepted = Append(@, c)],
             h, items)

\* _apply_batch: one candidate after the other.
TakeAll(h, items, known) ==
    LET upTo[k \in 0 .. Len(items)] ==
            IF k = 0 THEN h ELSE Take(upTo[k - 1], items[k], known)
    IN  upTo[Len(items)]

QualifiedCount(h) == Cardinality({i \in DOMAIN h.accepted : h.accepted[i].text \in Qualified})

\* A batch that failed is on record; a quota error is kept as the reason to stop.
Failed(h, index, kind) ==
    [h EXCEPT !.batches = @ + 1, !.failed = @ \union {index},
              !.fatal = IF kind = "quota" /\ @ = "none" THEN kind ELSE @]

\* A batch that was answered, and whether it reached the target or gained too little.
Harvested(h, items, known) ==
    LET took == [TakeAll(h, items, known) EXCEPT !.batches = @ + 1]
        gained == QualifiedCount(took) > QualifiedCount(h)
        streak == IF gained THEN 0 ELSE h.streak + 1
    IN  IF took.batches >= MinBatches /\ QualifiedCount(took) >= h.target
        THEN [took EXCEPT !.stop = "target_reached"]
        ELSE [took EXCEPT !.streak = streak,
                          !.stop = IF streak >= Patience THEN "low_gain_patience" ELSE @]

\* Mutant: the loop is left as soon as the target is reached.
ConsumeToTarget(h, first, replies, known) ==
    FoldLeft(LAMBDA g, k :
                 IF g.stop # "none" THEN g
                 ELSE IF replies[k].error # "none" THEN Failed(g, first + k, replies[k].error)
                 ELSE Harvested(g, replies[k].items, known),
             h, [k \in DOMAIN replies |-> k])

\* One answer of a window; low gain leaves the rest unread, a reached target does not.
Read(h, index, reply, known) ==
    IF h.stop = "low_gain_patience" THEN h
    ELSE IF reply.error # "none" THEN Failed(h, index, reply.error)
    ELSE Harvested(h, reply.items, known)

\* The loop over the answers of a window, in the order of the requests.
Consume(h, first, replies, known) ==
    LET upTo[k \in 0 .. Len(replies)] ==
            IF k = 0 THEN h ELSE Read(upTo[k - 1], first + k, replies[k], known)
    IN  upTo[Len(replies)]

\* Mutant: a window in which every request failed is followed by the next one.
WindowClosedHopefully(h, first, replies, known) ==
    LET g == Consume(h, first, replies, known)
    IN  IF g.fatal # "none" THEN [g EXCEPT !.stop = "model_error"] ELSE g

\* harvest for one window: a fatal error overrides a target, and a window without one answer
\* is fatal by its first error.
WindowClosed(h, first, replies, known) ==
    LET g == Consume(h, first, replies, known)
        answered == \E k \in DOMAIN replies : replies[k].error = "none"
    IN  IF g.fatal # "none" THEN [g EXCEPT !.stop = "model_error"]
        ELSE IF answered \/ g.stop # "none" THEN g
        ELSE [g EXCEPT !.stop = "model_error", !.fatal = replies[1].error]

-----------------------------------------------------------------------------
(* What the proofs need to know of a harvest.                              *)

RejectedOf(h) == {r.candidate : r \in Range(h.rejected)}
ChildrenOf(h) == Range(h.accepted) \union RejectedOf(h)

\* What was accepted is like nothing known and like nothing else that was accepted.
AreApart(h, known) ==
    /\ \A i, j \in DOMAIN h.accepted : i # j => ~Alike(h.accepted[i], h.accepted[j])
    /\ \A c \in Range(h.accepted), d \in known : ~Alike(c, d)

IsHarvest(h) ==
    /\ h = [target |-> h.target, accepted |-> h.accepted, rejected |-> h.rejected,
            failed |-> h.failed, batches |-> h.batches, stop |-> h.stop, fatal |-> h.fatal,
            streak |-> h.streak]
    /\ h.target \in Int /\ h.batches \in Nat /\ h.streak \in Nat
    /\ h.accepted \in Seq(Range(h.accepted)) /\ h.rejected \in Seq(Range(h.rejected))

\* What grows with every answer that does not end a harvest.
Progress(h) == Patience * QualifiedCount(h) + h.streak
=============================================================================
