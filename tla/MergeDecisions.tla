--------------------------- MODULE MergeDecisions ---------------------------
(***************************************************************************)
(* The decisions of local reviewers on pairs of problems that may be the   *)
(* same: MergeDecisionService (integration/persistence.py), the triggers   *)
(* of merge_candidates and merge_decision_events (migrations/versions/     *)
(* b71df7c19a42), and what _accepted_equivalence (integration/queries.py)  *)
(* makes of them. The candidates themselves are found stored: no code      *)
(* inserts them. A step is one statement of a reviewer's transaction, or   *)
(* its commit.                                                             *)
(***************************************************************************)
EXTENDS Naturals, Sequences, FiniteSets

CONSTANTS
    Problem,        \* canonical problems
    Candidate,      \* pairs of them, as sets
    Reviewer        \* the decisions that may be in progress at a time

ASSUME DecisionsAssumption ==
    /\ IsFiniteSet(Problem)
    /\ \A c \in Candidate : c \subseteq Problem /\ Cardinality(c) = 2

VARIABLES
    verdict,        \* merge_candidates.status
    decisions,      \* merge_decision_events of each candidate, by decision_number
    review          \* the transaction of each reviewer

mergeVars == <<verdict, decisions, review>>

NoReview == [step |-> "none", candidate |-> {}, action |-> "NONE", from |-> "NONE", number |-> 0]

DecisionsInit ==
    /\ verdict = [c \in Candidate |-> "PENDING"]
    /\ decisions = [c \in Candidate |-> <<>>]
    /\ review = [p \in Reviewer |-> NoReview]

Target == [ACCEPT |-> "ACCEPTED", REJECT |-> "REJECTED", REVERSE |-> "REVERSED"]

\* What an action must find: the rule of decide, and the check valid_transition of the table.
RequiredStatus(action) == IF action = "REVERSE" THEN "ACCEPTED" ELSE "PENDING"

LockedCandidate(c) == \E p \in Reviewer : review[p].candidate = c /\ review[p].step # "failed"

\* Bug: the candidate is read and not locked.
ReadableUnlocked(c) == TRUE

Readable(c) == ~ LockedCandidate(c)

\* decide reads the candidate FOR UPDATE, and refuses an action its status does not allow.
ReadCandidate(p, c, action) ==
    /\ review[p] = NoReview /\ Readable(c)
    /\ verdict[c] = RequiredStatus(action)
    /\ review' = [review EXCEPT ![p] = [step |-> "read", candidate |-> c, action |-> action,
                                        from |-> verdict[c], number |-> 0]]
    /\ UNCHANGED <<verdict, decisions>>

NumberDecision(p) ==
    /\ review[p].step = "read"
    /\ review' = [review EXCEPT ![p].step = "numbered",
                                ![p].number = Len(decisions[review[p].candidate]) + 1]
    /\ UNCHANGED <<verdict, decisions>>

\* gapforge_validate_merge_decision_insert: the event must be the next and must start
\* from the status the candidate has.
Insertable(r) ==
    /\ r.number = Len(decisions[r.candidate]) + 1
    /\ r.from = verdict[r.candidate]

\* The event is inserted, and its trigger and decide both make it the candidate's status;
\* an insert the trigger refuses fails the command.
Decide(p) ==
    /\ review[p].step = "numbered"
    /\ LET r == review[p] IN
         IF Insertable(r)
         THEN /\ decisions' = [decisions EXCEPT ![r.candidate] =
                                 Append(@, [action |-> r.action, from |-> r.from,
                                            to |-> Target[r.action]])]
              /\ verdict' = [verdict EXCEPT ![r.candidate] = Target[r.action]]
              /\ review' = [review EXCEPT ![p] = NoReview]
         ELSE /\ review' = [review EXCEPT ![p].step = "failed"]
              /\ UNCHANGED <<verdict, decisions>>

DecisionsNext ==
    \E p \in Reviewer :
        \/ \E c \in Candidate, action \in DOMAIN Target : ReadCandidate(p, c, action)
        \/ NumberDecision(p)
        \/ Decide(p)

DecisionsSpec == DecisionsInit /\ [][DecisionsNext]_mergeVars

-----------------------------------------------------------------------------
AcceptedNeighbours(S) ==
    {q \in Problem : \E p \in S : {p, q} \in Candidate /\ verdict[{p, q}] = "ACCEPTED"}

\* _accepted_equivalence: the problems that accepted pairs lead to.
Equivalent(root) ==
    LET seen[n \in 0 .. Cardinality(Problem)] ==
            IF n = 0 THEN {root} ELSE LET known == seen[n - 1] IN known \cup AcceptedNeighbours(known)
    IN  seen[Cardinality(Problem)] \ {root}

\* Problems are reported as equivalent in classes: alike for both of a pair, along every
\* chain of accepted pairs and no further.
ClassesHold ==
    LET accepted == {c \in Candidate : verdict[c] = "ACCEPTED"}
    IN  /\ \A c \in accepted : \A p \in c : c \ {p} \subseteq Equivalent(p)
        /\ \A p \in Problem : LET class == Equivalent(p) IN class # {} =>
              /\ \A q \in class : Equivalent(q) = (class \cup {p}) \ {q}
              /\ \A S \in SUBSET Problem : p \in S /\ class \ S # {} =>
                    \E c \in accepted : c \cap S # {} /\ c \ S # {}

\* Whatever reviewers decide at once, the audit of a pair is a path from PENDING to its
\* status, rejected and reversed for good, no decision that was allowed as it was read is
\* lost to another, and readers find the classes that the decisions make.
DecisionsStand ==
    /\ \A p \in Reviewer : review[p].step # "failed"
    /\ \A c \in Candidate :
          LET path == <<"PENDING">> \o [n \in DOMAIN decisions[c] |-> decisions[c][n].to] IN
            /\ path[Len(path)] = verdict[c]
            /\ \A n \in DOMAIN decisions[c] :
                  /\ decisions[c][n].from = path[n]
                  /\ path[n] \notin {"REJECTED", "REVERSED"}
    /\ ClassesHold
=============================================================================
