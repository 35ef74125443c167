------------------------------ MODULE RawSignals ------------------------------
(***************************************************************************)
(* What the evidence store makes of the posts of a collection: raw signals *)
(* with their numbered revisions, the duplicate group of each, and the ids *)
(* the later stages cite (integration/evidence_store.py, _persist_item;    *)
(* analysis/normalization.py, analysis/deduplication.py).                  *)
(*                                                                         *)
(* A collection is stored in one transaction, and no other is stored at    *)
(* the same time (ResearchHandler!OneCollector); a post that is refused    *)
(* rolls all of it back. Texts are opaque: equal ones have equal hashes,   *)
(* and which others count as near duplicates is a constant.                *)
(***************************************************************************)
EXTENDS Integers, Sequences, FiniteSets

CONSTANTS
    SignalPost,     \* the posts, in the order of their ids
    Text,           \* what a post may say
    UrlOf,          \* [SignalPost -> normalized URL], which a post keeps
    Near,           \* pairs of texts of MinHash similarity 0.9 or more
    Lexical,        \* pairs of texts of trigram similarity 0.92 or more
    BatchSize, MaxBatches       \* bounds

ASSUME SignalAssumption ==
    /\ SignalPost \subseteq Nat
    /\ Near \subseteq Text \X Text /\ Lexical \subseteq Text \X Text
    /\ {BatchSize, MaxBatches} \subseteq Nat

VARIABLES
    signals,    \* [post |-> its revisions, each of a text and a group], of posts known
    draft,      \* the same, as the open transaction sees it
    named,      \* the evidence ids of the open transaction, with their texts
    cited,      \* the ids the COLLECT checkpoints hold, with the text they stood for
    open,       \* how many posts are in the open transaction, -1 without one
    batches     \* how many collections there have been

signalVars == <<signals, draft, named, cited, open, batches>>

SignalInit == /\ signals = <<>>
              /\ draft = <<>>
              /\ named = {}
              /\ cited = {}
              /\ open = -1
              /\ batches = 0

-----------------------------------------------------------------------------
Version(text, group) == [text |-> text, group |-> group]
Evidence(post, n, text) == [post |-> post, revision |-> n, text |-> text]

Latest(post) == draft[post][Len(draft[post])]
Numbers == UNION {{<<q, n>> : n \in DOMAIN draft[q]} : q \in DOMAIN draft}
TextOf(id) == draft[id[1]][id[2]].text
Precedes(a, b) == a[1] < b[1] \/ (a[1] = b[1] /\ a[2] <= b[2])

\* The group of the first of these revisions, by its id.
GroupOfFirst(ids) ==
    LET first == CHOOSE a \in ids : \A b \in ids : Precedes(a, b) IN draft[first[1]][first[2]].group

SameUrl(post) == {id \in Numbers : UrlOf[id[1]] = UrlOf[post]}
SameText(text) == {id \in Numbers : TextOf(id) = text}
Similar(relation, text) == {id \in Numbers : <<text, TextOf(id)>> \in relation}

\* Bug: equal texts are left to the near duplicates.
GroupsWithoutHash(post, text) ==
    CASE SameUrl(post) # {} -> {GroupOfFirst(SameUrl(post))}
      [] OTHER -> IF Similar(Near, text) # {} THEN {GroupOfFirst(Similar(Near, text))} ELSE {post}

\* The group of a new post: that of the post with its URL, else of its text, else of a
\* near duplicate, else of the most alike (whichever that is here), else its own.
Groups(post, text) ==
    CASE SameUrl(post) # {} -> {GroupOfFirst(SameUrl(post))}
      [] SameUrl(post) = {} /\ SameText(text) # {} -> {GroupOfFirst(SameText(text))}
      [] OTHER -> IF Similar(Near, text) # {} THEN {GroupOfFirst(Similar(Near, text))}
                  ELSE IF Similar(Lexical, text) # {}
                       THEN {draft[id[1]][id[2]].group : id \in Similar(Lexical, text)}
                       ELSE {post}

\* commit_stage of a collection opens a transaction.
OpenBatch == /\ open = -1
             /\ batches < MaxBatches
             /\ open' = 0
             /\ draft' = signals
             /\ named' = {}
             /\ batches' = batches + 1
             /\ UNCHANGED <<signals, cited>>

\* Bug: an edit is written over the latest revision.
AppendedOverLatest(post, text, group) ==
    IF post \in DOMAIN draft
    THEN [draft EXCEPT ![post] = [@ EXCEPT ![Len(@)] = Version(text, group)]]
    ELSE [q \in DOMAIN draft \cup {post} |->
             IF q = post THEN <<Version(text, group)>> ELSE draft[q]]

Appended(post, text, group) ==
    [q \in DOMAIN draft \cup {post} |->
        IF q # post THEN draft[q]
        ELSE Append(IF post \in DOMAIN draft THEN draft[post] ELSE <<>>, Version(text, group))]

\* A post has a text in one revision only: an edit back to it violates the constraint.
Unaccepted(post, text) ==
    /\ post \in DOMAIN draft
    /\ Latest(post).text # text
    /\ \E id \in SameText(text) : id[1] = post

\* _persist_item of a post that says what it said at last: nothing new but the citation.
Recognize(post, text) ==
    /\ open \in 0..BatchSize - 1
    /\ post \in DOMAIN draft /\ Latest(post).text = text
    /\ named' = named \cup {Evidence(post, Len(draft[post]), text)}
    /\ open' = open + 1
    /\ UNCHANGED <<signals, draft, cited, batches>>

GroupsOf(post, text) ==
    IF post \in DOMAIN draft THEN {Latest(post).group} ELSE Groups(post, text)

\* _persist_item of a new post, or of one that was edited since.
Store(post, text) ==
    /\ open \in 0..BatchSize - 1
    /\ ~ Unaccepted(post, text)
    /\ post \in DOMAIN draft => Latest(post).text # text
    /\ \E group \in GroupsOf(post, text) : draft' = Appended(post, text, group)
    /\ named' = named \cup {Evidence(post, Len(draft'[post]), text)}
    /\ open' = open + 1
    /\ UNCHANGED <<signals, cited, batches>>

\* A post is refused, or the worker has lost its task: all of the collection is undone.
RollBack == /\ open >= 0
            /\ open' = -1
            /\ draft' = <<>>
            /\ named' = {}
            /\ UNCHANGED <<signals, cited, batches>>

CommitBatch == /\ open >= 0
               /\ signals' = draft
               /\ cited' = cited \cup named
               /\ open' = -1
               /\ draft' = <<>>
               /\ named' = {}
               /\ UNCHANGED batches

SignalNext == \/ OpenBatch \/ RollBack \/ CommitBatch
              \/ \E post \in SignalPost, text \in Text : Recognize(post, text) \/ Store(post, text)

SignalSpec == SignalInit /\ [][SignalNext]_signalVars

-----------------------------------------------------------------------------
(* Properties. *)

\* What a checkpoint cites stands: the revision is there with the text the analysis has
\* seen, whatever was edited, collected again or rolled back since (load_evidence raises
\* LookupError on a checkpoint whose revisions are missing).
EvidenceStands ==
    \A e \in cited : /\ e.post \in DOMAIN signals
                     /\ e.revision \in DOMAIN signals[e.post]
                     /\ signals[e.post][e.revision].text = e.text

FirstText(post) == signals[post][1].text
Unlinked(post) == \A q \in DOMAIN signals \ {post} : UrlOf[q] # UrlOf[post]

\* Duplicates are counted once: a post never changes its group, a group is named after a
\* post that is in it, and a text that came to no post by an edit, nor to one with the URL
\* of another, is in one group (docs/spec-v0.1.md section 11: exact duplicates merge
\* automatically).
GroupsHold ==
    /\ \A post \in DOMAIN signals : \A n \in DOMAIN signals[post] :
          LET group == signals[post][n].group
          IN /\ group = signals[post][1].group
             /\ group \in DOMAIN signals /\ signals[group][1].group = group
    /\ \A text \in Text :
          LET holders == {p \in DOMAIN signals : \E n \in DOMAIN signals[p] : signals[p][n].text = text}
          IN (\A p \in holders : FirstText(p) = text /\ Unlinked(p))
                 => \A p, q \in holders : signals[p][1].group = signals[q][1].group
=============================================================================
