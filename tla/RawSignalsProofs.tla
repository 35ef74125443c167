--------------------------- MODULE RawSignalsProofs ---------------------------
(***************************************************************************)
(* What the checkpoints of the collections cite stands: a table of signals *)
(* only ever gets revisions added to it, and what a collection has named   *)
(* is cited when its own revisions are published, or not at all. And what  *)
(* is one of a kind is counted once: with one group a URL, and one a text  *)
(* that came with its posts, it does not matter which the first one was.   *)
(***************************************************************************)
EXTENDS RawSignals, SequenceTheorems, WellFoundedInduction, TLAPS

\* Each post in the table has revisions, numbered from 1.
Numbered(table) == \A p \in DOMAIN table : table[p] # <<>> /\ \E S : table[p] \in Seq(S)

\* The evidence e is in the table as it was seen.
Found(e, table) == /\ e.post \in DOMAIN table
                   /\ e.revision \in DOMAIN table[e.post]
                   /\ table[e.post][e.revision].text = e.text

\* Everything in the table a is in b.
Kept(a, b) == \A p \in DOMAIN a : /\ p \in DOMAIN b
                                  /\ \A n \in DOMAIN a[p] : n \in DOMAIN b[p] /\ b[p][n] = a[p][n]

SignalInv == /\ Numbered(signals)
             /\ open \in Int
             /\ \A e \in cited : Found(e, signals)
             /\ open >= 0 => /\ Numbered(draft)
                             /\ Kept(signals, draft)
                             /\ \A e \in named : Found(e, draft)

LEMMA FoundStays ==
  ASSUME NEW a, NEW b, Kept(a, b), NEW e, Found(e, a)
  PROVE  Found(e, b)
BY DEF Kept, Found

LEMMA KeptIsTransitive ==
  ASSUME NEW a, NEW b, NEW c, Kept(a, b), Kept(b, c)
  PROVE  Kept(a, c)
BY DEF Kept

\* A revision is added behind the last one of its post.
LEMMA AppendedGrows ==
  ASSUME Numbered(draft), NEW post, NEW text, NEW group
  PROVE  LET table == Appended(post, text, group)
         IN  /\ Numbered(table)
             /\ Kept(draft, table)
             /\ Found(Evidence(post, Len(table[post]), text), table)
<1> DEFINE table == Appended(post, text, group)
           old == IF post \in DOMAIN draft THEN draft[post] ELSE <<>>
           version == Version(text, group)
<1>1. /\ DOMAIN table = DOMAIN draft \cup {post}
      /\ table[post] = Append(old, version)
      /\ \A q \in DOMAIN draft \ {post} : table[q] = draft[q]
  BY DEF Appended
<1>2. PICK S : old \in Seq(S)
  BY EmptySeq DEF Numbered
<1>3. old \in Seq(S \cup {version}) /\ version \in S \cup {version}
  BY <1>2, SeqMonotonic
<1> HIDE DEF table, old
<1>4. /\ Append(old, version) \in Seq(S \cup {version})
      /\ Len(Append(old, version)) = Len(old) + 1
      /\ \A n \in 1 .. Len(old) : Append(old, version)[n] = old[n]
      /\ Append(old, version)[Len(old) + 1] = version
  BY <1>3, AppendProperties
<1>5. Len(old) \in Nat /\ DOMAIN old = 1 .. Len(old)
  BY <1>3, LenProperties
<1>6. DOMAIN Append(old, version) = 1 .. Len(old) + 1
  BY <1>4, LenProperties
<1>7. Numbered(table)
  <2> SUFFICES ASSUME NEW p \in DOMAIN table PROVE table[p] # <<>> /\ \E T : table[p] \in Seq(T)
    BY DEF Numbered
  <2>1. CASE p = post
    <3>1. Len(table[post]) # Len(<<>>)
      BY <1>1, <1>4, <1>5
    <3> QED BY <1>1, <1>4, <2>1, <3>1
  <2>2. CASE p # post
    BY <1>1, <2>2 DEF Numbered
  <2> QED BY <2>1, <2>2
<1>8. Kept(draft, table)
  <2>1. \A q \in DOMAIN draft \ {post} : q \in DOMAIN table /\ table[q] = draft[q]
    BY <1>1
  <2>2. post \in DOMAIN draft => /\ draft[post] = old /\ post \in DOMAIN table
    BY <1>1 DEF old
  <2>3. \A n \in DOMAIN old : n \in DOMAIN table[post] /\ table[post][n] = old[n]
    BY <1>1, <1>4, <1>5, <1>6
  <2> QED BY <2>1, <2>2, <2>3 DEF Kept
<1>9. Found(Evidence(post, Len(table[post]), text), table)
  <2>1. Len(table[post]) \in DOMAIN table[post] /\ table[post][Len(table[post])] = version
    BY <1>1, <1>4, <1>5, <1>6
  <2> QED BY <1>1, <2>1 DEF Found, Evidence, version, Version
<1> QED BY <1>7, <1>8, <1>9 DEF table

\* The latest revision of a post that says what it said at last is the one it is cited by.
LEMMA LatestFound ==
  ASSUME Numbered(draft), NEW post \in DOMAIN draft, NEW text, Latest(post).text = text
  PROVE  Found(Evidence(post, Len(draft[post]), text), draft)
<1>1. PICK S : draft[post] \in Seq(S) /\ draft[post] # <<>>
  BY DEF Numbered
<1>2. Len(draft[post]) \in DOMAIN draft[post]
  BY <1>1, EmptySeq, LenProperties
<1> QED BY <1>2 DEF Found, Evidence, Latest

-----------------------------------------------------------------------------
LEMMA SignalInvInit == SignalInit => SignalInv
BY DEF SignalInit, SignalInv, Numbered, Kept

LEMMA SignalInvKept ==
  ASSUME SignalInv, [SignalNext]_signalVars
  PROVE  SignalInv'
<1>1. CASE OpenBatch
  BY <1>1 DEF OpenBatch, SignalInv, Numbered, Kept
<1>2. CASE RollBack
  BY <1>2 DEF RollBack, SignalInv
<1>3. CASE CommitBatch
  <2>1. /\ Numbered(draft) /\ Kept(signals, draft) /\ \A e \in named : Found(e, draft)
        /\ signals' = draft /\ cited' = cited \cup named /\ open' = -1
    BY <1>3 DEF CommitBatch, SignalInv
  <2>2. \A e \in cited : Found(e, draft)
    BY <2>1, FoundStays DEF SignalInv
  <2> QED BY <2>1, <2>2 DEF SignalInv
<1>4. ASSUME NEW post \in SignalPost, NEW text \in Text, Recognize(post, text) PROVE SignalInv'
  <2>1. /\ Numbered(draft) /\ post \in DOMAIN draft /\ Latest(post).text = text
        /\ open' \in Int
        /\ named' = named \cup {Evidence(post, Len(draft[post]), text)}
        /\ UNCHANGED <<signals, draft, cited>>
        /\ Kept(signals, draft) /\ \A e \in named : Found(e, draft)
    BY <1>4 DEF Recognize, SignalInv
  <2>2. \A e \in named' : Found(e, draft)
    BY <2>1, LatestFound
  <2> QED BY <2>1, <2>2 DEF SignalInv
<1>5. ASSUME NEW post \in SignalPost, NEW text \in Text, Store(post, text) PROVE SignalInv'
  <2>1. PICK group \in GroupsOf(post, text) : draft' = Appended(post, text, group)
    BY <1>5 DEF Store
  <2>2. /\ Numbered(draft) /\ Kept(signals, draft) /\ \A e \in named : Found(e, draft)
        /\ open' \in Int
        /\ named' = named \cup {Evidence(post, Len(draft'[post]), text)}
        /\ UNCHANGED <<signals, cited>>
    BY <1>5 DEF Store, SignalInv
  <2>3. /\ Numbered(draft') /\ Kept(draft, draft')
        /\ Found(Evidence(post, Len(draft'[post]), text), draft')
    BY <2>1, <2>2, AppendedGrows
  <2>4. Kept(signals, draft') /\ \A e \in named' : Found(e, draft')
    BY <2>2, <2>3, FoundStays, KeptIsTransitive
  <2> QED BY <2>2, <2>3, <2>4 DEF SignalInv
<1>6. CASE UNCHANGED signalVars
  BY <1>6 DEF signalVars, SignalInv
<1> QED BY <1>1, <1>2, <1>3, <1>4, <1>5, <1>6 DEF SignalNext

\* What a checkpoint cites is there with the text the analysis has seen, for any posts,
\* texts and collections, however they are edited, collected again and rolled back.
THEOREM EvidenceStandsAlways == SignalSpec => []EvidenceStands
<1>1. SignalInv => EvidenceStands
  BY DEF SignalInv, EvidenceStands, Found
<1> QED BY <1>1, SignalInvInit, SignalInvKept, PTL DEF SignalSpec

-----------------------------------------------------------------------------
(* The groups.                                                             *)

Holders(text, table) ==
    {p \in DOMAIN table : \E n \in DOMAIN table[p] : table[p][n].text = text}

\* A post keeps the group it came with, which is one of the posts' that is in it itself.
Kin(table) ==
    \A p \in DOMAIN table :
       /\ \A n \in DOMAIN table[p] : table[p][n].group = table[p][1].group
       /\ table[p][1].group \in DOMAIN table
       /\ table[table[p][1].group][1].group = table[p][1].group

OfOneUrl(table) ==
    \A p, q \in DOMAIN table : UrlOf[p] = UrlOf[q] => table[p][1].group = table[q][1].group

Came(p, text, table) ==
    table[p][1].text = text /\ \A q \in DOMAIN table \ {p} : UrlOf[q] # UrlOf[p]

OfOneText(table) ==
    \A text \in Text : (\A p \in Holders(text, table) : Came(p, text, table))
        => \A p, q \in Holders(text, table) : table[p][1].group = table[q][1].group

\* One group a URL is more than was promised, and what makes the choice of the first
\* revision with that URL the choice of any.
Grouped(table) == /\ DOMAIN table \subseteq SignalPost
                  /\ Kin(table) /\ OfOneUrl(table) /\ OfOneText(table)

GroupsInv == /\ SignalInv
             /\ Grouped(signals)
             /\ open >= 0 => Grouped(draft)

-----------------------------------------------------------------------------
(* Among any revisions there is a first.                                   *)

Less == {ss \in Nat \X Nat : ss[1] < ss[2]}

LEMMA LessIsWellFounded == IsWellFoundedOn(Less, Nat)
BY NatLessThanWellFounded DEF Less, OpToRel

LEMMA LeastNatural ==
  ASSUME NEW S, S \subseteq Nat, S # {}
  PROVE  \E n \in S : \A m \in S : n =< m
<1>1. PICK n \in S : \A m \in S : <<m, n>> \notin Less
  BY LessIsWellFounded, WFMin
<1>2. \A m \in S : ~ (m < n)
  BY <1>1 DEF Less
<1> QED BY <1>2

LEMMA RevisionsAre ==
  ASSUME Numbered(draft), NEW p \in DOMAIN draft
  PROVE  /\ 1 \in DOMAIN draft[p]
         /\ Len(draft[p]) \in DOMAIN draft[p]
         /\ DOMAIN draft[p] \subseteq Nat
<1>1. PICK S : draft[p] \in Seq(S) /\ draft[p] # <<>>
  BY DEF Numbered
<1> QED BY <1>1, EmptySeq, LenProperties

LEMMA NumbersAre ==
  ASSUME Numbered(draft), DOMAIN draft \subseteq SignalPost, NEW id \in Numbers
  PROVE  /\ id[1] \in DOMAIN draft /\ id[1] \in Nat
         /\ id[2] \in DOMAIN draft[id[1]] /\ id[2] \in Nat
         /\ id = <<id[1], id[2]>>
<1>1. PICK q \in DOMAIN draft : \E n \in DOMAIN draft[q] : id = <<q, n>>
  BY DEF Numbers
<1>2. PICK n \in DOMAIN draft[q] : id = <<q, n>>
  BY <1>1
<1>3. id[1] = q /\ id[2] = n
  BY <1>2
<1>4. n \in Nat /\ q \in Nat
  BY RevisionsAre, SignalAssumption
<1> QED BY <1>2, <1>3, <1>4

LEMMA FirstIsOneOfThem ==
  ASSUME Numbered(draft), DOMAIN draft \subseteq SignalPost,
         NEW ids, ids \subseteq Numbers, ids # {}
  PROVE  \E id \in ids : GroupOfFirst(ids) = draft[id[1]][id[2]].group
<1> DEFINE posts == {id[1] : id \in ids}
<1>1. posts \subseteq Nat /\ posts # {}
  BY NumbersAre
<1>2. PICK p \in posts : \A q \in posts : p =< q
  BY <1>1, LeastNatural
<1> DEFINE turns == {id[2] : id \in {id \in ids : id[1] = p}}
<1>3. turns \subseteq Nat /\ turns # {}
  BY NumbersAre
<1>4. PICK n \in turns : \A m \in turns : n =< m
  BY <1>3, LeastNatural
<1>5. PICK a \in ids : a[1] = p /\ a[2] = n
  OBVIOUS
<1>6. ASSUME NEW b \in ids PROVE Precedes(a, b)
  <2>1. p =< b[1] /\ b[1] \in Nat /\ b[2] \in Nat /\ p \in Nat /\ n \in Nat
    BY <1>1, <1>2, <1>3, NumbersAre
  <2>2. b[1] = p => n =< b[2]
    BY <1>4
  <2> QED BY <1>5, <2>1, <2>2 DEF Precedes
<1> QED BY <1>5, <1>6 DEF GroupOfFirst

LEMMA GroupOfFirstIs ==
  ASSUME Numbered(draft), DOMAIN draft \subseteq SignalPost, Kin(draft),
         NEW ids, ids \subseteq Numbers, ids # {}
  PROVE  \E id \in ids : /\ id[1] \in DOMAIN draft /\ id[2] \in DOMAIN draft[id[1]]
                         /\ GroupOfFirst(ids) = draft[id[1]][1].group
<1>1. PICK id \in ids : GroupOfFirst(ids) = draft[id[1]][id[2]].group
  BY FirstIsOneOfThem
<1>2. id[1] \in DOMAIN draft /\ id[2] \in DOMAIN draft[id[1]]
  BY NumbersAre
<1> QED BY <1>1, <1>2 DEF Kin

LEMMA NumberedIn ==
  ASSUME NEW q \in DOMAIN draft, NEW n \in DOMAIN draft[q]
  PROVE  <<q, n>> \in Numbers /\ <<q, n>>[1] = q /\ <<q, n>>[2] = n
BY DEF Numbers

-----------------------------------------------------------------------------
(* The group of a new post.                                                *)

LEMMA GroupsOfNew ==
  ASSUME Numbered(draft), Grouped(draft), NEW post, NEW text, NEW group \in Groups(post, text)
  PROVE  /\ group = post \/ \E p \in DOMAIN draft : group = draft[p][1].group
         /\ \A q \in DOMAIN draft : UrlOf[q] = UrlOf[post] => group = draft[q][1].group
         /\ (\A q \in DOMAIN draft : UrlOf[q] # UrlOf[post]) /\ Holders(text, draft) # {}
               => \E p \in Holders(text, draft) : group = draft[p][1].group
<1>1. DOMAIN draft \subseteq SignalPost /\ Kin(draft) /\ OfOneUrl(draft)
  BY DEF Grouped
<1>2. \A q \in DOMAIN draft : 1 \in DOMAIN draft[q]
  BY RevisionsAre
<1>3. CASE SameUrl(post) # {}
  <2>1. group = GroupOfFirst(SameUrl(post)) /\ SameUrl(post) \subseteq Numbers
    BY <1>3 DEF Groups, SameUrl
  <2>2. PICK id \in SameUrl(post) : /\ id[1] \in DOMAIN draft
                                    /\ group = draft[id[1]][1].group
    BY <1>1, <1>3, <2>1, GroupOfFirstIs
  <2>3. UrlOf[id[1]] = UrlOf[post]
    BY DEF SameUrl
  <2> QED BY <1>1, <2>2, <2>3 DEF OfOneUrl
<1>4. CASE SameUrl(post) = {}
  <2>1. \A q \in DOMAIN draft : UrlOf[q] # UrlOf[post]
    BY <1>2, <1>4, NumberedIn DEF SameUrl
  <2>2. CASE SameText(text) # {}
    <3>1. group = GroupOfFirst(SameText(text)) /\ SameText(text) \subseteq Numbers
      BY <1>4, <2>2 DEF Groups, SameText
    <3>2. PICK id \in SameText(text) : /\ id[1] \in DOMAIN draft /\ id[2] \in DOMAIN draft[id[1]]
                                       /\ group = draft[id[1]][1].group
      BY <1>1, <2>2, <3>1, GroupOfFirstIs
    <3>3. id[1] \in Holders(text, draft)
      BY <3>2 DEF SameText, TextOf, Holders
    <3> QED BY <2>1, <3>2, <3>3
  <2>3. CASE SameText(text) = {}
    <3>1. Holders(text, draft) = {}
      <4>1. SUFFICES ASSUME NEW q \in DOMAIN draft, NEW n \in DOMAIN draft[q],
                            draft[q][n].text = text
                     PROVE  FALSE
        BY DEF Holders
      <4>2. <<q, n>> \in SameText(text)
        BY <4>1, NumberedIn DEF SameText, TextOf
      <4> QED BY <2>3, <4>2
    <3>2. CASE Similar(Near, text) # {}
      <4>1. group = GroupOfFirst(Similar(Near, text)) /\ Similar(Near, text) \subseteq Numbers
        BY <1>4, <2>3, <3>2 DEF Groups, Similar
      <4> QED BY <1>1, <2>1, <3>1, <3>2, <4>1, GroupOfFirstIs
    <3>3. CASE Similar(Near, text) = {} /\ Similar(Lexical, text) # {}
      <4>1. PICK id \in Similar(Lexical, text) : group = draft[id[1]][id[2]].group
        BY <1>4, <2>3, <3>3 DEF Groups
      <4>2. id[1] \in DOMAIN draft /\ id[2] \in DOMAIN draft[id[1]]
        BY <1>1, NumbersAre DEF Similar
      <4> QED BY <1>1, <2>1, <3>1, <4>1, <4>2 DEF Kin
    <3>4. CASE Similar(Near, text) = {} /\ Similar(Lexical, text) = {}
      BY <1>4, <2>1, <2>3, <3>1, <3>4 DEF Groups
    <3> QED BY <3>2, <3>3, <3>4
  <2> QED BY <2>2, <2>3
<1> QED BY <1>3, <1>4

-----------------------------------------------------------------------------
(* What a revision added does to the groups.                               *)

\* The table is the draft with one revision more, the last of its post.
Adds(table, post, version) ==
    /\ DOMAIN table = DOMAIN draft \cup {post}
    /\ \A q \in DOMAIN draft : table[q][1] = draft[q][1]
    /\ post \notin DOMAIN draft => table[post][1] = version
    /\ \A q \in DOMAIN table : \A n \in DOMAIN table[q] :
          \/ q = post /\ table[q][n] = version
          \/ q \in DOMAIN draft /\ n \in DOMAIN draft[q] /\ table[q][n] = draft[q][n]
    /\ \A q \in DOMAIN draft : \A n \in DOMAIN draft[q] :
          n \in DOMAIN table[q] /\ table[q][n] = draft[q][n]
    /\ \E n \in DOMAIN table[post] : table[post][n] = version

LEMMA AppendedAdds ==
  ASSUME Numbered(draft), NEW post, NEW text, NEW group
  PROVE  Adds(Appended(post, text, group), post, Version(text, group))
<1> DEFINE table == Appended(post, text, group)
           old == IF post \in DOMAIN draft THEN draft[post] ELSE <<>>
           version == Version(text, group)
<1>1. /\ DOMAIN table = DOMAIN draft \cup {post}
      /\ table[post] = Append(old, version)
      /\ \A q \in DOMAIN draft \ {post} : table[q] = draft[q]
  BY DEF Appended
<1>2. PICK S : old \in Seq(S)
  BY EmptySeq DEF Numbered
<1>3. old \in Seq(S \cup {version}) /\ version \in S \cup {version}
  BY <1>2, SeqMonotonic
<1>4. /\ post \in DOMAIN draft => old = draft[post]
      /\ post \notin DOMAIN draft => old = <<>>
  OBVIOUS
<1>5. /\ Append(old, version) \in Seq(S \cup {version})
      /\ Len(Append(old, version)) = Len(old) + 1
      /\ \A n \in 1 .. Len(old) : Append(old, version)[n] = old[n]
      /\ Append(old, version)[Len(old) + 1] = version
  <2> HIDE DEF old, version
  <2> QED BY <1>3, AppendProperties
<1> HIDE DEF table, old, version
<1>6. Len(old) \in Nat /\ DOMAIN old = 1 .. Len(old)
  BY <1>3, LenProperties
<1>7. DOMAIN table[post] = 1 .. Len(old) + 1
  BY <1>1, <1>5, LenProperties
<1>8. \A n \in DOMAIN old : n \in DOMAIN table[post] /\ table[post][n] = old[n]
  BY <1>1, <1>5, <1>6, <1>7
<1>9. \A n \in DOMAIN table[post] : n \notin DOMAIN old => table[post][n] = version
  <2> SUFFICES ASSUME NEW n \in 1 .. Len(old) + 1, n \notin 1 .. Len(old)
               PROVE  table[post][n] = version
    BY <1>6, <1>7
  <2>1. n = Len(old) + 1
    BY <1>6
  <2> QED BY <1>1, <1>5, <2>1
<1>10. Len(old) + 1 \in DOMAIN table[post] /\ table[post][Len(old) + 1] = version
  BY <1>1, <1>5, <1>6, <1>7
<1>11. post \notin DOMAIN draft => table[post][1] = version
  BY <1>4, <1>10, EmptySeq
<1>12. \A q \in DOMAIN draft : table[q][1] = draft[q][1]
  BY <1>1, <1>4, <1>8, RevisionsAre
<1>13. \A q \in DOMAIN draft : \A n \in DOMAIN draft[q] :
          n \in DOMAIN table[q] /\ table[q][n] = draft[q][n]
  BY <1>1, <1>4, <1>8
<1>14. \A q \in DOMAIN table : \A n \in DOMAIN table[q] :
         \/ q = post /\ table[q][n] = version
         \/ q \in DOMAIN draft /\ n \in DOMAIN draft[q] /\ table[q][n] = draft[q][n]
  <2> SUFFICES ASSUME NEW q \in DOMAIN table, NEW n \in DOMAIN table[q]
               PROVE  \/ q = post /\ table[q][n] = version
                      \/ q \in DOMAIN draft /\ n \in DOMAIN draft[q] /\ table[q][n] = draft[q][n]
    OBVIOUS
  <2>1. CASE q # post
    BY <1>1, <2>1
  <2>2. CASE q = post /\ n \in DOMAIN old
    BY <1>4, <1>8, <2>2, EmptySeq, <1>6
  <2>3. CASE q = post /\ n \notin DOMAIN old
    BY <1>9, <2>3
  <2> QED BY <2>1, <2>2, <2>3
<1>15. Adds(table, post, version)
  BY <1>1, <1>10, <1>11, <1>12, <1>13, <1>14 DEF Adds
<1> QED BY <1>15 DEF table, version

\* A revision added to the draft leaves it grouped.
LEMMA AppendedGrouped ==
  ASSUME Numbered(draft), Grouped(draft), NEW post \in SignalPost, NEW text,
         ~ Unaccepted(post, text), post \in DOMAIN draft => Latest(post).text # text,
         NEW group \in GroupsOf(post, text)
  PROVE  Grouped(Appended(post, text, group))
<1> DEFINE table == Appended(post, text, group)
<1>0. Adds(table, post, Version(text, group))
  BY AppendedAdds
<1> HIDE DEF table
<1>1. /\ DOMAIN table = DOMAIN draft \cup {post}
      /\ \A q \in DOMAIN draft : table[q][1] = draft[q][1]
      /\ post \notin DOMAIN draft => table[post][1] = Version(text, group)
  BY <1>0 DEF Adds
<1>2. \A q \in DOMAIN table : \A n \in DOMAIN table[q] :
         \/ q = post /\ table[q][n] = Version(text, group)
         \/ q \in DOMAIN draft /\ n \in DOMAIN draft[q] /\ table[q][n] = draft[q][n]
  BY <1>0 DEF Adds
<1>3. \A q \in DOMAIN draft : \A n \in DOMAIN draft[q] :
         n \in DOMAIN table[q] /\ table[q][n] = draft[q][n]
  BY <1>0 DEF Adds
<1>4. \E n \in DOMAIN table[post] : table[post][n] = Version(text, group)
  BY <1>0 DEF Adds
<1>5. Kin(draft) /\ OfOneUrl(draft) /\ OfOneText(draft) /\ DOMAIN draft \subseteq SignalPost
  BY DEF Grouped
<1>6. Version(text, group).text = text /\ Version(text, group).group = group
  BY DEF Version
<1>7. \A q \in DOMAIN draft : 1 \in DOMAIN draft[q]
  BY RevisionsAre
<1>8. ASSUME post \in DOMAIN draft PROVE Grouped(table)
  <2>1. group = draft[post][1].group
    <3>1. group = draft[post][Len(draft[post])].group
      BY <1>8 DEF GroupsOf, Latest
    <3> QED BY <1>5, <1>8, <3>1, RevisionsAre DEF Kin
  <2>2. \A n \in DOMAIN draft[post] : draft[post][n].text # text
    <3>1. \A id \in SameText(text) : id[1] # post
      BY <1>8 DEF Unaccepted
    <3>2. SUFFICES ASSUME NEW n \in DOMAIN draft[post], draft[post][n].text = text PROVE FALSE
      OBVIOUS
    <3>3. <<post, n>> \in SameText(text) /\ <<post, n>>[1] = post
      BY <1>8, <3>2, NumberedIn DEF SameText, TextOf
    <3> QED BY <3>1, <3>3
  <2>3. DOMAIN table = DOMAIN draft
    BY <1>1, <1>8
  <2>4. Kin(table)
    <3> SUFFICES ASSUME NEW p \in DOMAIN draft
                 PROVE  /\ \A n \in DOMAIN table[p] : table[p][n].group = table[p][1].group
                        /\ table[p][1].group \in DOMAIN table
                        /\ table[table[p][1].group][1].group = table[p][1].group
      BY <2>3 DEF Kin
    <3>1. \A n \in DOMAIN table[p] : table[p][n].group = table[p][1].group
      BY <1>1, <1>2, <1>5, <1>6, <2>1, <2>3 DEF Kin
    <3>2. draft[p][1].group \in DOMAIN draft /\ draft[draft[p][1].group][1].group = draft[p][1].group
      BY <1>5 DEF Kin
    <3> QED BY <1>1, <2>3, <3>1, <3>2
  <2>5. OfOneUrl(table)
    BY <1>1, <1>5, <2>3 DEF OfOneUrl
  <2>6. OfOneText(table)
    <3> SUFFICES ASSUME NEW other \in Text,
                        \A p \in Holders(other, table) : Came(p, other, table),
                        NEW p \in Holders(other, table), NEW q \in Holders(other, table)
                 PROVE  table[p][1].group = table[q][1].group
      BY DEF OfOneText
    <3>1. other # text
      <4>1. SUFFICES ASSUME other = text PROVE FALSE
        OBVIOUS
      <4>2. post \in Holders(other, table)
        BY <1>1, <1>4, <1>6, <4>1 DEF Holders
      <4>3. draft[post][1].text = text
        BY <1>1, <1>8, <4>1, <4>2 DEF Came
      <4> QED BY <1>7, <1>8, <2>2, <4>3
    <3>2. \A u \in DOMAIN draft : u \in Holders(other, table) <=> u \in Holders(other, draft)
      BY <1>1, <1>2, <1>3, <1>6, <3>1 DEF Holders
    <3>3. Holders(other, table) = Holders(other, draft)
      BY <2>3, <3>2 DEF Holders
    <3>4. Holders(other, draft) \subseteq DOMAIN draft
      BY DEF Holders
    <3>5. \A u \in Holders(other, draft) : Came(u, other, draft)
      BY <1>1, <2>3, <3>3, <3>4 DEF Came
    <3>6. draft[p][1].group = draft[q][1].group
      BY <1>5, <3>3, <3>5 DEF OfOneText
    <3> QED BY <1>1, <3>3, <3>4, <3>6
  <2> QED BY <1>5, <2>3, <2>4, <2>5, <2>6 DEF Grouped
<1>9. ASSUME post \notin DOMAIN draft PROVE Grouped(table)
  <2>1. group \in Groups(post, text)
    BY <1>9 DEF GroupsOf
  <2>2. /\ group = post \/ \E p \in DOMAIN draft : group = draft[p][1].group
        /\ \A q \in DOMAIN draft : UrlOf[q] = UrlOf[post] => group = draft[q][1].group
        /\ (\A q \in DOMAIN draft : UrlOf[q] # UrlOf[post]) /\ Holders(text, draft) # {}
              => \E p \in Holders(text, draft) : group = draft[p][1].group
    BY <2>1, GroupsOfNew
  <2>3. table[post][1].text = text /\ table[post][1].group = group
    BY <1>1, <1>6, <1>9
  <2>4. Kin(table)
    <3> SUFFICES ASSUME NEW p \in DOMAIN table
                 PROVE  /\ \A n \in DOMAIN table[p] : table[p][n].group = table[p][1].group
                        /\ table[p][1].group \in DOMAIN table
                        /\ table[table[p][1].group][1].group = table[p][1].group
      BY DEF Kin
    <3>1. CASE p = post
      <4>1. \A n \in DOMAIN table[p] : table[p][n].group = table[p][1].group
        BY <1>2, <1>6, <1>9, <2>3, <3>1
      <4>2. CASE group = post
        BY <1>1, <2>3, <3>1, <4>1, <4>2
      <4>3. ASSUME NEW q \in DOMAIN draft, group = draft[q][1].group
            PROVE  group \in DOMAIN table /\ table[group][1].group = group
        <5>1. group \in DOMAIN draft /\ draft[group][1].group = group
          BY <1>5, <4>3 DEF Kin
        <5> QED BY <1>1, <5>1
      <4> QED BY <2>2, <2>3, <3>1, <4>1, <4>2, <4>3
    <3>2. CASE p \in DOMAIN draft
      <4>1. \A n \in DOMAIN table[p] : table[p][n].group = table[p][1].group
        BY <1>1, <1>2, <1>5, <1>9, <3>2 DEF Kin
      <4>2. draft[p][1].group \in DOMAIN draft /\ draft[draft[p][1].group][1].group = draft[p][1].group
        BY <1>5, <3>2 DEF Kin
      <4> QED BY <1>1, <3>2, <4>1, <4>2
    <3> QED BY <1>1, <3>1, <3>2
  <2>5. OfOneUrl(table)
    <3>1. \A q \in DOMAIN draft : UrlOf[q] = UrlOf[post] => table[q][1].group = table[post][1].group
      BY <1>1, <2>2, <2>3
    <3>2. \A p, q \in DOMAIN draft : UrlOf[p] = UrlOf[q] => table[p][1].group = table[q][1].group
      BY <1>1, <1>5 DEF OfOneUrl
    <3> QED BY <1>1, <3>1, <3>2 DEF OfOneUrl
  <2>6. OfOneText(table)
    <3> SUFFICES ASSUME NEW other \in Text,
                        \A p \in Holders(other, table) : Came(p, other, table)
                 PROVE  \A p, q \in Holders(other, table) : table[p][1].group = table[q][1].group
      BY DEF OfOneText
    <3>1. \A u \in DOMAIN draft : u \in Holders(other, table) <=> u \in Holders(other, draft)
      BY <1>1, <1>2, <1>3, <1>9 DEF Holders
    <3>2. \A u \in Holders(other, draft) : u \in DOMAIN draft /\ Came(u, other, draft)
      BY <1>1, <3>1 DEF Came, Holders
    <3>3. \A p, q \in Holders(other, draft) : table[p][1].group = table[q][1].group
      <4>1. \A p, q \in Holders(other, draft) : draft[p][1].group = draft[q][1].group
        BY <1>5, <3>2 DEF OfOneText
      <4> QED BY <1>1, <3>2, <4>1
    <3>4. CASE other # text
      <4>1. post \notin Holders(other, table)
        BY <1>2, <1>6, <1>9, <3>4 DEF Holders
      <4>2. Holders(other, table) \subseteq Holders(other, draft)
        BY <1>1, <3>1, <4>1 DEF Holders
      <4> QED BY <3>3, <4>2
    <3>5. CASE other = text
      <4>1. post \in Holders(text, table)
        BY <1>1, <1>4, <1>6 DEF Holders
      <4>2. \A q \in DOMAIN draft : UrlOf[q] # UrlOf[post]
        BY <1>1, <1>9, <3>5, <4>1 DEF Came
      <4>3. \A p \in Holders(text, draft) : table[p][1].group = table[post][1].group
        <5>1. Holders(text, draft) # {} => \E p \in Holders(text, draft) : group = draft[p][1].group
          BY <2>2, <4>2
        <5> QED BY <1>1, <2>3, <3>2, <3>3, <3>5, <5>1
      <4>4. \A p \in Holders(text, table) : p = post \/ p \in Holders(text, draft)
        BY <1>1, <3>1, <3>5 DEF Holders
      <4> QED BY <3>3, <3>5, <4>3, <4>4
    <3> QED BY <3>4, <3>5
  <2> QED BY <1>1, <1>5, <2>4, <2>5, <2>6 DEF Grouped
<1> QED BY <1>8, <1>9 DEF table

-----------------------------------------------------------------------------
LEMMA GroupsInvInit == SignalInit => GroupsInv
BY SignalInvInit DEF SignalInit, GroupsInv, Grouped, Kin, OfOneUrl, OfOneText, Holders

LEMMA GroupsInvKept ==
  ASSUME GroupsInv, [SignalNext]_signalVars
  PROVE  GroupsInv'
<1>0. SignalInv' /\ (open >= 0 => Numbered(draft))
  BY SignalInvKept DEF GroupsInv, SignalInv
<1>1. CASE OpenBatch \/ RollBack \/ CommitBatch
  <2>1. /\ signals' \in {signals, IF open >= 0 THEN draft ELSE signals}
        /\ open' >= 0 => draft' = signals'
    BY <1>1 DEF OpenBatch, RollBack, CommitBatch
  <2>2. Grouped(signals') /\ (open' >= 0 => Grouped(draft'))
    BY <2>1 DEF GroupsInv
  <2> QED BY <1>0, <2>2 DEF GroupsInv
<1>2. ASSUME NEW post \in SignalPost, NEW text \in Text, Recognize(post, text) PROVE GroupsInv'
  <2>1. open >= 0 /\ signals' = signals /\ draft' = draft
    BY <1>2 DEF Recognize
  <2>2. Grouped(signals') /\ Grouped(draft')
    BY <2>1 DEF GroupsInv
  <2> QED BY <1>0, <2>2 DEF GroupsInv
<1>3. ASSUME NEW post \in SignalPost, NEW text \in Text, Store(post, text) PROVE GroupsInv'
  <2>1. PICK group \in GroupsOf(post, text) : draft' = Appended(post, text, group)
    BY <1>3 DEF Store
  <2>2. /\ open >= 0 /\ signals' = signals
        /\ ~ Unaccepted(post, text) /\ (post \in DOMAIN draft => Latest(post).text # text)
    BY <1>3 DEF Store
  <2>3. Grouped(signals') /\ Grouped(draft')
    BY <1>0, <2>1, <2>2, AppendedGrouped DEF GroupsInv
  <2> QED BY <1>0, <2>3 DEF GroupsInv
<1>4. CASE UNCHANGED signalVars
  <2>1. Grouped(signals') /\ (open' >= 0 => Grouped(draft'))
    BY <1>4 DEF signalVars, GroupsInv
  <2> QED BY <1>0, <2>1 DEF GroupsInv
<1> QED BY <1>1, <1>2, <1>3, <1>4 DEF SignalNext

\* Duplicates are counted once, for any posts, URLs, texts and likenesses: no post changes
\* its group, every group is one of a post in it, and a text nobody edited in is in one.
THEOREM GroupsHoldAlways == SignalSpec => []GroupsHold
<1>1. GroupsInv => GroupsHold
  <2> SUFFICES ASSUME GroupsInv PROVE GroupsHold
    OBVIOUS
  <2>1. Kin(signals) /\ OfOneText(signals)
    BY DEF GroupsInv, Grouped
  <2>2. \A text \in Text :
          LET holders == {p \in DOMAIN signals : \E n \in DOMAIN signals[p] : signals[p][n].text = text}
          IN (\A p \in holders : FirstText(p) = text /\ Unlinked(p))
                 => \A p, q \in holders : signals[p][1].group = signals[q][1].group
    BY <2>1 DEF OfOneText, Holders, Came, FirstText, Unlinked
  <2> QED BY <2>1, <2>2 DEF GroupsHold, Kin
<1> QED BY <1>1, GroupsInvInit, GroupsInvKept, PTL DEF SignalSpec
=============================================================================
