------------------------------ MODULE BulkProofs ------------------------------
(***************************************************************************)
(* Theorems about what is handed over in bulk: the links of users to       *)
(* partitions in PartitionUsers, for any number of requests, keys and      *)
(* groups, and the rows of ImportRows, for any number of imports and any   *)
(* sheets.                                                                 *)
(***************************************************************************)
EXTENDS ImportRows, PartitionUsers, FiniteSetTheorems, TLAPS

-----------------------------------------------------------------------------
(* PartitionUsers: types.                                                   *)

LEMMA LinkInitial == LinkInit => LinkTypeOK
  BY DEF LinkInit, LinkTypeOK, Syncing

\* A document that another group is written to is the same one otherwise.
LEMMA Regrouped ==
    ASSUME NEW d \in LinkDoc, NEW g \in Group \cup {NoGroup}
    PROVE  /\ [d EXCEPT !.group = g] \in LinkDoc
           /\ [d EXCEPT !.group = g].id = d.id /\ [d EXCEPT !.group = g].key = d.key
           /\ [d EXCEPT !.group = g].group = g
  BY DEF LinkDoc

LEMMA GroupsTyped ==
    ASSUME LinkTypeOK, NEW s \in Sync, NEW g \in Group \cup {NoGroup}
    PROVE  GroupsAfter(s, g) \subseteq Group \cup {NoGroup}
  BY DEF LinkTypeOK, GroupsAfter

LEMMA OverTyped ==
    ASSUME LinkTypeOK, NEW s \in Sync, Over(s), links' \in SUBSET links,
           synced' \in {NoItem} \cup [group : Group, keys : SUBSET LinkKey], met' = met
    PROVE  LinkTypeOK'
<1>1. \A t \in Sync : rest'[t] \subseteq bulk'[t]
  BY DEF LinkTypeOK, Over
<1>2. ASSUME NEW t \in Sync
      PROVE  item'[t] \in (IF at'[t] = "insert" THEN bulk'[t] ELSE {NoItem})
  BY DEF LinkTypeOK, Over
<1> QED
  BY <1>1, <1>2 DEF LinkTypeOK, Over

LEMMA UpsertFindsTyped ==
    ASSUME LinkTypeOK, NEW s \in Sync, UpsertFinds(s)
    PROVE  LinkTypeOK'
<1>1. PICK k \in rest[s] :
        /\ rest' = [rest EXCEPT ![s] = @ \ {k}]
        /\ \/ /\ Linked(k) = {}
              /\ at' = [at EXCEPT ![s] = "insert"]
              /\ item' = [item EXCEPT ![s] = k]
              /\ met' = IF Inserting(k) = {} THEN met ELSE met \cup {k}
              /\ UNCHANGED <<links, kept>>
           \/ /\ \E d \in Linked(k), g \in Group \cup {NoGroup} :
                  /\ g \in GroupsAfter(s, d.group)
                  /\ links' = (links \ {d}) \cup {[d EXCEPT !.group = g]}
                  /\ kept' = [kept EXCEPT ![s] = Kept(s, d.id)]
              /\ UNCHANGED <<at, item, met>>
  BY DEF UpsertFinds
<1>2. k \in bulk[s] /\ k \in LinkKey /\ UNCHANGED <<asked, lone, synced>>
  BY <1>1 DEF LinkTypeOK, UpsertFinds
<1>3. rest' \in [Sync -> SUBSET LinkKey] /\ \A t \in Sync : rest'[t] \subseteq bulk'[t]
  BY <1>1, <1>2 DEF LinkTypeOK, asked
<1>4. CASE UNCHANGED <<links, kept>> /\ at' = [at EXCEPT ![s] = "insert"] /\ item' = [item EXCEPT ![s] = k]
           /\ met' \in {met, met \cup {k}}
  <2>1. \A t \in Sync : item'[t] \in (IF at'[t] = "insert" THEN bulk'[t] ELSE {NoItem})
    BY <1>2, <1>4 DEF LinkTypeOK, asked
  <2>2. /\ at' \in [Sync -> {"idle", "upsert", "insert"}] /\ met' \in SUBSET LinkKey
        /\ item' \in [Sync -> LinkKey \cup {NoItem}]
    BY <1>2, <1>4 DEF LinkTypeOK
  <2> QED
    BY <1>2, <1>3, <1>4, <2>1, <2>2 DEF LinkTypeOK, asked
<1>5. ASSUME NEW d \in Linked(k), NEW g \in Group \cup {NoGroup},
             links' = (links \ {d}) \cup {[d EXCEPT !.group = g]},
             kept' = [kept EXCEPT ![s] = Kept(s, d.id)], UNCHANGED <<at, item, met>>
      PROVE  LinkTypeOK'
  <2> DEFINE new == [d EXCEPT !.group = g]
  <2>1. d \in links /\ d \in LinkDoc /\ d.id \in LinkId
    BY DEF Linked, LinkTypeOK, LinkDoc
  <2>2. new \in LinkDoc /\ new.id = d.id
    BY <2>1, Regrouped
  <2>3. links' \in SUBSET LinkDoc /\ \A a, b \in links' : a.id = b.id => a = b
    BY <1>5, <2>1, <2>2 DEF LinkTypeOK
  <2>4. kept' \in [Sync -> SUBSET LinkId]
    BY <1>5, <2>1 DEF LinkTypeOK, Kept
  <2> QED
    BY <1>2, <1>3, <1>5, <2>3, <2>4 DEF LinkTypeOK, asked
<1> QED
  BY <1>1, <1>4, <1>5

LEMMA UpsertInsertsTyped ==
    ASSUME LinkTypeOK, NEW s \in Sync, UpsertInserts(s)
    PROVE  LinkTypeOK'
<1>1. PICK i \in LinkId, g \in GroupsAfter(s, NoGroup) :
        /\ \A d \in links : d.id # i
        /\ links' = links \cup {[id |-> i, key |-> item[s], group |-> g]}
        /\ kept' = [kept EXCEPT ![s] = Kept(s, i)]
  BY DEF UpsertInserts
<1>2. item[s] \in LinkKey /\ g \in Group \cup {NoGroup}
  BY GroupsTyped DEF LinkTypeOK, UpsertInserts
<1>3. [id |-> i, key |-> item[s], group |-> g] \in LinkDoc
  BY <1>2 DEF LinkDoc
<1>4. links' \in SUBSET LinkDoc /\ \A d, e \in links' : d.id = e.id => d = e
  BY <1>1, <1>3 DEF LinkTypeOK
<1>5. kept' \in [Sync -> SUBSET LinkId]
  BY <1>1 DEF LinkTypeOK, Kept
<1>6. /\ at' \in [Sync -> {"idle", "upsert", "insert"}]
      /\ \A t \in Sync : item'[t] \in (IF at'[t] = "insert" THEN bulk'[t] ELSE {NoItem})
  BY DEF LinkTypeOK, UpsertInserts, asked
<1> QED
  BY <1>4, <1>5, <1>6 DEF LinkTypeOK, UpsertInserts, asked

LEMMA ReceiveTyped ==
    ASSUME LinkTypeOK, NEW s \in Sync, NEW keys \in SUBSET LinkKey, NEW f \in BOOLEAN,
           NEW g \in Group \cup {NoGroup}, Receive(s, keys, f, g)
    PROVE  LinkTypeOK'
<1>1. \A t \in Sync : rest'[t] \subseteq bulk'[t]
  BY DEF LinkTypeOK, Receive
<1>2. \A t \in Sync : item'[t] \in (IF at'[t] = "insert" THEN bulk'[t] ELSE {NoItem})
  BY DEF LinkTypeOK, Receive, Syncing
<1>3. kept' \in [Sync -> SUBSET LinkId] /\ lone' \in SUBSET Sync
  BY DEF LinkTypeOK, Receive
<1> QED
  BY <1>1, <1>2, <1>3 DEF LinkTypeOK, Receive

LEMMA SweepTyped ==
    ASSUME LinkTypeOK, NEW s \in Sync, Sweep(s), full[s] => group[s] # NoGroup
    PROVE  LinkTypeOK'
<1>1. links' \in SUBSET links
  BY DEF Sweep
<1>2. synced' \in {NoItem} \cup [group : Group, keys : SUBSET LinkKey]
  <2>1. CASE full[s] /\ s \in lone
    BY <2>1 DEF Sweep, LinkTypeOK
  <2>2. CASE ~ (full[s] /\ s \in lone)
    BY <2>2 DEF Sweep
  <2> QED
    BY <2>1, <2>2
<1> QED
  BY <1>1, <1>2, OverTyped DEF Sweep

-----------------------------------------------------------------------------
(* PartitionUsers: what the requests under way have done.                   *)

Aims(s) == at[s] = "insert"
Processed(s) == bulk[s] \ (rest[s] \cup {item[s]})
KeptLinks(s) == {d \in links : d.id \in kept[s]}

\* A key nobody met on is linked once.
UnmetOnce == \A d, e \in links : d.key = e.key /\ d.key \notin met => d = e

\* A request about to insert a key that is linked by now, or that another one is about
\* to insert as well, has met somebody.
MetInv ==
    /\ UnmetOnce
    /\ \A s \in Sync : Aims(s) /\ Linked(item[s]) # {} => item[s] \in met
    /\ \A s, t \in Sync : s # t /\ Aims(s) /\ Aims(t) /\ item[s] = item[t] => item[s] \in met

\* What a full synchronisation remembers are the links of its group with the keys it has
\* done, one of each.
Progress(s) ==
    /\ \A d \in KeptLinks(s) : d.group = group[s] /\ d.key \in Processed(s)
    /\ \A d, e \in KeptLinks(s) : d.key = e.key => d = e
    /\ \A k \in Processed(s) : \E d \in KeptLinks(s) : d.key = k

LoneInv ==
    /\ \A s \in Sync : full[s] => group[s] # NoGroup
    /\ \A s \in Sync : item[s] \notin rest[s]
    /\ \A s \in lone : Syncing(s) /\ \A t \in Sync : t # s => ~ Syncing(t)
    /\ \A s \in lone : full[s] => Progress(s)
    /\ synced # NoItem => \A s \in Sync : ~ Syncing(s)
    /\ LoneSyncIsExact

LinkInv == LinkTypeOK /\ MetInv /\ LoneInv

LEMMA LinkInvInitial == LinkInit => LinkInv
<1> SUFFICES ASSUME LinkInit PROVE LinkInv
  OBVIOUS
<1>1. MetInv
  BY DEF LinkInit, MetInv, UnmetOnce, Aims
<1>2. LoneInv
  BY DEF LinkInit, LoneInv, LoneSyncIsExact
<1> QED
  BY <1>1, <1>2, LinkInitial DEF LinkInv

LEMMA ReceiveStep ==
    ASSUME LinkInv, NEW s \in Sync, NEW keys \in SUBSET LinkKey, NEW f \in BOOLEAN,
           NEW g \in Group \cup {NoGroup}, Receive(s, keys, f, g), f => g # NoGroup
    PROVE  LinkInv'
<1>1. LinkTypeOK /\ LinkTypeOK'
  BY ReceiveTyped DEF LinkInv
<1>2. /\ UNCHANGED <<links, item, met>> /\ ~ Syncing(s) /\ synced' = NoItem
      /\ lone' = IF \A t \in Sync : ~ Syncing(t) THEN {s} ELSE {}
      /\ at'[s] = "upsert" /\ \A t \in Sync : t # s => at'[t] = at[t]
      /\ full'[s] = f /\ \A t \in Sync : t # s => full'[t] = full[t]
      /\ group'[s] = g /\ \A t \in Sync : t # s => group'[t] = group[t]
      /\ rest'[s] = keys /\ \A t \in Sync : t # s => rest'[t] = rest[t]
      /\ bulk'[s] = keys /\ kept'[s] = {}
  BY <1>1 DEF Receive, LinkTypeOK
<1>3. \A t \in Sync : Aims(t)' => Aims(t)
  BY <1>2 DEF Aims
<1>4. \A k : Linked(k)' = Linked(k)
  BY <1>2 DEF Linked
<1>5. MetInv'
  BY <1>2, <1>3, <1>4 DEF LinkInv, MetInv, UnmetOnce
<1>6. item[s] = NoItem
  BY <1>1, <1>2 DEF LinkTypeOK, Syncing
<1>7. \A t \in Sync : item'[t] \notin rest'[t]
  BY <1>2, <1>6, NoItemAssumption DEF LinkInv, LoneInv
<1>8. \A t \in lone' : Syncing(t)' /\ \A u \in Sync : u # t => ~ Syncing(u)'
  BY <1>2 DEF Syncing
<1>9. Progress(s)'
  BY <1>2 DEF Progress, KeptLinks, Processed
<1>10. \A t \in lone' : full'[t] => Progress(t)'
  BY <1>2, <1>9
<1>11. LoneSyncIsExact'
  BY <1>2 DEF LoneSyncIsExact
<1> QED
  BY <1>1, <1>2, <1>5, <1>7, <1>8, <1>10, <1>11 DEF LinkInv, LoneInv

\* A request that ends leaves the others where they were, and nothing was linked.
LEMMA OverStep ==
    ASSUME LinkInv, NEW s \in Sync, Syncing(s), Over(s), links' \in SUBSET links,
           UNCHANGED met, LinkTypeOK',
           synced' # NoItem => lone = {s},
           LoneSyncIsExact'
    PROVE  LinkInv'
<1>1. LinkTypeOK
  BY DEF LinkInv
<1>2. /\ lone' = lone \ {s}
      /\ at'[s] = "idle" /\ \A t \in Sync : t # s => at'[t] = at[t]
      /\ item'[s] = NoItem /\ \A t \in Sync : t # s => item'[t] = item[t]
      /\ rest'[s] = {} /\ \A t \in Sync : t # s => rest'[t] = rest[t]
      /\ full'[s] = FALSE /\ \A t \in Sync : t # s => full'[t] = full[t]
      /\ group'[s] = NoGroup /\ \A t \in Sync : t # s => group'[t] = group[t]
  BY <1>1 DEF Over, LinkTypeOK
<1>3. \A t \in Sync : Aims(t)' => Aims(t) /\ t # s
  BY <1>2 DEF Aims
<1>4. ASSUME NEW t \in Sync, Aims(t)', Linked(item[t])' # {} PROVE item'[t] \in met'
  <2>1. item'[t] = item[t] /\ Aims(t)
    BY <1>2, <1>3, <1>4
  <2>2. Linked(item[t]) # {}
    BY <1>4, <2>1 DEF Linked
  <2> QED
    BY <2>1, <2>2 DEF LinkInv, MetInv
<1>5. \A t, u \in Sync : t # u /\ Aims(t)' /\ Aims(u)' /\ item'[t] = item'[u] => item'[t] \in met'
  BY <1>2, <1>3 DEF LinkInv, MetInv
<1>6. UnmetOnce'
  BY DEF LinkInv, MetInv, UnmetOnce
<1>7. lone' = {}
  BY <1>2 DEF LinkInv, LoneInv, LinkTypeOK
<1>8. synced' # NoItem => \A t \in Sync : ~ Syncing(t)'
  BY <1>2 DEF LinkInv, LoneInv, Syncing
<1>9. \A t \in Sync : item'[t] \notin rest'[t] /\ (full'[t] => group'[t] # NoGroup)
  BY <1>2 DEF LinkInv, LoneInv
<1> QED
  BY <1>4, <1>5, <1>6, <1>7, <1>8, <1>9 DEF LinkInv, MetInv, LoneInv

LEMMA SyncBreaksStep == ASSUME LinkInv, NEW s \in Sync, SyncBreaks(s) PROVE LinkInv'
<1>1. UNCHANGED <<links, synced, met>> /\ Syncing(s) /\ Over(s) /\ LinkTypeOK
  BY DEF SyncBreaks, LinkInv
<1>2. LinkTypeOK'
  BY <1>1, OverTyped DEF LinkTypeOK
<1>3. synced = NoItem
  BY <1>1 DEF LinkInv, LoneInv
<1>4. LoneSyncIsExact'
  BY <1>1, <1>3 DEF LoneSyncIsExact
<1> QED
  BY <1>1, <1>2, <1>3, <1>4, OverStep

LEMMA SweepStep == ASSUME LinkInv, NEW s \in Sync, Sweep(s) PROVE LinkInv'
<1>1. /\ LinkTypeOK /\ Over(s) /\ Syncing(s) /\ UNCHANGED met /\ rest[s] = {} /\ item[s] = NoItem
      /\ links' = IF full[s] THEN {d \in links : d.group = group[s] => d.id \in kept[s]} ELSE links
      /\ synced' = IF full[s] /\ s \in lone THEN [group |-> group[s], keys |-> bulk[s]] ELSE NoItem
  BY DEF Sweep, Syncing, LinkInv, LinkTypeOK
<1>2. full[s] => group[s] # NoGroup
  BY DEF LinkInv, LoneInv
<1>3. LinkTypeOK' /\ links' \in SUBSET links
  BY <1>1, <1>2, SweepTyped
<1>4. LoneSyncIsExact'
  <2>1. CASE full[s] /\ s \in lone
    <3>1. Progress(s) /\ synced'.group = group[s] /\ synced'.keys = bulk[s]
      BY <1>1, <2>1 DEF LinkInv, LoneInv
    <3>2. Processed(s) = bulk[s]
      BY <1>1, NoItemAssumption DEF Processed, LinkTypeOK
    <3>3. {d \in links' : d.group = group[s]} = KeptLinks(s)
      BY <1>1, <2>1, <3>1 DEF Progress, KeptLinks
    <3>4. {d.key : d \in KeptLinks(s)} = bulk[s]
      BY <3>1, <3>2 DEF Progress
    <3>5. \A d, e \in KeptLinks(s) : d.key = e.key => d = e
      BY <3>1 DEF Progress
    <3> QED
      BY <3>1, <3>3, <3>4, <3>5 DEF LoneSyncIsExact, InGroup
  <2>2. CASE ~ (full[s] /\ s \in lone)
    BY <1>1, <2>2 DEF LoneSyncIsExact
  <2> QED
    BY <2>1, <2>2
<1>5. \A t \in lone : t = s
  BY <1>1 DEF LinkInv, LoneInv, LinkTypeOK
<1> QED
  BY <1>1, <1>3, <1>4, <1>5, OverStep

\* The search of an upsert finds nothing: the key is about to be inserted.
LEMMA AimStep ==
    ASSUME LinkInv, NEW s \in Sync, at[s] = "upsert", NEW k \in rest[s], Linked(k) = {},
           rest' = [rest EXCEPT ![s] = @ \ {k}],
           at' = [at EXCEPT ![s] = "insert"], item' = [item EXCEPT ![s] = k],
           met' = IF Inserting(k) = {} THEN met ELSE met \cup {k},
           UNCHANGED <<links, kept, asked, lone, synced>>, LinkTypeOK'
    PROVE  LinkInv'
<1>0. LinkTypeOK /\ k \in bulk[s] /\ item[s] = NoItem /\ k \in LinkKey
  BY DEF LinkInv, LinkTypeOK
<1>1. /\ at'[s] = "insert" /\ \A t \in Sync : t # s => at'[t] = at[t]
      /\ item'[s] = k /\ \A t \in Sync : t # s => item'[t] = item[t]
      /\ rest'[s] = rest[s] \ {k} /\ \A t \in Sync : t # s => rest'[t] = rest[t]
      /\ UNCHANGED <<links, kept, bulk, full, group, lone, synced>> /\ met \subseteq met'
  BY <1>0 DEF LinkTypeOK, asked
<1>2. \A x : Linked(x)' = Linked(x)
  BY <1>1 DEF Linked
<1>3. ASSUME NEW t \in Sync, Aims(t)', Linked(item[t])' # {} PROVE item'[t] \in met'
  <2>1. Linked(item'[t]) # {}
    BY <1>3, <1>1 DEF Linked
  <2>2. t # s
    BY <1>1, <2>1
  <2> QED
    BY <1>1, <1>3, <2>1, <2>2 DEF LinkInv, MetInv, Aims
<1>4. ASSUME NEW t \in Sync, NEW u \in Sync, t # u, Aims(t)', Aims(u)', item'[t] = item'[u]
      PROVE  item'[t] \in met'
  <2>1. CASE t # s /\ u # s
    BY <1>1, <1>4, <2>1 DEF LinkInv, MetInv, Aims
  <2>2. ASSUME NEW v \in Sync, v # s, Aims(v), item[v] = k PROVE k \in met'
    BY <2>2 DEF Inserting, Aims
  <2> QED
    BY <1>1, <1>4, <2>1, <2>2 DEF Aims
<1>5. UnmetOnce'
  BY <1>1 DEF LinkInv, MetInv, UnmetOnce
<1>6. \A t \in Sync : Syncing(t)' <=> Syncing(t)
  BY <1>1 DEF Syncing
<1>7. \A t \in Sync : item'[t] \notin rest'[t]
  BY <1>1 DEF LinkInv, LoneInv
<1>8. \A t \in lone : full'[t] => Progress(t)'
  <2> SUFFICES ASSUME NEW t \in lone, full[t] PROVE Progress(t)'
    BY <1>1
  <2>1. Processed(t)' = Processed(t)
    <3>1. NoItem \notin bulk[s] /\ t \in Sync
      BY <1>0, NoItemAssumption DEF LinkTypeOK
    <3> QED
      BY <1>0, <1>1, <3>1 DEF Processed
  <2> QED
    BY <1>1, <2>1 DEF LinkInv, LoneInv, Progress, KeptLinks
<1>9. LoneSyncIsExact'
  BY <1>1 DEF LinkInv, LoneInv, LoneSyncIsExact, InGroup
<1>10. MetInv'
  BY <1>3, <1>4, <1>5 DEF MetInv
<1>11. \A t \in Sync : full'[t] => group'[t] # NoGroup
  BY <1>1 DEF LinkInv, LoneInv
<1>12. \A t \in lone' : Syncing(t)' /\ \A u \in Sync : u # t => ~ Syncing(u)'
  BY <1>0, <1>1, <1>6 DEF LinkInv, LoneInv, LinkTypeOK
<1>13. synced' # NoItem => \A t \in Sync : ~ Syncing(t)'
  BY <1>1, <1>6 DEF LinkInv, LoneInv
<1>14. LoneInv'
  BY <1>1, <1>7, <1>8, <1>9, <1>11, <1>12, <1>13 DEF LoneInv
<1> QED
  BY <1>10, <1>14 DEF LinkInv

\* What an upsert of a full synchronisation that runs alone adds to what it has done.
LEMMA ProgressMade ==
    ASSUME LinkInv, NEW s \in lone, full[s], NEW k \in bulk[s], k \notin Processed(s),
           NEW new \in links', new.key = k, new.group = group[s],
           kept'[s] = kept[s] \cup {new.id},
           UNCHANGED <<bulk, group>>, Processed(s)' = Processed(s) \cup {k},
           \A d \in links' : d # new => d \in links /\ d.id # new.id,
           \A d \in links : d.id \in kept[s] => d \in links' /\ d # new
    PROVE  Progress(s)'
<1>1. Progress(s)
  BY DEF LinkInv, LoneInv
<1>2. \A d : d \in KeptLinks(s)' <=> d \in KeptLinks(s) \/ d = new
  BY DEF KeptLinks
<1>3. \A d \in KeptLinks(s) : d.key # k
  BY <1>1 DEF Progress
<1>4. \A d \in KeptLinks(s)' : d.group = group'[s] /\ d.key \in Processed(s)'
  BY <1>1, <1>2 DEF Progress
<1>5. \A d, e \in KeptLinks(s)' : d.key = e.key => d = e
  BY <1>1, <1>2, <1>3 DEF Progress
<1>6. \A x \in Processed(s)' : \E d \in KeptLinks(s)' : d.key = x
  BY <1>1, <1>2 DEF Progress
<1> QED
  BY <1>4, <1>5, <1>6 DEF Progress

\* The search of an upsert finds a link: it gets the group of the request.
LEMMA RegroupStep ==
    ASSUME LinkInv, NEW s \in Sync, at[s] = "upsert", NEW k \in rest[s],
           rest' = [rest EXCEPT ![s] = @ \ {k}], NEW d \in Linked(k),
           NEW g \in Group \cup {NoGroup}, g \in GroupsAfter(s, d.group),
           links' = (links \ {d}) \cup {[d EXCEPT !.group = g]},
           kept' = [kept EXCEPT ![s] = Kept(s, d.id)],
           UNCHANGED <<at, item, met, asked, lone, synced>>, LinkTypeOK'
    PROVE  LinkInv'
<1> DEFINE new == [d EXCEPT !.group = g]
<1>0. LinkTypeOK /\ k \in bulk[s] /\ item[s] = NoItem /\ k \in LinkKey /\ Syncing(s)
  BY DEF LinkInv, LinkTypeOK, Syncing
<1>1. d \in links /\ d \in LinkDoc /\ d.key = k
  BY <1>0 DEF Linked, LinkTypeOK
<1>2. new.id = d.id /\ new.key = k /\ new.group = g
  BY <1>1, Regrouped
<1> HIDE DEF new
<1>3. links' = (links \ {d}) \cup {new}
  BY DEF new
<1>4. /\ rest'[s] = rest[s] \ {k} /\ \A t \in Sync : t # s => rest'[t] = rest[t]
      /\ kept'[s] = Kept(s, d.id) /\ \A t \in Sync : t # s => kept'[t] = kept[t]
      /\ UNCHANGED <<at, item, met, bulk, full, group, lone, synced>>
  BY <1>0 DEF LinkTypeOK, asked
<1>5. \A x : Linked(x)' # {} => Linked(x) # {}
  BY <1>1, <1>2, <1>3 DEF Linked
<1>6. MetInv'
  <2>1. UnmetOnce'
    BY <1>1, <1>2, <1>3, <1>4 DEF LinkInv, MetInv, UnmetOnce
  <2>2. \A t \in Sync : Aims(t)' /\ Linked(item[t])' # {} => item'[t] \in met'
    <3> SUFFICES ASSUME NEW t \in Sync, Aims(t), Linked(item[t])' # {} PROVE item[t] \in met
      BY <1>4 DEF Aims
    <3>1. Linked(item[t]) # {}
      BY <1>1, <1>2, <1>3, <1>4 DEF Linked
    <3> QED
      BY <3>1 DEF LinkInv, MetInv
  <2>3. \A t, u \in Sync : t # u /\ Aims(t)' /\ Aims(u)' /\ item'[t] = item'[u] => item'[t] \in met'
    BY <1>4 DEF LinkInv, MetInv, Aims
  <2> QED
    BY <2>1, <2>2, <2>3 DEF MetInv
<1>7. synced = NoItem
  BY <1>0 DEF LinkInv, LoneInv
<1>8. ASSUME NEW t \in lone, full[t] PROVE Progress(t)'
  <2>1. t = s
    BY <1>0, <1>8 DEF LinkInv, LoneInv, LinkTypeOK
  <2>2. /\ Progress(s) /\ k \notin Processed(s) /\ group[s] # NoGroup
        /\ \A e \in links : e.id = d.id => e = d
    BY <1>0, <1>1, <1>8, <2>1 DEF LinkInv, LoneInv, Processed, LinkTypeOK
  <2>3. d \notin KeptLinks(s)
    BY <1>1, <2>2 DEF Progress
  <2>4. g = group[s]
    BY <2>2 DEF GroupsAfter
  <2>5. kept'[s] = kept[s] \cup {new.id}
    BY <1>2, <1>4, <1>8, <2>1 DEF Kept
  <2>6. Processed(s)' = Processed(s) \cup {k}
    BY <1>0, <1>4, NoItemAssumption DEF Processed
  <2>7. new \in links' /\ \A e \in links' : e # new => e \in links /\ e.id # new.id
    BY <1>2, <1>3, <2>2
  <2>8. \A e \in links : e.id \in kept[s] => e \in links' /\ e # new
    BY <1>1, <1>2, <1>3, <2>2, <2>3 DEF KeptLinks
  <2> QED
    BY <1>0, <1>2, <1>4, <1>8, <2>1, <2>2, <2>4, <2>5, <2>6, <2>7, <2>8, ProgressMade
<1>9. LoneSyncIsExact'
  BY <1>4, <1>7 DEF LoneSyncIsExact
<1>10. \A t \in Sync : item'[t] \notin rest'[t]
  BY <1>0, <1>4 DEF LinkInv, LoneInv
<1>11. \A t \in Sync : Syncing(t)' <=> Syncing(t)
  BY <1>4 DEF Syncing
<1>12. \A t \in Sync : full'[t] => group'[t] # NoGroup
  BY <1>4 DEF LinkInv, LoneInv
<1>13. \A t \in lone' : Syncing(t)' /\ \A u \in Sync : u # t => ~ Syncing(u)'
  BY <1>0, <1>4, <1>11 DEF LinkInv, LoneInv, LinkTypeOK
<1>14. LoneInv'
  BY <1>4, <1>7, <1>8, <1>9, <1>10, <1>12, <1>13 DEF LoneInv
<1> QED
  BY <1>6, <1>14 DEF LinkInv

LEMMA UpsertFindsStep == ASSUME LinkInv, NEW s \in Sync, UpsertFinds(s) PROVE LinkInv'
<1>1. LinkTypeOK'
  BY UpsertFindsTyped DEF LinkInv
<1> QED
  BY <1>1, AimStep, RegroupStep DEF UpsertFinds

LEMMA UpsertInsertsStep == ASSUME LinkInv, NEW s \in Sync, UpsertInserts(s) PROVE LinkInv'
<1>0. /\ LinkTypeOK /\ LinkTypeOK' /\ at[s] = "insert" /\ item[s] \in bulk[s] /\ item[s] \in LinkKey
      /\ Syncing(s) /\ Aims(s)
  BY UpsertInsertsTyped DEF LinkInv, LinkTypeOK, UpsertInserts, Syncing, Aims
<1>1. PICK i \in LinkId, g \in GroupsAfter(s, NoGroup) :
        /\ \A d \in links : d.id # i
        /\ \A t \in Sync : i \notin kept[t]
        /\ links' = links \cup {[id |-> i, key |-> item[s], group |-> g]}
        /\ kept' = [kept EXCEPT ![s] = Kept(s, i)]
  BY DEF UpsertInserts
<1> DEFINE new == [id |-> i, key |-> item[s], group |-> g]
<1>2. new.id = i /\ new.key = item[s] /\ new.group = g /\ links' = links \cup {new}
  BY <1>1
<1> HIDE DEF new
<1>3. /\ at'[s] = "upsert" /\ \A t \in Sync : t # s => at'[t] = at[t]
      /\ item'[s] = NoItem /\ \A t \in Sync : t # s => item'[t] = item[t]
      /\ kept'[s] = Kept(s, i) /\ \A t \in Sync : t # s => kept'[t] = kept[t]
      /\ UNCHANGED <<bulk, full, group, rest, lone, synced, met>>
  BY <1>0, <1>1 DEF UpsertInserts, LinkTypeOK, asked
<1>4. UnmetOnce'
  <2>1. \A d \in links : d.key = item[s] => item[s] \in met
    BY <1>0 DEF LinkInv, MetInv, Linked
  <2> QED
    BY <1>2, <1>3, <2>1 DEF LinkInv, MetInv, UnmetOnce
<1>5. ASSUME NEW t \in Sync, Aims(t)', Linked(item[t])' # {} PROVE item'[t] \in met'
  <2>1. t # s /\ Aims(t) /\ item'[t] = item[t]
    BY <1>3, <1>5 DEF Aims
  <2>2. CASE item[t] = item[s]
    BY <1>0, <1>3, <2>1, <2>2 DEF LinkInv, MetInv
  <2>3. CASE item[t] # item[s]
    <3>1. Linked(item[t]) # {}
      BY <1>2, <1>5, <2>1, <2>3 DEF Linked
    <3> QED
      BY <1>3, <2>1, <3>1 DEF LinkInv, MetInv
  <2> QED
    BY <2>2, <2>3
<1>6. \A t, u \in Sync : t # u /\ Aims(t)' /\ Aims(u)' /\ item'[t] = item'[u] => item'[t] \in met'
  BY <1>3 DEF LinkInv, MetInv, Aims
<1>7. synced = NoItem
  BY <1>0 DEF LinkInv, LoneInv
<1>8. ASSUME NEW t \in lone, full[t] PROVE Progress(t)'
  <2>1. t = s
    BY <1>0, <1>8 DEF LinkInv, LoneInv, LinkTypeOK
  <2>2. g = group[s]
    BY <1>8, <2>1 DEF LinkInv, LoneInv, LinkTypeOK, GroupsAfter
  <2>3. kept'[s] = kept[s] \cup {new.id}
    BY <1>2, <1>3, <1>8, <2>1 DEF Kept
  <2>4. item[s] \notin Processed(s) /\ item[s] \notin rest[s]
    BY DEF Processed, LinkInv, LoneInv
  <2>5. Processed(s)' = Processed(s) \cup {item[s]}
    BY <1>0, <1>3, <2>4, NoItemAssumption DEF Processed, LinkTypeOK
  <2>6. new \in links' /\ \A d \in links' : d # new => d \in links /\ d.id # new.id
    BY <1>1, <1>2
  <2>7. \A d \in links : d.id \in kept[s] => d \in links' /\ d # new
    BY <1>1, <1>2
  <2> QED
    BY <1>0, <1>2, <1>3, <1>8, <2>1, <2>2, <2>3, <2>4, <2>5, <2>6, <2>7, ProgressMade
<1>9. LoneSyncIsExact'
  BY <1>3, <1>7 DEF LoneSyncIsExact
<1>10. \A t \in Sync : item'[t] \notin rest'[t]
  BY <1>0, <1>3, NoItemAssumption DEF LinkInv, LoneInv, LinkTypeOK
<1>11. \A t \in Sync : Syncing(t)' <=> Syncing(t)
  BY <1>0, <1>3 DEF Syncing
<1>12. MetInv'
  BY <1>4, <1>5, <1>6 DEF MetInv
<1>13. \A t \in Sync : full'[t] => group'[t] # NoGroup
  BY <1>3 DEF LinkInv, LoneInv
<1>14. \A t \in lone' : Syncing(t)' /\ \A u \in Sync : u # t => ~ Syncing(u)'
  BY <1>0, <1>3, <1>11 DEF LinkInv, LoneInv, LinkTypeOK
<1>15. LoneInv'
  BY <1>3, <1>7, <1>8, <1>9, <1>10, <1>13, <1>14 DEF LoneInv
<1> QED
  BY <1>0, <1>12, <1>15 DEF LinkInv

LEMMA LinkStep == LinkInv /\ [LinkNext]_linkVars => LinkInv'
<1> SUFFICES ASSUME LinkInv, [LinkNext]_linkVars PROVE LinkInv'
  OBVIOUS
<1>1. ASSUME NEW s \in Sync, SyncBulk(s) PROVE LinkInv'
  <2>1. PICK keys \in SUBSET CodeKey, f \in BOOLEAN, g \in Group \cup {NoGroup} :
          (f => g # NoGroup) /\ Receive(s, keys, f, g)
    BY <1>1 DEF SyncBulk
  <2>2. keys \in SUBSET LinkKey
    BY DEF LinkKey
  <2> QED
    BY <2>1, <2>2, ReceiveStep
<1>2. ASSUME NEW s \in Sync, SyncItems(s) PROVE LinkInv'
  <2>1. PICK keys \in SUBSET UserKey : Receive(s, keys, FALSE, NoGroup)
    BY <1>2 DEF SyncItems
  <2>2. keys \in SUBSET LinkKey
    BY DEF LinkKey
  <2> QED
    BY <2>1, <2>2, ReceiveStep
<1>3. CASE UNCHANGED linkVars
  <2>1. LinkTypeOK'
    BY <1>3 DEF LinkInv, LinkTypeOK, linkVars, asked
  <2>2. MetInv'
    BY <1>3 DEF LinkInv, MetInv, UnmetOnce, Aims, Linked, linkVars, asked
  <2>3. LoneInv'
    BY <1>3 DEF LinkInv, LoneInv, Syncing, Progress, KeptLinks, Processed, LoneSyncIsExact,
                InGroup, linkVars, asked
  <2> QED
    BY <2>1, <2>2, <2>3 DEF LinkInv
<1> QED
  BY <1>1, <1>2, <1>3, UpsertFindsStep, UpsertInsertsStep, SweepStep, SyncBreaksStep DEF LinkNext

\* Every variable keeps its type; `_id` stays unique.
THEOREM LinkTypeCorrect == LinkSpec => []LinkTypeOK
  BY LinkInvInitial, LinkStep, PTL DEF LinkSpec, LinkInv

\* A request that did not find a key is one link of it to come, and the only way to more.
FewInv ==
    \A k \in LinkKey : /\ IsFiniteSet(Linked(k))
                       /\ Cardinality(Linked(k)) + Cardinality(Inserting(k)) <= Cardinality(Sync)

\* The requests about to insert a key are finitely many.
LEMMA InsertingFinite ==
    ASSUME NEW k
    PROVE  /\ IsFiniteSet(Inserting(k)) /\ Cardinality(Inserting(k)) \in Nat
           /\ Cardinality(Inserting(k)) <= Cardinality(Sync) /\ Cardinality(Sync) \in Nat
<1>1. Inserting(k) \in SUBSET Sync
  BY DEF Inserting
<1>2. IsFiniteSet(Inserting(k)) /\ Cardinality(Inserting(k)) <= Cardinality(Sync)
  BY <1>1, FS_Subset, SyncAssumption
<1> QED
  BY <1>2, FS_CardinalityType, SyncAssumption

\* A set grows by at most one.
LEMMA OneMore ==
    ASSUME NEW S, NEW x, IsFiniteSet(S)
    PROVE  IsFiniteSet(S \cup {x}) /\ Cardinality(S \cup {x}) <= Cardinality(S) + 1
<1>1. Cardinality(S) \in Nat
  BY FS_CardinalityType
<1> QED
  BY <1>1, FS_AddElement

\* One element is replaced by another.
LEMMA OneChanged ==
    ASSUME NEW S, NEW x, NEW y, x \in S, IsFiniteSet(S)
    PROVE  /\ IsFiniteSet((S \ {x}) \cup {y})
           /\ Cardinality((S \ {x}) \cup {y}) <= Cardinality(S)
<1>1. IsFiniteSet(S \ {x}) /\ Cardinality(S \ {x}) = Cardinality(S) - 1
  BY FS_RemoveElement
<1>2. Cardinality(S) \in Nat /\ Cardinality(S \ {x}) \in Nat
  BY <1>1, FS_CardinalityType
<1>3. /\ IsFiniteSet((S \ {x}) \cup {y})
      /\ Cardinality((S \ {x}) \cup {y}) <= Cardinality(S \ {x}) + 1
  BY <1>1, OneMore
<1>4. Cardinality((S \ {x}) \cup {y}) \in Nat
  BY <1>3, FS_CardinalityType
<1> QED
  BY <1>1, <1>2, <1>3, <1>4

\* A step after which no more links of the key are there or to come.
LEMMA FewKept ==
    ASSUME FewInv, NEW k \in LinkKey, Linked(k)' \subseteq Linked(k), Inserting(k)' \subseteq Inserting(k)
    PROVE  /\ IsFiniteSet(Linked(k)')
           /\ Cardinality(Linked(k)') + Cardinality(Inserting(k)') <= Cardinality(Sync)
<1>1. IsFiniteSet(Linked(k)) /\ Cardinality(Linked(k)) \in Nat
  BY FS_CardinalityType DEF FewInv
<1>2. /\ Cardinality(Linked(k)') <= Cardinality(Linked(k)) /\ IsFiniteSet(Linked(k)')
      /\ Cardinality(Inserting(k)') <= Cardinality(Inserting(k)) /\ IsFiniteSet(Inserting(k)')
  BY <1>1, InsertingFinite, FS_Subset
<1>3. Cardinality(Linked(k)') \in Nat /\ Cardinality(Inserting(k)') \in Nat
  BY <1>2, FS_CardinalityType
<1> QED
  BY <1>1, <1>2, <1>3, InsertingFinite DEF FewInv

\* A search finds a link, and changes its group, or makes its request one to come.
LEMMA FewFinds ==
    ASSUME LinkTypeOK, FewInv, NEW s \in Sync, UpsertFinds(s), NEW k \in LinkKey
    PROVE  /\ IsFiniteSet(Linked(k)')
           /\ Cardinality(Linked(k)') + Cardinality(Inserting(k)') <= Cardinality(Sync)
<1>1. PICK j \in rest[s] :
         \/ /\ Linked(j) = {} /\ UNCHANGED links
            /\ at' = [at EXCEPT ![s] = "insert"]
            /\ item' = [item EXCEPT ![s] = j]
         \/ /\ \E d \in Linked(j), g \in Group \cup {NoGroup} :
                  links' = (links \ {d}) \cup {[d EXCEPT !.group = g]}
            /\ UNCHANGED <<at, item>>
  BY DEF UpsertFinds
<1>2. CASE Linked(j) = {} /\ UNCHANGED links /\ at' = [at EXCEPT ![s] = "insert"]
             /\ item' = [item EXCEPT ![s] = j]
  <2>1. Linked(k)' = Linked(k)
    BY <1>2 DEF Linked
  <2>2. CASE k = j
    <3>1. Linked(k)' = {}
      BY <1>2, <2>1, <2>2
    <3>2. Inserting(k)' \in SUBSET Sync
      BY DEF Inserting
    <3>3. IsFiniteSet(Inserting(k)') /\ Cardinality(Inserting(k)') <= Cardinality(Sync)
      BY <3>2, FS_Subset, SyncAssumption
    <3>4. Cardinality(Inserting(k)') \in Nat /\ IsFiniteSet(Linked(k)') /\ Cardinality(Linked(k)') = 0
      BY <3>1, <3>3, FS_CardinalityType, FS_EmptySet
    <3> QED
      BY <3>3, <3>4, InsertingFinite
  <2>3. CASE k # j
    <3>1. Inserting(k)' \subseteq Inserting(k)
      BY <1>2, <2>3 DEF Inserting, LinkTypeOK
    <3> QED
      BY <2>1, <3>1, FewKept
  <2> QED
    BY <2>2, <2>3
<1>3. CASE /\ \E d \in Linked(j), g \in Group \cup {NoGroup} :
                links' = (links \ {d}) \cup {[d EXCEPT !.group = g]}
           /\ UNCHANGED <<at, item>>
  <2>1. PICK d \in Linked(j), g \in Group \cup {NoGroup} :
           links' = (links \ {d}) \cup {[d EXCEPT !.group = g]}
    BY <1>3
  <2> DEFINE new == [d EXCEPT !.group = g]
  <2>2. d \in links /\ d.key = j /\ new.key = j
    BY <2>1, Regrouped DEF Linked, LinkTypeOK
  <2>3. links' = (links \ {d}) \cup {new}
    BY <2>1
  <2> HIDE DEF new
  <2>4. Inserting(k)' = Inserting(k)
    BY <1>3 DEF Inserting
  <2>5. CASE k = j
    <3>1. Linked(k)' = (Linked(k) \ {d}) \cup {new} /\ d \in Linked(k)
      BY <2>2, <2>3, <2>5 DEF Linked
    <3>2. IsFiniteSet(Linked(k)) /\ Cardinality(Linked(k)) \in Nat
      BY FS_CardinalityType DEF FewInv
    <3>3. IsFiniteSet(Linked(k)') /\ Cardinality(Linked(k)') <= Cardinality(Linked(k))
      <4>1. d \in Linked(k) /\ IsFiniteSet(Linked(k))
        BY <3>1, <3>2
      <4>2. /\ IsFiniteSet((Linked(k) \ {d}) \cup {new})
            /\ Cardinality((Linked(k) \ {d}) \cup {new}) <= Cardinality(Linked(k))
        BY <4>1, OneChanged
      <4> QED
        BY <3>1, <4>2
    <3>4. Cardinality(Linked(k)') \in Nat
      BY <3>3, FS_CardinalityType
    <3> QED
      BY <2>4, <3>2, <3>3, <3>4, InsertingFinite DEF FewInv
  <2>6. CASE k # j
    <3>1. Linked(k)' \subseteq Linked(k)
      BY <2>2, <2>3, <2>6 DEF Linked
    <3> QED
      BY <2>4, <3>1, FewKept
  <2> QED
    BY <2>5, <2>6
<1> QED
  BY <1>1, <1>2, <1>3

\* An insert moves one from the requests to the links.
LEMMA FewInserts ==
    ASSUME LinkTypeOK, FewInv, NEW s \in Sync, UpsertInserts(s), NEW k \in LinkKey
    PROVE  /\ IsFiniteSet(Linked(k)')
           /\ Cardinality(Linked(k)') + Cardinality(Inserting(k)') <= Cardinality(Sync)
<1>1. PICK i \in LinkId, g \in GroupsAfter(s, NoGroup) :
         links' = links \cup {[id |-> i, key |-> item[s], group |-> g]}
  BY DEF UpsertInserts
<1> DEFINE new == [id |-> i, key |-> item[s], group |-> g]
<1>2. links' = links \cup {new} /\ new.key = item[s]
  BY <1>1
<1> HIDE DEF new
<1>3. at[s] = "insert" /\ item[s] # NoItem /\ Inserting(k)' = Inserting(k) \ {s}
  BY NoItemAssumption DEF UpsertInserts, Inserting, LinkTypeOK
<1>4. CASE k = item[s]
  <2>1. s \in Inserting(k)
    BY <1>3, <1>4 DEF Inserting
  <2>2. Cardinality(Inserting(k)') = Cardinality(Inserting(k)) - 1
    BY <1>3, <2>1, InsertingFinite, FS_RemoveElement
  <2>3. Linked(k)' = Linked(k) \cup {new}
    BY <1>2, <1>4 DEF Linked
  <2>4. IsFiniteSet(Linked(k)) /\ Cardinality(Linked(k)) \in Nat
    BY FS_CardinalityType DEF FewInv
  <2>5. IsFiniteSet(Linked(k)') /\ Cardinality(Linked(k)') <= Cardinality(Linked(k)) + 1
    BY <2>3, <2>4, OneMore
  <2>6. Cardinality(Linked(k)') \in Nat
    BY <2>5, FS_CardinalityType
  <2> QED
    BY <2>2, <2>4, <2>5, <2>6, InsertingFinite DEF FewInv
<1>5. CASE k # item[s]
  <2>1. Linked(k)' \subseteq Linked(k) /\ Inserting(k)' \subseteq Inserting(k)
    BY <1>2, <1>3, <1>5 DEF Linked
  <2> QED
    BY <2>1, FewKept
<1> QED
  BY <1>4, <1>5

\* The other steps take links away and make no request insert.
LEMMA FewStep == LinkTypeOK /\ FewInv /\ [LinkNext]_linkVars => FewInv'
<1> SUFFICES ASSUME LinkTypeOK, FewInv, [LinkNext]_linkVars, NEW k \in LinkKey
             PROVE  /\ IsFiniteSet(Linked(k)')
                    /\ Cardinality(Linked(k)') + Cardinality(Inserting(k)') <= Cardinality(Sync)
  BY DEF FewInv
<1>1. ASSUME NEW s \in Sync, SyncBulk(s) \/ SyncItems(s)
      PROVE  Linked(k)' \subseteq Linked(k) /\ Inserting(k)' \subseteq Inserting(k)
  BY <1>1 DEF SyncBulk, SyncItems, Receive, Linked, Inserting, LinkTypeOK
<1>2. ASSUME NEW s \in Sync, Sweep(s) \/ SyncBreaks(s)
      PROVE  Linked(k)' \subseteq Linked(k) /\ Inserting(k)' \subseteq Inserting(k)
  <2>1. links' \subseteq links
    BY <1>2 DEF Sweep, SyncBreaks
  <2>2. at' = [at EXCEPT ![s] = "idle"] /\ item' = [item EXCEPT ![s] = NoItem]
    BY <1>2 DEF Sweep, SyncBreaks, Over
  <2> QED
    BY <2>1, <2>2 DEF Linked, Inserting, LinkTypeOK
<1>3. CASE UNCHANGED linkVars
  <2>1. Linked(k)' \subseteq Linked(k) /\ Inserting(k)' \subseteq Inserting(k)
    BY <1>3 DEF linkVars, Linked, Inserting
  <2> QED
    BY <2>1, FewKept
<1> QED
  BY <1>1, <1>2, <1>3, FewKept, FewFinds, FewInserts DEF LinkNext

\* find_one_and_update with upsert: a key is linked twice only when two requests were about
\* to insert it at once, and never more often than requests are in progress.
THEOREM OneLinkCorrect == LinkSpec => []OneLink
<1>1. LinkInit => FewInv
  <2> SUFFICES ASSUME LinkInit, NEW k \in LinkKey
               PROVE  /\ IsFiniteSet(Linked(k))
                      /\ Cardinality(Linked(k)) + Cardinality(Inserting(k)) <= Cardinality(Sync)
    BY DEF FewInv
  <2>1. Linked(k) = {}
    BY DEF LinkInit, Linked
  <2>2. IsFiniteSet(Linked(k)) /\ Cardinality(Linked(k)) = 0
    BY <2>1, FS_EmptySet
  <2> QED
    BY <2>2, InsertingFinite
<1>2. LinkInv /\ FewInv => OneLink
  <2> SUFFICES ASSUME LinkInv, FewInv PROVE OneLink
    OBVIOUS
  <2>1. \A d, e \in links : d.key = e.key /\ d.key \notin met => d = e
    BY DEF LinkInv, MetInv, UnmetOnce
  <2>2. ASSUME NEW k \in LinkKey PROVE Cardinality(Linked(k)) <= Cardinality(Sync)
    <3>1. Cardinality(Linked(k)) \in Nat
      BY FS_CardinalityType DEF FewInv
    <3> QED
      BY <3>1, InsertingFinite DEF FewInv
  <2> QED
    BY <2>1, <2>2 DEF OneLink
<1>3. LinkInv => LinkTypeOK
  BY DEF LinkInv
<1> QED
  BY <1>1, <1>2, <1>3, LinkInvInitial, LinkStep, FewStep, PTL DEF LinkSpec

\* sync_bulk: a full synchronisation that ran alone leaves its group with exactly the links
\* it was given.
THEOREM SyncCorrect == LinkSpec => []LoneSyncIsExact
<1>1. LinkInv => LoneSyncIsExact
  BY DEF LinkInv, LoneInv
<1> QED
  BY <1>1, LinkInvInitial, LinkStep, PTL DEF LinkSpec

-----------------------------------------------------------------------------
(* ImportRows: the rows an import has been through, and the one it is at.   *)

ImpRec == [pc : {"idle", "check", "find", "update", "create", "done"}, mode : Mode, dry : BOOLEAN,
           hooked : BOOLEAN, header : Partition \cup {None}, scope : {"NODE", "SUBTREE", "ROOT_PATH", "GLOBAL"},
           sheet : Sheets \cup {<< >>}, row : Nat \ {0}, found : DocId \cup {None}]

\* An import that runs is at one of its rows; a document is held between the lookup and the update.
RowsInv ==
    /\ docs \in SUBSET Doc /\ crossed \in SUBSET (Key \cup {None})
    /\ imp \in [Import -> ImpRec]
    /\ errors \in [Import -> SUBSET Nat]
    /\ \A i \in Import : /\ At(i, "idle") <=> imp[i].sheet = << >>
                         /\ At(i, "idle") \/ imp[i].row \in 1..Len(imp[i].sheet)
                         /\ imp[i].found \in DocId <=> At(i, "update")
                         /\ errors[i] \subseteq 1..Len(imp[i].sheet)

Creates(i) == At(i, "create") /\ imp[i].mode = "UPSERT"

\* A document that was found has the key it was looked up by; a key an UPSERT is about to create
\* is not held and nobody else is about to create it, unless it was crossed.
KeysInv ==
    /\ \A d, e \in docs : d.id = e.id => d = e
    /\ \A i \in Import : \A d \in docs :
        At(i, "update") /\ d.id = imp[i].found => RowKey(i) \in {None, d.key}
    /\ \A i \in Import : \A d \in docs : Creates(i) /\ d.key = RowKey(i) => RowKey(i) \in crossed
    /\ \A i, j \in Import : i # j /\ Creates(i) /\ Creates(j) /\ RowKey(i) = RowKey(j) => RowKey(i) \in crossed
    /\ UpsertKeepsKeysUnique

\* The rows an import is past.
Past(i, n) == n \in 1..Len(imp[i].sheet) /\ (n < imp[i].row \/ At(i, "done"))

\* An import in mode CREATE looks nothing up, and has stored the rows that are past and have no error.
StoredInv ==
    /\ \A i \in Import : imp[i].pc \in {"create", "find", "update"} => ~ imp[i].dry
    /\ \A i \in Import : At(i, "create") => imp[i].mode # "UPDATE"
    /\ \A i \in Import : imp[i].mode = "CREATE" =>
        /\ ~ At(i, "find") /\ ~ At(i, "update")
        /\ \A n \in Nat : Past(i, n) /\ ~ imp[i].dry /\ n \notin errors[i] => <<i, n>> \in stored

ImportInv == RowsInv /\ KeysInv /\ StoredInv

LEMMA ImportInitial == Init => ImportInv
<1> SUFFICES ASSUME Init PROVE ImportInv
  OBVIOUS
<1>1. docs \in SUBSET Doc /\ \A d, e \in docs : d = e
  BY DEF Init, Doc
<1>2. RowsInv
  BY <1>1, NoneAssumption DEF Init, RowsInv, ImpRec, Mode, At, Doc
<1>3. KeysInv
  BY <1>1 DEF Init, KeysInv, UpsertKeepsKeysUnique, Creates, At
<1>4. StoredInv
  BY DEF Init, StoredInv, Past, At
<1> QED
  BY <1>2, <1>3, <1>4 DEF ImportInv

\* The columns of the row an import is at.
LEMMA RowTyped ==
    ASSUME RowsInv, NEW i \in Import, ~ At(i, "idle")
    PROVE  RowKey(i) \in Key \cup {None} /\ RowCode(i) \in Partition \cup {None}
<1>1. imp[i].row \in 1..Len(imp[i].sheet) /\ imp[i].sheet \in Seq(RowData)
  BY SheetsAssumption DEF RowsInv, ImpRec
<1>2. imp[i].sheet[imp[i].row] \in RowData
  BY <1>1
<1> QED
  BY <1>2 DEF RowData, RowKey, RowCode

\* The next row, or the report: only the row, the label and what was found change.
LEMMA AfterRowFields ==
    ASSUME RowsInv, NEW i \in Import, imp' = AfterRow(i)
    PROVE  /\ imp' \in [Import -> ImpRec]
           /\ \A j \in Import : j # i => imp'[j] = imp[j]
           /\ imp'[i].mode = imp[i].mode /\ imp'[i].dry = imp[i].dry
           /\ imp'[i].sheet = imp[i].sheet /\ imp'[i].found = None
           /\ imp'[i].pc = IF LastRow(i) THEN "done" ELSE "check"
           /\ imp'[i].row = IF LastRow(i) THEN imp[i].row ELSE imp[i].row + 1
<1>1. imp \in [Import -> ImpRec] /\ imp[i] \in ImpRec /\ imp[i].row + 1 \in Nat \ {0}
  BY DEF RowsInv, ImpRec
<1>2. CASE LastRow(i)
  <2>1. imp' = [imp EXCEPT ![i] = [imp[i] EXCEPT !.pc = "done", !.found = None]]
    BY <1>1, <1>2 DEF AfterRow
  <2>2. [imp[i] EXCEPT !.pc = "done", !.found = None] \in ImpRec
    BY <1>1 DEF ImpRec
  <2>3. imp' \in [Import -> ImpRec] /\ imp'[i] = [imp[i] EXCEPT !.pc = "done", !.found = None]
    BY <1>1, <2>1, <2>2
  <2> QED
    BY <1>1, <1>2, <2>1, <2>3 DEF ImpRec
<1>3. CASE ~ LastRow(i)
  <2>1. imp' = [imp EXCEPT ![i] =
                    [imp[i] EXCEPT !.pc = "check", !.found = None, !.row = imp[i].row + 1]]
    BY <1>1, <1>3 DEF AfterRow
  <2>2. [imp[i] EXCEPT !.pc = "check", !.found = None, !.row = imp[i].row + 1] \in ImpRec
    BY <1>1 DEF ImpRec
  <2>3. /\ imp' \in [Import -> ImpRec]
        /\ imp'[i] = [imp[i] EXCEPT !.pc = "check", !.found = None, !.row = imp[i].row + 1]
    BY <1>1, <2>1, <2>2
  <2> QED
    BY <1>1, <1>3, <2>1, <2>3 DEF ImpRec
<1> QED
  BY <1>2, <1>3

\* The row an import leaves is past, and no other becomes so.
LEMMA AfterRowStep ==
    ASSUME ImportInv, NEW i \in Import, ~ At(i, "idle"), ~ At(i, "done"), imp' = AfterRow(i),
           errors' \in {errors, [errors EXCEPT ![i] = @ \cup {imp[i].row}]},
           docs' \in SUBSET Doc, crossed' \in SUBSET (Key \cup {None}),
           stored \subseteq stored',
           imp[i].mode = "CREATE" =>
               imp[i].dry \/ imp[i].row \in errors'[i] \/ <<i, imp[i].row>> \in stored'
    PROVE  RowsInv' /\ StoredInv'
<1>1. /\ imp' \in [Import -> ImpRec]
      /\ \A j \in Import : j # i => imp'[j] = imp[j]
      /\ imp'[i].mode = imp[i].mode /\ imp'[i].dry = imp[i].dry
      /\ imp'[i].sheet = imp[i].sheet /\ imp'[i].found = None
      /\ imp'[i].pc = IF LastRow(i) THEN "done" ELSE "check"
      /\ imp'[i].row = IF LastRow(i) THEN imp[i].row ELSE imp[i].row + 1
  BY AfterRowFields DEF ImportInv
<1>2. /\ RowsInv /\ imp[i].row \in 1..Len(imp[i].sheet) /\ imp[i].sheet \in Sheets
      /\ Len(imp[i].sheet) \in Nat /\ imp[i].row \in Nat
  BY SheetsAssumption DEF ImportInv, RowsInv, At, ImpRec
<1>3. /\ errors' \in [Import -> SUBSET Nat] /\ \A j \in Import : j # i => errors'[j] = errors[j]
      /\ errors'[i] \subseteq 1..Len(imp[i].sheet)
      /\ errors[i] \subseteq errors'[i]
  BY <1>2 DEF RowsInv
<1>4. RowsInv'
  <2>1. imp'[i].row \in 1..Len(imp'[i].sheet)
    BY <1>1, <1>2 DEF LastRow
  <2>2. ASSUME NEW j \in Import
        PROVE  /\ At(j, "idle")' <=> imp'[j].sheet = << >>
               /\ At(j, "idle")' \/ imp'[j].row \in 1..Len(imp'[j].sheet)
               /\ imp'[j].found \in DocId <=> At(j, "update")'
               /\ errors'[j] \subseteq 1..Len(imp'[j].sheet)
    <3>1. CASE j = i
      BY <1>1, <1>2, <1>3, <2>1, <3>1, NoneAssumption DEF RowsInv, At
    <3>2. CASE j # i
      BY <1>1, <1>2, <1>3, <3>2 DEF RowsInv, At
    <3> QED
      BY <3>1, <3>2
  <2> QED
    BY <1>1, <1>3, <2>2 DEF RowsInv
<1>5. \A j \in Import : imp'[j].pc \in {"create", "find", "update"} =>
        j # i /\ imp'[j].pc = imp[j].pc
  BY <1>1
<1>6. ASSUME NEW j \in Import, imp'[j].mode = "CREATE", NEW n \in Nat, Past(j, n)',
             ~ imp'[j].dry, n \notin errors'[j]
      PROVE  <<j, n>> \in stored'
  <2>1. CASE j # i
    BY <1>1, <1>3, <1>6, <2>1 DEF ImportInv, StoredInv, Past, At
  <2>2. CASE j = i /\ n = imp[i].row
    BY <1>1, <1>6, <2>2
  <2>3. CASE j = i /\ n # imp[i].row
    <3>1. Past(i, n)
      BY <1>1, <1>2, <1>6, <2>3 DEF Past, At, LastRow
    <3> QED
      BY <1>1, <1>3, <1>6, <2>3, <3>1 DEF ImportInv, StoredInv
  <2> QED
    BY <2>1, <2>2, <2>3
<1>7. StoredInv'
  BY <1>1, <1>5, <1>6 DEF ImportInv, StoredInv, At
<1> QED
  BY <1>4, <1>7

\* An import that goes to its next row, while the documents and what is crossed stay: it holds and
\* creates less than before.
LEMMA LeavesRow ==
    ASSUME ImportInv, NEW i \in Import, imp' = AfterRow(i), UNCHANGED docs, crossed \subseteq crossed'
    PROVE  KeysInv'
<1>1. /\ \A j \in Import : j # i => imp'[j] = imp[j]
      /\ imp'[i].pc \in {"check", "done"}
  BY AfterRowFields DEF ImportInv
<1>2. \A j \in Import : At(j, "update")' \/ Creates(j)' => j # i
  BY <1>1 DEF At, Creates
<1>3. \A j \in Import : j # i => /\ At(j, "update")' <=> At(j, "update")
                                 /\ Creates(j)' <=> Creates(j)
                                 /\ RowKey(j)' = RowKey(j) /\ imp'[j].found = imp[j].found
  BY <1>1 DEF At, Creates, RowKey
<1>4. UpsertKeepsKeysUnique'
  BY DEF ImportInv, KeysInv, UpsertKeepsKeysUnique
<1>5. \A j \in Import : \A d \in docs' :
        At(j, "update")' /\ d.id = imp'[j].found => RowKey(j)' \in {None, d.key}
  BY <1>2, <1>3 DEF ImportInv, KeysInv
<1>6. \A j \in Import : \A d \in docs' : Creates(j)' /\ d.key = RowKey(j)' => RowKey(j)' \in crossed'
  BY <1>2, <1>3 DEF ImportInv, KeysInv
<1>7. \A j, k \in Import :
        j # k /\ Creates(j)' /\ Creates(k)' /\ RowKey(j)' = RowKey(k)' => RowKey(j)' \in crossed'
  BY <1>2, <1>3 DEF ImportInv, KeysInv
<1> QED
  BY <1>4, <1>5, <1>6, <1>7 DEF ImportInv, KeysInv

LEMMA StartStep == ASSUME ImportInv, NEW i \in Import, Start(i) PROVE ImportInv'
<1>1. PICK m \in Mode, d \in BOOLEAN, h \in BOOLEAN, p \in Partition \cup {None}, c \in Scopes, s \in Sheets :
        imp' = [imp EXCEPT ![i] = [pc |-> "check", mode |-> m, dry |-> d, hooked |-> h, header |-> p,
                                   scope |-> c, sheet |-> s, row |-> 1, found |-> None]]
  BY DEF Start
<1>2. /\ imp' \in [Import -> ImpRec] /\ \A j \in Import : j # i => imp'[j] = imp[j]
      /\ imp'[i].pc = "check" /\ imp'[i].sheet = s /\ imp'[i].row = 1 /\ imp'[i].found = None
  BY <1>1, ScopesAssumption DEF ImportInv, RowsInv, ImpRec
<1>3. s # << >> /\ 1 \in 1..Len(s) /\ At(i, "idle") /\ imp[i].sheet = << >>
      /\ UNCHANGED <<docs, errors, stored, crossed>>
  BY SheetsAssumption DEF Start, ImportInv, RowsInv
<1>4. errors[i] = {}
  BY <1>3 DEF ImportInv, RowsInv
<1>5. RowsInv'
  BY <1>2, <1>3, <1>4, NoneAssumption DEF ImportInv, RowsInv, At
<1>6. KeysInv'
  BY <1>2, <1>3 DEF ImportInv, KeysInv, UpsertKeepsKeysUnique, At, Creates, RowKey
<1>7. StoredInv'
  <2>1. \A n \in Nat : ~ Past(i, n)'
    BY <1>2, <1>3 DEF Past, At
  <2> QED
    BY <1>2, <1>3, <2>1 DEF ImportInv, StoredInv, Past, At
<1> QED
  BY <1>5, <1>6, <1>7 DEF ImportInv

LEMMA CheckStep == ASSUME ImportInv, NEW i \in Import, Check(i) PROVE ImportInv'
<1>1. /\ At(i, "check") /\ UNCHANGED <<docs, stored, crossed>> /\ ~ At(i, "idle") /\ ~ At(i, "done")
      /\ docs \in SUBSET Doc /\ crossed \in SUBSET (Key \cup {None})
  BY DEF Check, At, ImportInv, RowsInv
<1>2. CASE imp' = AfterRow(i) /\ errors' = [errors EXCEPT ![i] = @ \cup {imp[i].row}]
  <2>1. imp[i].row \in errors'[i]
    BY <1>2 DEF ImportInv, RowsInv
  <2> QED
    BY <1>1, <1>2, <2>1, LeavesRow, AfterRowStep DEF ImportInv
<1>3. CASE imp' = AfterRow(i) /\ UNCHANGED errors /\ imp[i].dry
  BY <1>1, <1>3, LeavesRow, AfterRowStep DEF ImportInv
<1>4. ASSUME UNCHANGED errors, ~ imp[i].dry, NEW l \in {"create", "find"},
             l = "create" <=> imp[i].mode = "CREATE", imp' = [imp EXCEPT ![i].pc = l]
      PROVE  ImportInv'
  <2>1. /\ imp' \in [Import -> ImpRec] /\ \A j \in Import : j # i => imp'[j] = imp[j]
        /\ imp'[i].pc = l /\ imp'[i].sheet = imp[i].sheet /\ imp'[i].row = imp[i].row
        /\ imp'[i].found = imp[i].found /\ imp'[i].mode = imp[i].mode /\ imp'[i].dry = imp[i].dry
    <3>1. imp \in [Import -> ImpRec] /\ imp[i] \in ImpRec
      BY DEF ImportInv, RowsInv
    <3>2. [imp[i] EXCEPT !.pc = l] \in ImpRec
      BY <3>1 DEF ImpRec
    <3>3. imp' = [imp EXCEPT ![i] = [imp[i] EXCEPT !.pc = l]]
      BY <1>4
    <3>4. imp' \in [Import -> ImpRec] /\ \A j \in Import : j # i => imp'[j] = imp[j]
      BY <3>1, <3>2, <3>3
    <3>5. imp'[i] = [imp[i] EXCEPT !.pc = l]
      BY <3>1, <3>3
    <3> QED
      BY <3>1, <3>4, <3>5 DEF ImpRec
  <2>2. RowsInv'
    BY <1>1, <1>4, <2>1 DEF ImportInv, RowsInv, At
  <2>3. KeysInv'
    <3>1. \A j \in Import : Creates(j)' \/ At(j, "update")' => j # i
      BY <1>4, <2>1 DEF Creates, At
    <3> QED
      BY <1>1, <2>1, <3>1 DEF ImportInv, KeysInv, UpsertKeepsKeysUnique, At, Creates, RowKey
  <2>4. StoredInv'
    BY <1>1, <1>4, <2>1 DEF ImportInv, StoredInv, Past, At
  <2> QED
    BY <2>2, <2>3, <2>4 DEF ImportInv
<1> QED
  BY <1>2, <1>3, <1>4 DEF Check, Inserts

\* A lookup that finds a document: it is to be updated.
LEMMA FoundStep ==
    ASSUME ImportInv, NEW i \in Import, At(i, "find"), NEW d \in docs, Matches(d, RowKey(i)),
           imp' = [imp EXCEPT ![i].pc = "update", ![i].found = d.id],
           UNCHANGED <<docs, errors, stored>>, crossed' \in {crossed, crossed \cup {RowKey(i)}}
    PROVE  ImportInv'
<1>0. RowKey(i) \in Key \cup {None}
  BY RowTyped DEF ImportInv, At
<1>1. /\ d.id \in DocId /\ RowKey(i) \in Key \cup {None}
      /\ docs \in SUBSET Doc /\ crossed \subseteq crossed'
      /\ imp[i].row \in 1..Len(imp[i].sheet) /\ imp[i].sheet \in Seq(RowData)
  BY <1>0, SheetsAssumption DEF ImportInv, RowsInv, Doc, ImpRec, At
<1>2. /\ imp' \in [Import -> ImpRec] /\ \A j \in Import : j # i => imp'[j] = imp[j]
      /\ imp'[i].pc = "update" /\ imp'[i].sheet = imp[i].sheet /\ imp'[i].row = imp[i].row
      /\ imp'[i].found = d.id /\ imp'[i].mode = imp[i].mode /\ imp'[i].dry = imp[i].dry
  <2> DEFINE held == [imp[i] EXCEPT !.pc = "update", !.found = d.id]
  <2>1. imp \in [Import -> ImpRec] /\ imp[i] \in ImpRec
    BY DEF ImportInv, RowsInv
  <2>2. /\ held \in ImpRec /\ held.pc = "update" /\ held.sheet = imp[i].sheet /\ held.row = imp[i].row
        /\ held.found = d.id /\ held.mode = imp[i].mode /\ held.dry = imp[i].dry
    BY <1>1, <2>1 DEF ImpRec
  <2>3. imp' = [imp EXCEPT ![i] = held]
    BY <2>1
  <2> HIDE DEF held
  <2> QED
    BY <2>1, <2>2, <2>3
<1>3. RowsInv'
  BY <1>1, <1>2 DEF ImportInv, RowsInv, At
<1>4. KeysInv'
  <2>1. \A e \in docs : e.id = d.id => RowKey(i)' \in {None, e.key}
    BY <1>2 DEF ImportInv, KeysInv, Matches, RowKey
  <2>2. \A j \in Import : Creates(j)' => j # i
    BY <1>2 DEF Creates, At
  <2>3. \A j \in Import : j # i => /\ At(j, "update")' <=> At(j, "update")
                                   /\ Creates(j)' <=> Creates(j)
                                   /\ RowKey(j)' = RowKey(j) /\ imp'[j].found = imp[j].found
    BY <1>2 DEF At, Creates, RowKey
  <2> QED
    BY <1>1, <1>2, <2>1, <2>2, <2>3 DEF ImportInv, KeysInv, UpsertKeepsKeysUnique
<1>5. StoredInv'
  BY <1>2 DEF ImportInv, StoredInv, Past, At
<1> QED
  BY <1>3, <1>4, <1>5 DEF ImportInv

\* An UPSERT whose lookup finds nothing: the key is about to be created.
LEMMA NotFoundStep ==
    ASSUME ImportInv, NEW i \in Import, At(i, "find"), {d \in docs : Matches(d, RowKey(i))} = {},
           imp[i].mode = "UPSERT", imp' = [imp EXCEPT ![i].pc = "create"],
           crossed' = IF Late(RowKey(i)) = {} THEN crossed ELSE crossed \cup {RowKey(i)},
           UNCHANGED <<docs, errors, stored>>
    PROVE  ImportInv'
<1>0. RowKey(i) \in Key \cup {None}
  BY RowTyped DEF ImportInv, At
<1>1. /\ RowKey(i) \in Key \cup {None} /\ docs \in SUBSET Doc /\ crossed \subseteq crossed'
      /\ crossed' \in SUBSET (Key \cup {None})
      /\ imp[i].row \in 1..Len(imp[i].sheet) /\ imp[i].sheet \in Seq(RowData)
  BY <1>0, SheetsAssumption DEF ImportInv, RowsInv, Doc, ImpRec, At
<1>2. /\ imp' \in [Import -> ImpRec] /\ \A j \in Import : j # i => imp'[j] = imp[j]
      /\ imp'[i].pc = "create" /\ imp'[i].sheet = imp[i].sheet /\ imp'[i].row = imp[i].row
      /\ imp'[i].found = imp[i].found /\ imp'[i].mode = imp[i].mode /\ imp'[i].dry = imp[i].dry
  <2> DEFINE held == [imp[i] EXCEPT !.pc = "create"]
  <2>1. imp \in [Import -> ImpRec] /\ imp[i] \in ImpRec /\ imp' = [imp EXCEPT ![i] = held]
    BY DEF ImportInv, RowsInv
  <2>2. /\ held \in ImpRec /\ held.pc = "create" /\ held.sheet = imp[i].sheet /\ held.row = imp[i].row
        /\ held.found = imp[i].found /\ held.mode = imp[i].mode /\ held.dry = imp[i].dry
    BY <2>1 DEF ImpRec
  <2> HIDE DEF held
  <2> QED
    BY <2>1, <2>2
<1>3. RowsInv'
  BY <1>1, <1>2 DEF ImportInv, RowsInv, At
<1>4. KeysInv'
  <2>1. RowKey(i)' = RowKey(i) /\ \A d \in docs : d.key # RowKey(i)
    BY <1>2 DEF Matches, RowKey
  <2>2. \A j \in Import : j # i => /\ At(j, "update")' <=> At(j, "update")
                                   /\ Creates(j)' <=> Creates(j)
                                   /\ RowKey(j)' = RowKey(j) /\ imp'[j].found = imp[j].found
    BY <1>2 DEF At, Creates, RowKey
  <2>3. \A j \in Import : Creates(j) /\ RowKey(j) = RowKey(i) => RowKey(i) \in crossed'
    BY DEF Late, Creates
  <2>4. \A j, k \in Import :
          j # k /\ Creates(j)' /\ Creates(k)' /\ RowKey(j)' = RowKey(k)' => RowKey(j)' \in crossed'
    BY <1>1, <2>1, <2>2, <2>3 DEF ImportInv, KeysInv
  <2>5. ~ At(i, "update")'
    BY <1>2 DEF At
  <2>6. \A j \in Import : \A d \in docs' : Creates(j)' /\ d.key = RowKey(j)' => RowKey(j)' \in crossed'
    BY <1>1, <2>1, <2>2 DEF ImportInv, KeysInv
  <2>7. UpsertKeepsKeysUnique'
    BY <1>1 DEF ImportInv, KeysInv, UpsertKeepsKeysUnique
  <2>8. \A j \in Import : \A d \in docs' :
          At(j, "update")' /\ d.id = imp'[j].found => RowKey(j)' \in {None, d.key}
    BY <2>2, <2>5 DEF ImportInv, KeysInv
  <2> QED
    BY <2>4, <2>6, <2>7, <2>8 DEF ImportInv, KeysInv
<1>5. StoredInv'
  BY <1>2 DEF ImportInv, StoredInv, Past, At
<1> QED
  BY <1>3, <1>4, <1>5 DEF ImportInv

LEMMA FindStep == ASSUME ImportInv, NEW i \in Import, Find(i) PROVE ImportInv'
<1>1. /\ At(i, "find") /\ ~ At(i, "idle") /\ ~ At(i, "done") /\ UNCHANGED <<docs, errors, stored>>
      /\ crossed' = IF Late(RowKey(i)) = {} THEN crossed ELSE crossed \cup {RowKey(i)}
  BY DEF Find, At
<1>2. imp[i].mode # "CREATE" /\ docs' \in SUBSET Doc /\ crossed' \in SUBSET (Key \cup {None})
  <2>1. RowKey(i) \in Key \cup {None}
    BY <1>1, RowTyped DEF ImportInv
  <2> QED
    BY <1>1, <2>1 DEF ImportInv, RowsInv, StoredInv
<1>3. CASE imp' = AfterRow(i)
  <2>1. RowsInv' /\ StoredInv'
    BY <1>1, <1>2, <1>3, AfterRowStep
  <2>2. crossed \subseteq crossed'
    BY <1>1
  <2> QED
    BY <1>1, <1>3, <2>1, <2>2, LeavesRow DEF ImportInv
<1>4. CASE \E d \in {e \in docs : Matches(e, RowKey(i))} :
             imp' = [imp EXCEPT ![i].pc = "update", ![i].found = d.id]
  BY <1>1, <1>4, FoundStep
<1>5. CASE /\ {e \in docs : Matches(e, RowKey(i))} = {}
           /\ imp[i].mode = "UPSERT" /\ imp' = [imp EXCEPT ![i].pc = "create"]
  BY <1>1, <1>5, NotFoundStep
<1> QED
  BY <1>3, <1>4, <1>5 DEF Find

\* update_by_id: no document appears or goes, none changes its `_id` or its key, and what it
\* changes its condition admits, and moves where the row says.
LEMMA UpdateKeeps ==
    ASSUME ImportInv, NEW i \in Import, Update(i)
    PROVE  /\ docs' \in SUBSET Doc
           /\ \A d \in docs' : \E e \in docs : e.id = d.id /\ e.key = d.key
           /\ \A d, e \in docs' : d.id = e.id => d = e
           /\ \A d \in docs' \ docs : \E e \in docs : e.id = d.id /\ d.code = Written(RowCode(i), e.code)
           /\ \E S \in Conditions(i) : \A d \in docs \ docs' : d.code \in S
<1>1. PICK S \in Conditions(i) :
        LET hit == {d \in docs : d.id = imp[i].found /\ d.code \in S}
            Set(d) == [d EXCEPT !.key = Written(RowKey(i), @), !.code = Written(RowCode(i), @), !.by = i]
        IN docs' = (docs \ hit) \cup {Set(d) : d \in hit}
  BY DEF Update
<1> DEFINE hit == {d \in docs : d.id = imp[i].found /\ d.code \in S}
           Set(d) == [d EXCEPT !.key = Written(RowKey(i), @), !.code = Written(RowCode(i), @), !.by = i]
<1>2. docs' = (docs \ hit) \cup {Set(d) : d \in hit}
  BY <1>1
<1>3. RowCode(i) \in Partition \cup {None}
  BY RowTyped DEF ImportInv, Update, At
<1>4. ASSUME NEW d \in hit
      PROVE  /\ Set(d) \in Doc /\ Set(d).id = d.id /\ Set(d).key = d.key
             /\ Set(d).code = Written(RowCode(i), d.code)
  <2>1. d \in Doc /\ RowKey(i) \in {None, d.key}
    BY DEF Update, ImportInv, RowsInv, KeysInv
  <2> QED
    BY <1>3, <2>1 DEF Doc, Written
<1>5. /\ docs \in SUBSET Doc /\ \A d, e \in docs : d.id = e.id => d = e
  BY DEF ImportInv, RowsInv, KeysInv
<1>6. \A d \in hit : d \in docs /\ d.code \in S
  OBVIOUS
<1> HIDE DEF hit, Set
<1>7. ASSUME NEW d \in docs'
      PROVE  \/ d \in docs /\ d \notin hit
             \/ \E e \in hit : d = Set(e)
  BY <1>2
<1>8. \A d \in docs' : d \in Doc /\ \E e \in docs : e.id = d.id /\ e.key = d.key
  BY <1>4, <1>5, <1>6, <1>7
<1>9. ASSUME NEW d \in docs', NEW e \in docs', d.id = e.id PROVE d = e
  BY <1>4, <1>5, <1>6, <1>7, <1>9
<1>10. \A d \in docs' \ docs : \E e \in docs : e.id = d.id /\ d.code = Written(RowCode(i), e.code)
  BY <1>4, <1>6, <1>7
<1>11. \A d \in docs \ docs' : d.code \in S
  BY <1>2, <1>6
<1> QED
  BY <1>8, <1>9, <1>10, <1>11

LEMMA UpdateStep == ASSUME ImportInv, NEW i \in Import, Update(i) PROVE ImportInv'
<1>1. /\ At(i, "update") /\ ~ At(i, "idle") /\ ~ At(i, "done") /\ imp' = AfterRow(i)
      /\ UNCHANGED <<errors, crossed>> /\ stored \subseteq stored'
      /\ crossed \in SUBSET (Key \cup {None}) /\ imp[i].mode # "CREATE"
  BY DEF Update, At, ImportInv, RowsInv, StoredInv
<1>2. /\ docs' \in SUBSET Doc
      /\ \A d \in docs' : \E e \in docs : e.id = d.id /\ e.key = d.key
      /\ \A d, e \in docs' : d.id = e.id => d = e
  BY UpdateKeeps
<1>3. RowsInv' /\ StoredInv'
  BY <1>1, <1>2, AfterRowStep
<1>4. KeysInv'
  <2>1. /\ \A j \in Import : j # i => imp'[j] = imp[j]
        /\ imp'[i].pc \in {"check", "done"}
    BY <1>1, AfterRowFields DEF ImportInv
  <2>2. \A j \in Import : At(j, "update")' \/ Creates(j)' => j # i
    BY <2>1 DEF At, Creates
  <2>3. \A j \in Import : j # i => /\ At(j, "update")' <=> At(j, "update")
                                   /\ Creates(j)' <=> Creates(j)
                                   /\ RowKey(j)' = RowKey(j) /\ imp'[j].found = imp[j].found
    BY <2>1 DEF At, Creates, RowKey
  <2>4. UpsertKeepsKeysUnique'
    <3> SUFFICES ASSUME NEW d \in docs', NEW e \in docs', d.key = e.key, d.key \notin crossed
                 PROVE  d = e
      BY <1>1 DEF UpsertKeepsKeysUnique
    <3>1. PICK d0 \in docs : d0.id = d.id /\ d0.key = d.key
      BY <1>2
    <3>2. PICK e0 \in docs : e0.id = e.id /\ e0.key = e.key
      BY <1>2
    <3>3. d0 = e0
      BY <3>1, <3>2 DEF ImportInv, KeysInv, UpsertKeepsKeysUnique
    <3> QED
      BY <1>2, <3>1, <3>2, <3>3
  <2>5. \A j \in Import : \A d \in docs' :
          At(j, "update")' /\ d.id = imp'[j].found => RowKey(j)' \in {None, d.key}
    BY <1>2, <2>2, <2>3 DEF ImportInv, KeysInv
  <2>6. \A j \in Import : \A d \in docs' : Creates(j)' /\ d.key = RowKey(j)' => RowKey(j)' \in crossed'
    BY <1>1, <1>2, <2>2, <2>3 DEF ImportInv, KeysInv
  <2>7. \A j, k \in Import :
          j # k /\ Creates(j)' /\ Creates(k)' /\ RowKey(j)' = RowKey(k)' => RowKey(j)' \in crossed'
    BY <1>1, <2>2, <2>3 DEF ImportInv, KeysInv
  <2> QED
    BY <1>2, <2>4, <2>5, <2>6, <2>7 DEF KeysInv
<1> QED
  BY <1>3, <1>4 DEF ImportInv

LEMMA CreateStep == ASSUME ImportInv, NEW i \in Import, Create(i) PROVE ImportInv'
<1>1. /\ At(i, "create") /\ ~ At(i, "idle") /\ ~ At(i, "done") /\ imp' = AfterRow(i)
      /\ UNCHANGED errors /\ stored' = stored \cup {<<i, imp[i].row>>}
      /\ crossed' = IF imp[i].mode = "CREATE" THEN crossed \cup {RowKey(i)} ELSE crossed
  BY DEF Create, At
<1>2. PICK n \in DocId :
        /\ \A d \in docs : d.id # n
        /\ \A j \in Import : imp[j].found # n
        /\ docs' = docs \cup {[id |-> n, key |-> RowKey(i), code |-> CreatedCode(i), by |-> i]}
  BY DEF Create
<1> DEFINE new == [id |-> n, key |-> RowKey(i), code |-> CreatedCode(i), by |-> i]
<1>3. RowKey(i) \in Key \cup {None} /\ CreatedCode(i) \in Partition \cup {None}
  BY <1>1, RowTyped DEF ImportInv, RowsInv, ImpRec, CreatedCode
<1>4. new \in Doc /\ new.id = n /\ new.key = RowKey(i) /\ docs' = docs \cup {new}
  BY <1>2, <1>3 DEF Doc
<1> HIDE DEF new
<1>5. docs' \in SUBSET Doc /\ crossed' \in SUBSET (Key \cup {None}) /\ crossed \subseteq crossed'
  BY <1>1, <1>3, <1>4 DEF ImportInv, RowsInv
<1>6. RowsInv' /\ StoredInv'
  BY <1>1, <1>5, AfterRowStep
<1>7. KeysInv'
  <2>1. /\ \A j \in Import : j # i => imp'[j] = imp[j]
        /\ imp'[i].pc \in {"check", "done"}
    BY <1>1, AfterRowFields DEF ImportInv
  <2>2. \A j \in Import : At(j, "update")' \/ Creates(j)' => j # i
    BY <2>1 DEF At, Creates
  <2>3. \A j \in Import : j # i => /\ At(j, "update")' <=> At(j, "update")
                                   /\ Creates(j)' <=> Creates(j)
                                   /\ RowKey(j)' = RowKey(j) /\ imp'[j].found = imp[j].found
    BY <2>1 DEF At, Creates, RowKey
  <2>4. RowKey(i) \in crossed' \/ Creates(i)
    BY <1>1 DEF ImportInv, RowsInv, StoredInv, ImpRec, Mode, Creates
  <2>5. UpsertKeepsKeysUnique'
    <3>1. \A d \in docs : d.key = RowKey(i) => RowKey(i) \in crossed'
      BY <1>5, <2>4 DEF ImportInv, KeysInv
    <3> QED
      BY <1>4, <1>5, <3>1 DEF ImportInv, KeysInv, UpsertKeepsKeysUnique
  <2>6. \A d, e \in docs' : d.id = e.id => d = e
    BY <1>2, <1>4 DEF ImportInv, KeysInv
  <2>7. \A j \in Import : \A d \in docs' :
          At(j, "update")' /\ d.id = imp'[j].found => RowKey(j)' \in {None, d.key}
    BY <1>2, <1>4, <2>2, <2>3 DEF ImportInv, KeysInv
  <2>8. \A j \in Import : \A d \in docs' : Creates(j)' /\ d.key = RowKey(j)' => RowKey(j)' \in crossed'
    <3> SUFFICES ASSUME NEW j \in Import, NEW d \in docs', Creates(j), j # i, d.key = RowKey(j)
                 PROVE  RowKey(j) \in crossed'
      BY <2>2, <2>3
    <3>1. CASE d \in docs
      BY <1>5, <3>1 DEF ImportInv, KeysInv
    <3>2. CASE d = new
      BY <1>4, <1>5, <2>4, <3>2 DEF ImportInv, KeysInv
    <3> QED
      BY <1>4, <3>1, <3>2
  <2>9. \A j, k \in Import :
          j # k /\ Creates(j)' /\ Creates(k)' /\ RowKey(j)' = RowKey(k)' => RowKey(j)' \in crossed'
    BY <1>5, <2>2, <2>3 DEF ImportInv, KeysInv
  <2> QED
    BY <2>5, <2>6, <2>7, <2>8, <2>9 DEF KeysInv
<1> QED
  BY <1>6, <1>7 DEF ImportInv

LEMMA FailStep == ASSUME ImportInv, NEW i \in Import, Fail(i) PROVE ImportInv'
<1>1. /\ ~ At(i, "idle") /\ ~ At(i, "done") /\ imp' = AfterRow(i)
      /\ errors' = [errors EXCEPT ![i] = @ \cup {imp[i].row}]
      /\ UNCHANGED <<docs, stored, crossed>>
      /\ docs \in SUBSET Doc /\ crossed \in SUBSET (Key \cup {None})
  BY DEF Fail, ErrorsAfterFailure, At, ImportInv, RowsInv
<1>2. imp[i].row \in errors'[i]
  BY <1>1 DEF ImportInv, RowsInv
<1>3. RowsInv' /\ StoredInv'
  BY <1>1, <1>2, AfterRowStep
<1> QED
  BY <1>1, <1>3, LeavesRow DEF ImportInv

LEMMA DeleteStep == ASSUME ImportInv, NEW d \in docs, Delete(d) PROVE ImportInv'
<1>1. docs' = docs \ {d} /\ UNCHANGED <<imp, errors, stored, crossed>>
  BY DEF Delete
<1>2. RowsInv'
  BY <1>1 DEF ImportInv, RowsInv, At
<1>3. KeysInv'
  BY <1>1 DEF ImportInv, KeysInv, UpsertKeepsKeysUnique, At, Creates, RowKey
<1>4. StoredInv'
  BY <1>1 DEF ImportInv, StoredInv, Past, At
<1> QED
  BY <1>2, <1>3, <1>4 DEF ImportInv

LEMMA ImportStep == ImportInv /\ [Next]_vars => ImportInv'
<1> SUFFICES ASSUME ImportInv, [Next]_vars PROVE ImportInv'
  OBVIOUS
<1>1. CASE UNCHANGED vars
  <2>1. RowsInv'
    BY <1>1 DEF ImportInv, RowsInv, At, vars
  <2>2. KeysInv'
    BY <1>1 DEF ImportInv, KeysInv, UpsertKeepsKeysUnique, At, Creates, RowKey, vars
  <2>3. StoredInv'
    BY <1>1 DEF ImportInv, StoredInv, Past, At, vars
  <2> QED
    BY <2>1, <2>2, <2>3 DEF ImportInv
<1> QED
  BY <1>1, StartStep, CheckStep, FindStep, UpdateStep, CreateStep, FailStep, DeleteStep DEF Next, Insert

\* Every variable keeps its type, and an import reports errors of its own rows only.
THEOREM ImportTypeCorrect == Spec => []TypeOK
<1>1. ImportInv => TypeOK
  <2> SUFFICES ASSUME ImportInv, NEW i \in Import
               PROVE  /\ imp[i].pc \in {"idle", "check", "find", "update", "create", "done"}
                      /\ imp[i].mode \in Mode
    BY DEF ImportInv, RowsInv, TypeOK
  <2> QED
    BY DEF ImportInv, RowsInv, ImpRec
<1> QED
  BY <1>1, ImportInitial, ImportStep, PTL DEF Spec

\* insert_import: a key is held twice only when CREATE wrote it or two lookups overlapped.
THEOREM UpsertCorrect == Spec => []UpsertKeepsKeysUnique
<1>1. ImportInv => UpsertKeepsKeysUnique
  BY DEF ImportInv, KeysInv
<1> QED
  BY <1>1, ImportInitial, ImportStep, PTL DEF Spec

\* insert_import: a row CREATE reports without error was stored, whatever became of the others.
THEOREM CreatedCorrect == Spec => []CreatedIsStored
<1>1. ImportInv => CreatedIsStored
  <2> SUFFICES ASSUME ImportInv, NEW i \in Import, imp[i].mode = "CREATE",
                      NEW n \in 1..Len(imp[i].sheet), Accepted(i, n)
               PROVE  <<i, n>> \in stored
    BY DEF CreatedIsStored
  <2>1. n \in Nat /\ Past(i, n)
    BY DEF Accepted, Past
  <2> QED
    BY <2>1 DEF Accepted, ImportInv, StoredInv
<1> QED
  BY <1>1, ImportInitial, ImportStep, PTL DEF Spec

\* update_by_id and the creation: an import with a header creates documents in its own
\* partition, moves one where its row says, and in the scope NODE changes its own only.
THEOREM MovesCorrect == Spec => MovesAsTold
<1>1. ASSUME ImportInv, NEW i \in Import, Update(i), imp[i].header # None
      PROVE  /\ \A d \in docs \ docs' : imp[i].scope = "NODE" => d.code = imp[i].header
             /\ \A d \in docs' \ docs :
                   \E e \in docs : e.id = d.id /\ d.code = Written(RowCode(i), e.code)
  <2>1. imp[i].scope = "NODE" => Conditions(i) = {{imp[i].header}}
    BY <1>1 DEF Conditions
  <2> QED
    BY <1>1, <2>1, UpdateKeeps
<1>2. ASSUME NEW i \in Import, Create(i), imp[i].header # None
      PROVE  docs \ docs' = {} /\ \A d \in docs' \ docs : d.code = imp[i].header /\ \A e \in docs : e.id # d.id
  BY <1>2 DEF Create, CreatedCode
<1>3. ImportInv => (\A i \in Import : (Update(i) \/ Create(i)) /\ imp[i].header # None =>
        /\ \A d \in docs \ docs' : imp[i].scope = "NODE" => d.code = imp[i].header
        /\ \A d \in docs' \ docs :
              \/ \E e \in docs : e.id = d.id /\ d.code = Written(RowCode(i), e.code)
              \/ d.code = imp[i].header /\ \A e \in docs : e.id # d.id)
  BY <1>1, <1>2
<1> QED
  BY <1>3, ImportInitial, ImportStep, PTL DEF Spec, MovesAsTold
=============================================================================
