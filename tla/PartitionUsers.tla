---------------------------- MODULE PartitionUsers ----------------------------
(***************************************************************************)
(* Which user belongs to which data partition, as other systems hand it    *)
(* over.  sync_bulk upserts each link by userId and dataPartitionCode; a   *)
(* full synchronisation then deletes what its group had before.  The route *)
(* /data-partition-user/sync/bulk upserts by user and dataPartition: its   *)
(* documents are in the same collection and have other keys.               *)
(*                                                                         *)
(* No key has a unique index, so an upsert is a search and an insert that  *)
(* another upsert can come between.                                        *)
(***************************************************************************)
EXTENDS Naturals, FiniteSets

CONSTANTS
    Sync,           \* requests that may be in progress together
    CodeKey,        \* a user and a partition, under userId and dataPartitionCode
    UserKey,        \* the same under user and dataPartition
    Group,          \* values of syncGroup
    NoGroup,        \* no syncGroup in the request, or in the document
    LinkId,         \* values of `_id`
    NoItem

ASSUME SyncAssumption == IsFiniteSet(Sync)
ASSUME NoGroupAssumption == NoGroup \notin Group
ASSUME KeyAssumption == CodeKey \cap UserKey = {}

LinkKey == CodeKey \cup UserKey

ASSUME NoItemAssumption == NoItem \notin LinkKey

VARIABLES
    links,          \* data_partition_users: sets of [id, key, group]
    at,             \* where each request stands
    bulk, full, group,  \* what it was asked for
    rest,           \* the keys it has not upserted
    item,           \* the key it is about to insert
    kept,           \* upserted_ids
    lone,           \* history: requests that no other one overlapped so far
    synced,         \* history: the group and the keys of the last request, when it was a
                    \* full one, ran alone and is over
    met             \* history: keys that two requests were about to insert at once

asked == <<bulk, full, group>>
linkVars == <<links, at, asked, rest, item, kept, lone, synced, met>>

LinkDoc == [id : LinkId, key : LinkKey, group : Group \cup {NoGroup}]
\* A mutated form: the search asks for links of a group only.
LinkedInGroup(k) == {d \in links : d.key = k /\ d.group # NoGroup}
\* The documents an upsert of the key may update.
Linked(k) == {d \in links : d.key = k}
InGroup(g) == {d \in links : d.group = g}
Syncing(s) == at[s] # "idle"
Inserting(k) == {s \in Sync : at[s] = "insert" /\ item[s] = k}

\* What $set makes of a document's group: an item may bring one of its own.
GroupsAfter(s, g) == IF group[s] = NoGroup THEN Group \cup {g} ELSE {group[s]}

-----------------------------------------------------------------------------
Receive(s, keys, f, g) ==
    /\ ~ Syncing(s)
    /\ bulk' = [bulk EXCEPT ![s] = keys]
    /\ full' = [full EXCEPT ![s] = f]
    /\ group' = [group EXCEPT ![s] = g]
    /\ rest' = [rest EXCEPT ![s] = keys]
    /\ at' = [at EXCEPT ![s] = "upsert"]
    /\ kept' = [kept EXCEPT ![s] = {}]
    /\ lone' = IF \A t \in Sync : ~ Syncing(t) THEN {s} ELSE {}
    /\ synced' = NoItem
    /\ UNCHANGED <<links, item, met>>

\* The request is over; the caller may send another one, or the same.
Over(s) ==
    /\ bulk' = [bulk EXCEPT ![s] = {}]
    /\ full' = [full EXCEPT ![s] = FALSE]
    /\ group' = [group EXCEPT ![s] = NoGroup]
    /\ rest' = [rest EXCEPT ![s] = {}]
    /\ at' = [at EXCEPT ![s] = "idle"]
    /\ kept' = [kept EXCEPT ![s] = {}]
    /\ item' = [item EXCEPT ![s] = NoItem]
    /\ lone' = lone \ {s}

\* A full synchronisation without a group is refused.
SyncBulk(s) ==
    \E keys \in SUBSET CodeKey, f \in BOOLEAN, g \in Group \cup {NoGroup} :
        (f => g # NoGroup) /\ Receive(s, keys, f, g)

SyncItems(s) == \E keys \in SUBSET UserKey : Receive(s, keys, FALSE, NoGroup)

\* A mutated form: only what was inserted is remembered.
KeptFound(s, d) == kept[s]
Kept(s, d) == IF full[s] THEN kept[s] \cup {d} ELSE kept[s]

\* The first half of an upsert: one document of the key is updated, whichever it is.
UpsertFinds(s) ==
    /\ at[s] = "upsert"
    /\ \E k \in rest[s] :
        /\ rest' = [rest EXCEPT ![s] = @ \ {k}]
        /\ \/ /\ Linked(k) = {}
              /\ at' = [at EXCEPT ![s] = "insert"]
              /\ item' = [item EXCEPT ![s] = k]
              /\ met' = IF Inserting(k) = {} THEN met ELSE met \cup {k}
              /\ UNCHANGED <<links, kept>>
           \/ /\ \E d \in Linked(k), g \in Group \cup {NoGroup} :
                  /\ g \in GroupsAfter(s, d.group)
                  /\ links' = (links \ {d}) \cup {[d EXCEPT !.group = g]}
                  /\ kept' = [kept EXCEPT ![s] = Kept(s, d.id)]
              /\ UNCHANGED <<at, item, met>>
    /\ UNCHANGED <<asked, lone, synced>>

UpsertInserts(s) ==
    /\ at[s] = "insert"
    /\ \E i \in LinkId, g \in GroupsAfter(s, NoGroup) :
        /\ \A d \in links : d.id # i
        /\ \A t \in Sync : i \notin kept[t]
        /\ links' = links \cup {[id |-> i, key |-> item[s], group |-> g]}
        /\ kept' = [kept EXCEPT ![s] = Kept(s, i)]
    /\ at' = [at EXCEPT ![s] = "upsert"]
    /\ item' = [item EXCEPT ![s] = NoItem]
    /\ UNCHANGED <<asked, rest, lone, synced, met>>

\* delete_many, taken as one step, and the answer.
Sweep(s) ==
    /\ at[s] = "upsert"
    /\ rest[s] = {}
    /\ links' = IF full[s] THEN {d \in links : d.group = group[s] => d.id \in kept[s]} ELSE links
    /\ synced' = IF full[s] /\ s \in lone THEN [group |-> group[s], keys |-> bulk[s]] ELSE NoItem
    /\ Over(s)
    /\ UNCHANGED met

\* A call raises, or the worker dies.
SyncBreaks(s) ==
    /\ Syncing(s)
    /\ Over(s)
    /\ UNCHANGED <<links, synced, met>>

LinkInit ==
    /\ links = {}
    /\ at = [s \in Sync |-> "idle"]
    /\ bulk = [s \in Sync |-> {}]
    /\ full = [s \in Sync |-> FALSE]
    /\ group = [s \in Sync |-> NoGroup]
    /\ rest = [s \in Sync |-> {}]
    /\ item = [s \in Sync |-> NoItem]
    /\ kept = [s \in Sync |-> {}]
    /\ lone = {}
    /\ synced = NoItem
    /\ met = {}

LinkNext ==
    \E s \in Sync :
        \/ SyncBulk(s) \/ SyncItems(s)
        \/ UpsertFinds(s) \/ UpsertInserts(s) \/ Sweep(s)
        \/ SyncBreaks(s)

LinkSpec == LinkInit /\ [][LinkNext]_linkVars

-----------------------------------------------------------------------------
\* `_id` is unique.
LinkTypeOK ==
    /\ links \in SUBSET LinkDoc
    /\ \A d, e \in links : d.id = e.id => d = e
    /\ at \in [Sync -> {"idle", "upsert", "insert"}]
    /\ bulk \in [Sync -> SUBSET LinkKey]
    /\ full \in [Sync -> BOOLEAN]
    /\ group \in [Sync -> Group \cup {NoGroup}]
    /\ rest \in [Sync -> SUBSET LinkKey] /\ \A s \in Sync : rest[s] \subseteq bulk[s]
    /\ item \in [Sync -> LinkKey \cup {NoItem}]
    /\ \A s \in Sync : item[s] \in (IF at[s] = "insert" THEN bulk[s] ELSE {NoItem})
    /\ kept \in [Sync -> SUBSET LinkId]
    /\ lone \in SUBSET Sync
    /\ synced \in {NoItem} \cup [group : Group, keys : SUBSET LinkKey]
    /\ met \in SUBSET LinkKey

\* sync_bulk: a full synchronisation that ran alone leaves the group with the links it
\* was given, each once, whatever earlier requests left behind: other groups' links,
\* half of an aborted request, documents inserted twice or by the other route.
LoneSyncIsExact ==
    synced # NoItem =>
        /\ {d.key : d \in InGroup(synced.group)} = synced.keys
        /\ \A d, e \in InGroup(synced.group) : d.key = e.key => d = e

\* find_one_and_update with upsert: a key is linked once, unless two requests were about
\* to insert it at once; then it is linked at most once for each request in progress, since
\* later ones update what is there: duplicates do not add up over repeated synchronisations.
OneLink ==
    /\ \A d, e \in links : d.key = e.key /\ d.key \notin met => d = e
    /\ \A k \in LinkKey : Cardinality(Linked(k)) <= Cardinality(Sync)
=============================================================================
