--------------------------- MODULE DomainReplacement ---------------------------
(***************************************************************************)
(* POST /data-process/replace-domain/mongo: in every collection, read all  *)
(* documents through a cursor, then write back the fields that contain the *)
(* old domain, each under the path it was read at, while users go on       *)
(* editing.                                                                *)
(*                                                                         *)
(* A document is reduced to one list of texts, because the path of a text  *)
(* in a list is its position.  A text is who wrote it and whether it has   *)
(* the old domain; the new domain does not contain the old one.            *)
(***************************************************************************)
EXTENDS Naturals, Sequences, FiniteSets

CONSTANTS
    Run,            \* requests to replace that may be in progress together
    Coll, Doc,      \* collections, those of skip_tables left out, and the documents of each
    Edit,           \* edits of the users, each done at most once
    Seed            \* who wrote the texts that were there before

ASSUME SeedAssumption == Seed \notin Edit

VARIABLES
    docs,           \* docs[c][d]: the texts, << >> for a document that is not there
    pc, todo,       \* of each run: its stage and the collections left
    unread,         \* of each run: the documents its cursor has not reached
    bulk,           \* of each run: the updates collected, paths to texts
    done,           \* edits made so far
    authors,        \* history: who wrote the texts of a document, after its last edit
    edited,         \* history, of each run: the documents edited since it started
    stale,          \* history, of each run: those edited since it read them
    raced           \* history: documents a run wrote to when they were stale

runVars == <<pc, todo, unread, bulk>>
historyVars == <<authors, edited, stale, raced>>
vars == <<docs, runVars, done, historyVars>>

Text == [by : Edit \cup {Seed}, old : BOOLEAN]
Path == 1..2    \* bound: the positions of a list
NoUpdate == << >>

Fresh(e) == [by |-> e, old |-> TRUE]
Authors(texts) == [i \in DOMAIN texts |-> texts[i].by]

\* _collect_update_fields: the paths whose text has the old domain.
Collected(texts) == [i \in {j \in DOMAIN texts : texts[j].old} |-> [texts[i] EXCEPT !.old = FALSE]]

\* A mutated form: the document read is written back as a whole.
SetWhole(texts, update) == [i \in DOMAIN update |-> update[i]]
\* $set writes the paths it names; one past the end of the list extends it.
SetPaths(texts, update) ==
    [i \in DOMAIN texts \cup DOMAIN update |-> IF i \in DOMAIN update THEN update[i] ELSE texts[i]]

Current(r) == CHOOSE c \in todo[r] : TRUE

-----------------------------------------------------------------------------
\* The cursor of the next collection, or the answer.
Open(r, left) ==
    /\ todo' = [todo EXCEPT ![r] = left]
    /\ pc' = [pc EXCEPT ![r] = IF left = {} THEN "ended" ELSE "read"]
    /\ unread' = [unread EXCEPT ![r] = IF left = {} THEN {} ELSE Doc]
    /\ bulk' = [bulk EXCEPT ![r] = [d \in Doc |-> NoUpdate]]

Start(r) ==
    /\ pc[r] \in {"idle", "ended"}
    /\ Open(r, Coll)
    /\ edited' = [edited EXCEPT ![r] = {}]
    /\ stale' = [stale EXCEPT ![r] = {}]
    /\ UNCHANGED <<docs, done, authors, raced>>

Read(r) ==
    /\ pc[r] = "read"
    /\ \E d \in unread[r] :
        /\ unread' = [unread EXCEPT ![r] = @ \ {d}]
        /\ bulk' = [bulk EXCEPT ![r][d] = Collected(docs[Current(r)][d])]
    /\ UNCHANGED <<docs, pc, todo, done, historyVars>>

EndRead(r) ==
    /\ pc[r] = "read"
    /\ unread[r] = {}
    /\ pc' = [pc EXCEPT ![r] = "write"]
    /\ UNCHANGED <<docs, todo, unread, bulk, done, historyVars>>

\* bulk_write: one update after the other, each by `_id`; none for a document that is gone.
Write(r) ==
    /\ pc[r] = "write"
    /\ \E d \in Doc :
        /\ bulk[r][d] # NoUpdate
        /\ docs' = [docs EXCEPT ![Current(r)][d] = IF @ = << >> THEN << >> ELSE SetPaths(@, bulk[r][d])]
        /\ raced' = IF <<Current(r), d>> \in stale[r] THEN raced \cup {<<Current(r), d>>} ELSE raced
        /\ bulk' = [bulk EXCEPT ![r][d] = NoUpdate]
    /\ UNCHANGED <<pc, todo, unread, done, authors, edited, stale>>

\* A mutated form: the answer is given from within the loop over the collections.
NextCollectionNone(r) == Open(r, {})
NextCollection(r) == Open(r, todo[r] \ {Current(r)})

EndWrite(r) ==
    /\ pc[r] = "write"
    /\ \A d \in Doc : bulk[r][d] = NoUpdate
    /\ NextCollection(r)
    /\ UNCHANGED <<docs, done, historyVars>>

\* A call raises, or the worker dies: what was written stays written.
Abort(r) ==
    /\ pc[r] \in {"read", "write"}
    /\ pc' = [pc EXCEPT ![r] = "idle"]
    /\ todo' = [todo EXCEPT ![r] = {}]
    /\ unread' = [unread EXCEPT ![r] = {}]
    /\ bulk' = [bulk EXCEPT ![r] = [d \in Doc |-> NoUpdate]]
    /\ UNCHANGED <<docs, done, historyVars>>

\* A user writes a document: replaces a text, appends one, removes the first, or deletes
\* the document.
EditsOf(texts, e) ==
    {[texts EXCEPT ![1] = Fresh(e)], << >>}
        \cup IF Len(texts) = 1 THEN {Append(texts, Fresh(e))} ELSE {Tail(texts)}

UserEdits ==
    /\ \E c \in Coll, d \in Doc, e \in Edit \ done :
        /\ docs[c][d] # << >>
        /\ \E new \in EditsOf(docs[c][d], e) :
            /\ docs' = [docs EXCEPT ![c][d] = new]
            /\ authors' = [authors EXCEPT ![c][d] = Authors(new)]
        /\ done' = done \cup {e}
        /\ edited' = [r \in Run |-> edited[r] \cup {<<c, d>>}]
        /\ stale' = [r \in Run |->
            IF todo[r] # {} /\ c = Current(r) /\ d \notin unread[r] THEN stale[r] \cup {<<c, d>>} ELSE stale[r]]
    /\ UNCHANGED <<runVars, raced>>

Init ==
    /\ docs = [c \in Coll |-> [d \in Doc |-> <<Fresh(Seed), Fresh(Seed)>>]]
    /\ pc = [r \in Run |-> "idle"]
    /\ todo = [r \in Run |-> {}]
    /\ unread = [r \in Run |-> {}]
    /\ bulk = [r \in Run |-> [d \in Doc |-> NoUpdate]]
    /\ done = {}
    /\ authors = [c \in Coll |-> [d \in Doc |-> Authors(docs[c][d])]]
    /\ edited = [r \in Run |-> {}]
    /\ stale = [r \in Run |-> {}]
    /\ raced = {}

Next ==
    \/ \E r \in Run : Start(r) \/ Read(r) \/ EndRead(r) \/ Write(r) \/ EndWrite(r) \/ Abort(r)
    \/ UserEdits

Spec == Init /\ [][Next]_vars

-----------------------------------------------------------------------------
TypeOK ==
    /\ \A c \in Coll, d \in Doc : docs[c][d] \in Seq(Text) /\ DOMAIN docs[c][d] \subseteq Path
    /\ pc \in [Run -> {"idle", "read", "write", "ended"}]
    /\ todo \in [Run -> SUBSET Coll]
    /\ unread \in [Run -> SUBSET Doc]
    /\ \A r \in Run, d \in Doc :
        /\ DOMAIN bulk[r][d] \subseteq Path
        /\ \A i \in DOMAIN bulk[r][d] : bulk[r][d][i] \in Text
    /\ done \in SUBSET Edit
    /\ \A c \in Coll, d \in Doc : authors[c][d] \in Seq(Edit \cup {Seed})
    /\ \A r \in Run : stale[r] \subseteq edited[r] /\ edited[r] \subseteq Coll \X Doc
    /\ raced \subseteq Coll \X Doc

\* When a run has ended, no document that was left alone since it started has the old
\* domain, whatever other runs and aborted runs did meanwhile.
EndedIsComplete ==
    \A r \in Run, c \in Coll, d \in Doc :
        pc[r] = "ended" /\ <<c, d>> \notin edited[r]
            => \A i \in DOMAIN docs[c][d] : ~ docs[c][d][i].old

\* The replacement changes the domain in a text and nothing else: every document has
\* the texts its users left in it, in their order, unless a run wrote to it after an
\* edit that it had not read.
EditsSurvive ==
    \A c \in Coll, d \in Doc : <<c, d>> \notin raced => Authors(docs[c][d]) = authors[c][d]
=============================================================================
