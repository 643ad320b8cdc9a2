------------------------------- MODULE FileStore -------------------------------
(***************************************************************************)
(* The file module: documents in MongoDB that hold a file's content, or    *)
(* name an object of the bucket that does.                                 *)
(*                                                                         *)
(* One action is one awaited call with the code up to the next one.  What  *)
(* is put under a new object name is seen by nobody else before its        *)
(* document is written, so that put goes with the read of the setting      *)
(* before it.  Base64 text is written as the content it encodes; an object *)
(* name read as base64 text raises or gives Garbage.                       *)
(***************************************************************************)
EXTENDS Naturals, FiniteSets

CONSTANTS
    Process,        \* requests in progress, in any worker
    File,           \* values of `_id`
    Content,        \* what clients upload
    Empty,          \* the upload without bytes, whose text is falsy
    Object,         \* object names; a new one is in use by nobody (uuid4)
    Garbage,        \* the bytes an object name decodes to
    NoContent,      \* nothing under that name, or nothing written yet
    NoFile

ASSUME ContentAssumption ==
    Empty \in Content /\ {Garbage, NoContent} \cap Content = {} /\ Garbage # NoContent
ASSUME ObjectAssumption == Object \cap (Content \cup {Garbage, NoContent}) = {}

VARIABLES
    files,          \* the collection files: [storage, data], or NoFile
    objects,        \* the bucket: any text can be an object name
    setting,        \* FILE_STORAGE in the collection settings, changed at any time by hand
    filePc,         \* where each request stands
    reg,            \* its local variables
    last,           \* history: the content last stored for each file
    mixed           \* history: files whose document and content may no longer agree, see Mix

fileVars == <<files, objects, setting, filePc, reg, last, mixed>>

Bytes == Content \cup {Garbage}
Name == Object \cup Bytes
FileDoc == [storage : {"database", "s3"}, data : Name]
ASSUME NoFileAssumption == NoFile \notin File /\ NoFile \notin FileDoc

Locals == [file : File \cup {NoFile}, content : Bytes \cup {NoContent},
           doc : FileDoc \cup {NoFile}, data : Name \cup {NoContent}, left : SUBSET File]
NoLocals == [file |-> NoFile, content |-> NoContent, doc |-> NoFile, data |-> NoContent, left |-> {}]

Goto(p, label, locals) == filePc' = [filePc EXCEPT ![p] = label] /\ reg' = [reg EXCEPT ![p] = locals]
Finish(p) == Goto(p, "idle", NoLocals)

Stored(f) == files[f] # NoFile
NewObject == {o \in Object : objects[o] = NoContent}

\* get_file_data: the content a client gets; NoContent stands for the error answer.
ReadOf(doc) == IF doc.storage = "database" THEN doc.data ELSE objects[doc.data]

\* The document of p's file is the one p read, or is gone.
Unchanged(p) == files[reg[p].file] \in {NoFile, reg[p].doc}
\* A document is mixed when a request writes into it that read another one, and when a
\* migration marks as moved what is no new object, FILE_STORAGE being database by then.
Mix(f) == mixed' = mixed \cup {f}

-----------------------------------------------------------------------------
\* _create_file_data: the text or the new object name that stands for content c.
CreateFileData(c, data) ==
    \/ /\ setting = "database"
       /\ data = c
       /\ UNCHANGED objects
    \/ /\ setting = "s3"
       /\ data \in NewObject
       /\ objects' = [objects EXCEPT ![data] = c]

(***************************************************************************)
(* POST /file: the content, then the document.                             *)
(***************************************************************************)
Encode(p) ==
    /\ filePc[p] = "idle"
    /\ \E c \in Content, data \in Name :
        /\ CreateFileData(c, data)
        /\ Goto(p, "insert", [NoLocals EXCEPT !.content = c, !.data = data,
                                              !.doc = [storage |-> setting, data |-> data]])
    /\ UNCHANGED <<files, setting, last, mixed>>

Insert(p) ==
    /\ filePc[p] = "insert"
    /\ \E f \in File :
        /\ last[f] = NoContent
        /\ files' = [files EXCEPT ![f] = reg[p].doc]
        /\ last' = [last EXCEPT ![f] = reg[p].content]
    /\ Finish(p)
    /\ UNCHANGED <<objects, setting, mixed>>

(***************************************************************************)
(* PUT /file/{id}/data: where the content goes is read before it is        *)
(* written.                                                                *)
(***************************************************************************)
ReadForUpdate(p) ==
    /\ filePc[p] = "idle"
    /\ \E f \in File, c \in Content :
        /\ Stored(f)
        /\ Goto(p, "write", [NoLocals EXCEPT !.file = f, !.content = c, !.doc = files[f]])
    /\ UNCHANGED <<files, objects, setting, last, mixed>>

\* $set touches the field data alone; a document that is gone matches nothing.
WriteData(p) ==
    LET f == reg[p].file IN
    /\ filePc[p] = "write"
    /\ reg[p].doc.storage = "database"
    /\ IF Stored(f)
       THEN /\ files' = [files EXCEPT ![f].data = reg[p].content]
            /\ last' = [last EXCEPT ![f] = reg[p].content]
            /\ IF files[f].storage = "database" THEN UNCHANGED mixed ELSE Mix(f)
       ELSE UNCHANGED <<files, last, mixed>>
    /\ Finish(p)
    /\ UNCHANGED <<objects, setting>>

\* A mutated form: every version goes to an object of its own.
TargetNew(p) == CHOOSE o \in Object : NewObject = {} \/ o \in NewObject
Target(p) == reg[p].doc.data

\* The put is carried out; whether the client is told so or sees it raise, nothing else
\* is written.
WriteObject(p) ==
    LET f == reg[p].file IN
    /\ filePc[p] = "write"
    /\ reg[p].doc.storage = "s3"
    /\ objects' = [objects EXCEPT ![Target(p)] = reg[p].content]
    /\ last' = [last EXCEPT ![f] = reg[p].content]
    /\ IF Unchanged(p) THEN UNCHANGED mixed ELSE Mix(f)
    /\ Finish(p)
    /\ UNCHANGED <<files, setting>>

(***************************************************************************)
(* GET /file/{id}/...: the document, then the object it names.  A read of  *)
(* a document that holds the content is a single call.                     *)
(***************************************************************************)
ReadForGet(p) ==
    /\ filePc[p] = "idle"
    /\ \E f \in File :
        /\ Stored(f)
        /\ files[f].storage = "s3"
        /\ Goto(p, "fetch", [NoLocals EXCEPT !.file = f, !.doc = files[f]])
    /\ UNCHANGED <<files, objects, setting, last, mixed>>

FetchObject(p) ==
    /\ filePc[p] = "fetch"
    /\ Finish(p)
    /\ UNCHANGED <<files, objects, setting, last, mixed>>

\* A mutated form: the object goes with its document.
LeftByDelete(f) ==
    [n \in Name |-> IF files[f].storage = "s3" /\ n = files[f].data THEN NoContent ELSE objects[n]]
\* DELETE /file/{id} leaves the bucket alone.
AfterDelete(f) == objects

Delete ==
    /\ \E f \in File :
        /\ Stored(f)
        /\ files' = [files EXCEPT ![f] = NoFile]
        /\ objects' = AfterDelete(f)
    /\ UNCHANGED <<setting, filePc, reg, last, mixed>>

-----------------------------------------------------------------------------
(***************************************************************************)
(* POST /file/migrate/db/s3: the list of the documents to move is read     *)
(* once; then each is read, encoded and overwritten.                       *)
(***************************************************************************)
Proceed(p, left) == IF left = {} THEN Finish(p) ELSE Goto(p, "next", [NoLocals EXCEPT !.left = left])

StartMigration(p) ==
    /\ filePc[p] = "idle"
    /\ LET listed == {f \in File : Stored(f) /\ files[f].storage = "database"} IN
        /\ listed # {}
        /\ Proceed(p, listed)
    /\ UNCHANGED <<files, objects, setting, last, mixed>>

\* The listing is old: the document may have gone, or been moved by another migration.
ReadToMove(p) ==
    /\ filePc[p] = "next"
    /\ \E f \in reg[p].left :
        IF ~ Stored(f) \/ files[f].data = Empty THEN Proceed(p, reg[p].left \ {f})
        ELSE \/ /\ files[f].data \in Bytes
                /\ Goto(p, "encode", [reg[p] EXCEPT !.file = f, !.doc = files[f], !.content = files[f].data])
             \/ /\ files[f].data \in Object
                /\ \/ Goto(p, "encode", [reg[p] EXCEPT !.file = f, !.doc = files[f], !.content = Garbage])
                   \/ Finish(p)
    /\ UNCHANGED <<files, objects, setting, last, mixed>>

EncodeToMove(p) ==
    /\ filePc[p] = "encode"
    /\ \E data \in Name :
        /\ CreateFileData(reg[p].content, data)
        /\ Goto(p, "mark", [reg[p] EXCEPT !.data = data])
    /\ UNCHANGED <<files, setting, last, mixed>>

Marked(p) == [storage |-> "s3", data |-> reg[p].data]

Mark(p) ==
    LET f == reg[p].file IN
    /\ filePc[p] = "mark"
    /\ files' = [files EXCEPT ![f] = IF Stored(f) THEN Marked(p) ELSE NoFile]
    /\ IF ~ Stored(f) \/ (Unchanged(p) /\ reg[p].doc.storage = "database" /\ reg[p].data \in Object)
       THEN UNCHANGED mixed
       ELSE Mix(f)
    /\ Proceed(p, reg[p].left \ {f})
    /\ UNCHANGED <<objects, setting, last>>

-----------------------------------------------------------------------------
\* update_by_id answers False to any exception, and its callers go on.
Swallow(p) ==
    /\ \/ filePc[p] = "write" /\ reg[p].doc.storage = "database" /\ Finish(p)
       \/ filePc[p] = "mark" /\ Proceed(p, reg[p].left \ {reg[p].file})
    /\ UNCHANGED <<files, objects, setting, last, mixed>>

\* A call raises, FILE_STORAGE names another storage (501), or the process dies.
RequestFails(p) ==
    /\ filePc[p] # "idle"
    /\ Finish(p)
    /\ UNCHANGED <<files, objects, setting, last, mixed>>

ChangeSetting ==
    /\ setting' \in {"database", "s3"} \ {setting}
    /\ UNCHANGED <<files, objects, filePc, reg, last, mixed>>

FileInit ==
    /\ files = [f \in File |-> NoFile]
    /\ objects = [n \in Name |-> NoContent]
    /\ setting \in {"database", "s3"}
    /\ filePc = [p \in Process |-> "idle"]
    /\ reg = [p \in Process |-> NoLocals]
    /\ last = [f \in File |-> NoContent]
    /\ mixed = {}

FileNext ==
    \/ \E p \in Process :
        \/ Encode(p) \/ Insert(p)
        \/ ReadForUpdate(p) \/ WriteData(p) \/ WriteObject(p)
        \/ ReadForGet(p) \/ FetchObject(p)
        \/ StartMigration(p) \/ ReadToMove(p) \/ EncodeToMove(p) \/ Mark(p)
        \/ Swallow(p) \/ RequestFails(p)
    \/ Delete
    \/ ChangeSetting

FileSpec == FileInit /\ [][FileNext]_fileVars

-----------------------------------------------------------------------------
FileTypeOK ==
    /\ files \in [File -> FileDoc \cup {NoFile}]
    /\ objects \in [Name -> Bytes \cup {NoContent}]
    /\ setting \in {"database", "s3"}
    /\ filePc \in [Process -> {"idle", "insert", "write", "fetch", "next", "encode", "mark"}]
    /\ reg \in [Process -> Locals]
    /\ last \in [File -> Content \cup {NoContent}]
    /\ mixed \in SUBSET File

\* A file reads as what was last stored for it, wherever it lies and however often it
\* was moved, unless its document was mixed.
ContentKept == \A f \in File \ mixed : Stored(f) => ReadOf(files[f]) = last[f]

\* A client that read the document gets the content last stored when it fetches the
\* object, also when the file was updated or deleted in between.
ReadIsCurrent ==
    \A p \in Process :
        filePc[p] = "fetch" /\ reg[p].file \notin mixed => ReadOf(reg[p].doc) = last[reg[p].file]
=============================================================================
