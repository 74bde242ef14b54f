------------------------------ MODULE Messages ------------------------------
(***************************************************************************)
(* The messages of a chat and their files: MessageService and MessageRepo, *)
(* reached from MessageController and from ChatGateway, the weekly job     *)
(* that removes deleted messages, and the cache of message pages.          *)
(*                                                                         *)
(* Only the insertion and the weekly removal are transactions; every other *)
(* request works statement by statement, with the storage in between, and  *)
(* may fail or be cut short after each.  What a page shows is abstracted   *)
(* to whether a message has changed since it was read, a text to whether   *)
(* there is one.  Events to the room follow the statement they announce    *)
(* and change nothing.                                                     *)
(***************************************************************************)
EXTENDS Naturals, FiniteSets

CONSTANTS
    Users,        \* ids of users
    AdminUsers,   \* users whose token says ADMIN
    Readers,      \* bound: users whose pages are followed
    Ids,          \* ids of messages
    Files,        \* storage keys ever made
    Requests,     \* requests that may run at a time
    BatchLimit,   \* deletedMessagesCleanupBatchLimit
    MaxBegun,     \* bound: requests begun
    None,         \* no message yet, no page, no request
    Gone          \* a message whose row is no more

ASSUME SetsAssumption == AdminUsers \union Readers \subseteq Users
ASSUME BatchAssumption == BatchLimit \in Nat \ {0} /\ MaxBegun \in Nat

VARIABLES
    users,     \* users with a row
    open,      \* whether the chat has a row
    members,   \* users with a row of chat_members, hidden ones included
    message,   \* the row of each message
    rows,      \* the file rows of each message
    made,      \* keys that were uploaded
    stored,    \* keys whose file is in the storage
    page,      \* the cached page of each reader
    fill,      \* the page a reader's request is about to cache
    batch,     \* messages the weekly job is about to remove
    request,   \* what each request is at
    begun,     \* counts the requests
    missed,    \* auxiliary: readers whose page was not, or too early, deleted
    cut,       \* auxiliary: messages a request stopped in the middle of
    raced      \* auxiliary: messages that two requests changed at a time

messagesVars == <<users, open, members, message, rows, made, stored, page, fill, batch,
          request, begun, missed, cut, raced>>
people == <<users, open, members>>
caches == <<page, fill, missed>>
marks == <<cut, raced>>

-----------------------------------------------------------------------------
Message == [sender : Users, text : BOOLEAN, type : {"TEXT", "FILE", "MIXED"},
            deleted : BOOLEAN]

\* "keys" are the files a request still works on; "type" the one to write.
RequestState == [op : {"send", "edit", "delete", "file"}, user : Users,
            id : Ids \union {None}, text : BOOLEAN, keys : SUBSET Files,
            type : {"TEXT", "FILE", "MIXED"},
            step : {"upload", "create", "cleanup", "write", "files", "rows",
                    "reread", "mark", "type", "purge"}]

ASSUME ModelValuesAssumption ==
    /\ None # Gone
    /\ {None, Gone} \intersect Message = {}
    /\ None \notin RequestState \union Ids \union {"current", "stale"}

Row(m) == message[m] \notin {None, Gone}
Live(m) == Row(m) /\ ~message[m].deleted
Free(r) == request[r] = None
At(r, step) == ~Free(r) /\ request[r].step = step
On(m) == {r \in Requests : ~Free(r) /\ request[r].id = m}

\* resolveMessageType: SYSTEM is never asked for.
Resolve(text, hasFiles) ==
    IF text /\ hasFiles THEN "MIXED" ELSE IF hasFiles THEN "FILE" ELSE "TEXT"

\* The sender, or an admin.
MayChange(u, m) == message[m].sender = u \/ u \in AdminUsers

\* findMessages: every page read before a change no longer shows what is there.
Stale ==
    /\ page' = [u \in Readers |-> IF page[u] = None THEN None ELSE "stale"]
    /\ fill' = [u \in Readers |-> IF fill[u] = None THEN None ELSE "stale"]

Begin(r, op, u, m, text, keys, step) ==
    /\ Free(r) /\ begun < MaxBegun
    /\ begun' = begun + 1
    /\ request' = [request EXCEPT ![r] =
          [op |-> op, user |-> u, id |-> m, text |-> text, keys |-> keys,
           type |-> "MIXED", step |-> step]]
    /\ raced' = IF m # None /\ On(m) # {} THEN raced \union {m} ELSE raced

Goto(r, step) == request' = [request EXCEPT ![r].step = step]
End(r) == request' = [request EXCEPT ![r] = None]

MessagesInit ==
    /\ users = Users
    /\ open = TRUE
    /\ members \in SUBSET Users
    /\ message = [m \in Ids |-> None]
    /\ rows = [m \in Ids |-> {}]
    /\ made = {}
    /\ stored = {}
    /\ page = [u \in Readers |-> None]
    /\ fill = [u \in Readers |-> None]
    /\ batch = {}
    /\ request = [r \in Requests |-> None]
    /\ begun = 0
    /\ missed = {}
    /\ cut = {}
    /\ raced = {}

-----------------------------------------------------------------------------
(***************************************************************************)
(* MessageRepo                                                             *)
(***************************************************************************)
\* findChatMember looks for the row alone: a hidden chat is still the user's.
IsMember(u) == u \in members

\* createMessage: one transaction for the message and its file rows.  The
\* message names its chat and its sender.
Insert(m, u, text, keys) ==
    /\ open /\ u \in users
    /\ message' = [message EXCEPT ![m] =
          [sender |-> u, text |-> text, deleted |-> FALSE,
           type |-> Resolve(text, keys # {})]]
    /\ rows' = [rows EXCEPT ![m] = keys]

\* The updates by id, which are errors without a row; softDeleteMessage does
\* not ask whether the message is deleted already.
SetText(m) == Row(m) /\ message' = [message EXCEPT ![m].text = TRUE]
SetType(m, type) == Row(m) /\ message' = [message EXCEPT ![m].type = type]
MarkDeleted(m) == Row(m) /\ message' = [message EXCEPT ![m].deleted = TRUE]

\* deleteFile is an error without the row, deleteFilesByMessageId is not.
DropFiles(m, keys) == keys \subseteq rows[m] /\ rows' = [rows EXCEPT ![m] = @ \ keys]
DropAllFiles(m) == rows' = [rows EXCEPT ![m] = {}]

\* The chat's members come and go (Chats).
ChangeMembers(u) ==
    /\ open /\ u \in users
    /\ members' = IF u \in members THEN members \ {u} ELSE members \union {u}
    /\ UNCHANGED <<users, open, message, rows, made, stored, caches, batch, request,
                   begun, marks>>

-----------------------------------------------------------------------------
(***************************************************************************)
(* sendMessage                                                             *)
(***************************************************************************)
Send(r, u, text, keys) ==
    /\ text \/ keys # {}
    /\ IsMember(u)
    /\ keys \intersect made = {}
    /\ Begin(r, "send", u, None, text, keys, IF keys = {} THEN "create" ELSE "upload")
    /\ made' = made \union keys
    /\ UNCHANGED <<people, message, rows, stored, caches, batch, cut>>

\* Some uploads may fail, and a file whose upload failed may have arrived; a
\* message is made of those that succeeded, unless none did.
Upload(r) ==
    /\ At(r, "upload")
    /\ \E arrived \in SUBSET request[r].keys : \E ok \in SUBSET arrived :
          /\ stored' = stored \union arrived
          /\ request' = [request EXCEPT ![r] =
                IF ok = {} THEN None ELSE [@ EXCEPT !.keys = ok, !.step = "create"]]
    /\ UNCHANGED <<people, message, rows, made, caches, batch, begun, marks>>

Create(r, m) ==
    /\ At(r, "create")
    /\ message[m] = None
    /\ Insert(m, request[r].user, request[r].text, request[r].keys)
    /\ request' = [request EXCEPT ![r].id = m, ![r].keys = {}, ![r].step = "purge"]
    /\ Stale
    /\ UNCHANGED <<people, made, stored, batch, begun, missed, marks>>

CreateFails(r) ==
    /\ At(r, "create")
    /\ IF request[r].keys = {} THEN End(r) ELSE Goto(r, "cleanup")
    /\ UNCHANGED <<people, message, rows, made, stored, caches, batch, begun, marks>>

\* The uploaded files of a message that was not written are deleted again; an
\* error of the storage is logged.
CleanUp(r) ==
    /\ At(r, "cleanup")
    /\ \E gone \in SUBSET request[r].keys : stored' = stored \ gone
    /\ End(r)
    /\ UNCHANGED <<people, message, rows, made, caches, batch, begun, marks>>

-----------------------------------------------------------------------------
(***************************************************************************)
(* editMessage, deleteMessage, deleteFile                                  *)
(***************************************************************************)
Edit(r, u, m) ==
    /\ Live(m) /\ MayChange(u, m)
    /\ Begin(r, "edit", u, m, TRUE, {}, "write")
    /\ UNCHANGED <<people, message, rows, made, stored, caches, batch, cut>>

\* A message of files alone becomes MIXED, by a second UPDATE.
UpdateContent(r) ==
    /\ At(r, "write")
    /\ LET m == request[r].id IN
       /\ SetText(m)
       /\ Goto(r, IF rows[m] # {} /\ message[m].type = "FILE" THEN "type" ELSE "purge")
    /\ Stale
    /\ UNCHANGED <<people, rows, made, stored, batch, begun, missed, marks>>

\* The files that deleteMessage has to delete first; the variant forgets them.
NoFiles(m) == {}
Attached(m) == rows[m]

DeleteMessage(r, u, m) ==
    /\ Live(m) /\ MayChange(u, m)
    /\ Begin(r, "delete", u, m, FALSE, Attached(m),
             IF Attached(m) = {} THEN "mark" ELSE "files")
    /\ UNCHANGED <<people, message, rows, made, stored, caches, batch, cut>>

DeleteFile(r, u, m, f) ==
    /\ Live(m) /\ f \in rows[m] /\ MayChange(u, m)
    /\ Begin(r, "file", u, m, FALSE, {f}, "files")
    /\ UNCHANGED <<people, message, rows, made, stored, caches, batch, cut>>

\* FilesService.delete; an error, after some files perhaps, ends the request.
DeleteStored(r) ==
    /\ At(r, "files")
    /\ stored' = stored \ request[r].keys
    /\ Goto(r, "rows")
    /\ UNCHANGED <<people, message, rows, made, caches, batch, begun, marks>>

DeleteStoredFails(r) ==
    /\ At(r, "files")
    /\ \E gone \in SUBSET request[r].keys : stored' = stored \ gone
    /\ End(r)
    /\ UNCHANGED <<people, message, rows, made, caches, batch, begun, marks>>

DeleteRows(r) ==
    /\ At(r, "rows") /\ request[r].op = "delete"
    /\ DropAllFiles(request[r].id)
    /\ Goto(r, "mark")
    /\ Stale
    /\ UNCHANGED <<people, message, made, stored, batch, begun, missed, marks>>

DeleteRow(r) ==
    /\ At(r, "rows") /\ request[r].op = "file"
    /\ DropFiles(request[r].id, request[r].keys)
    /\ Goto(r, "reread")
    /\ Stale
    /\ UNCHANGED <<people, message, made, stored, batch, begun, missed, marks>>

\* What is left of the message once it has lost a file.  The variant takes the
\* message as it was before.
LeftBefore(q) == rows[q.id] \union q.keys
LeftOf(q) == rows[q.id]

Reread(r) ==
    /\ At(r, "reread")
    /\ LET q == request[r]
           m == q.id
           next == Resolve(message[m].text, LeftOf(q) # {})
       IN request' = [request EXCEPT ![r].step =
              IF ~Row(m) THEN "purge"
              ELSE IF ~message[m].text /\ LeftOf(q) = {} THEN "mark"
              ELSE IF message[m].type # next THEN "type" ELSE "purge",
              ![r].type = IF Row(m) THEN next ELSE @]
    /\ UNCHANGED <<people, message, rows, made, stored, caches, batch, begun, marks>>

UpdateType(r) ==
    /\ At(r, "type")
    /\ SetType(request[r].id, request[r].type)
    /\ Goto(r, "purge")
    /\ Stale
    /\ UNCHANGED <<people, rows, made, stored, batch, begun, missed, marks>>

SoftDeleteMessage(r) ==
    /\ At(r, "mark")
    /\ MarkDeleted(request[r].id)
    /\ Goto(r, "purge")
    /\ Stale
    /\ UNCHANGED <<people, rows, made, stored, batch, begun, missed, marks>>

-----------------------------------------------------------------------------
(***************************************************************************)
(* Pages                                                                   *)
(***************************************************************************)
\* A request that has changed what pages show and not yet deleted them.
Owing == {"reread", "mark", "type", "purge"}

\* Pages that a deletion of the cache does not reach.
Missing == {u \in Readers : fill[u] # None}

\* invalidateMessageCache, which runs after the answer; a failure is logged.
Purge(r) ==
    /\ At(r, "purge")
    /\ page' = [u \in Readers |-> None]
    /\ missed' = Missing
    /\ End(r)
    /\ UNCHANGED <<people, message, rows, made, stored, fill, batch, begun, marks>>

\* Any statement may fail, and the process may stop.
Fails(r) ==
    /\ ~Free(r)
    /\ missed' = IF request[r].step \in Owing
                 THEN missed \union {u \in Readers : page[u] # None \/ fill[u] # None}
                 ELSE missed
    /\ cut' = cut \union ({request[r].id} \ {None})
    /\ End(r)
    /\ UNCHANGED <<people, message, rows, made, stored, page, fill, batch, begun, raced>>

\* getMessages without a cached page: the query, then the SET.
ReadPage(u) ==
    /\ IsMember(u)
    /\ page[u] = None /\ fill[u] = None
    /\ fill' = [fill EXCEPT ![u] = "current"]
    /\ UNCHANGED <<people, message, rows, made, stored, page, batch, request, begun,
                   missed, marks>>

WritePage(u) ==
    /\ fill[u] # None
    /\ page' = [page EXCEPT ![u] = fill[u]]
    /\ fill' = [fill EXCEPT ![u] = None]
    /\ UNCHANGED <<people, message, rows, made, stored, batch, request, begun,
                   missed, marks>>

ExpirePage(u) ==
    /\ page[u] # None
    /\ page' = [page EXCEPT ![u] = None]
    /\ missed' = IF fill[u] = None THEN missed \ {u} ELSE missed
    /\ UNCHANGED <<people, message, rows, made, stored, fill, batch, request, begun, marks>>

-----------------------------------------------------------------------------
(***************************************************************************)
(* The jobs                                                                *)
(***************************************************************************)
\* DeletedMessagesCleanupJob: a batch of deleted messages, read first.
Deleted == {m \in Ids : Row(m) /\ message[m].deleted}

SelectDeleted ==
    /\ batch = {}
    /\ \E ms \in (SUBSET Deleted) \ {{}} :
          /\ Cardinality(ms) = BatchLimit \/ (ms = Deleted /\ Cardinality(ms) < BatchLimit)
          /\ batch' = ms
    /\ UNCHANGED <<people, message, rows, made, stored, caches, request, begun, marks>>

RemoveDeleted ==
    /\ batch # {}
    /\ rows' = [m \in Ids |-> IF m \in batch THEN {} ELSE rows[m]]
    /\ message' = [m \in Ids |-> IF m \in batch THEN Gone ELSE message[m]]
    /\ batch' = {}
    /\ UNCHANGED <<people, made, stored, caches, request, begun, marks>>

\* OrphanFilesJob: files of chats, a day old, that no row names.  No request
\* lasts a day.
SweepOrphans ==
    LET busy == UNION {request[r].keys : r \in {q \in Requests : ~Free(q)}}
        orphans == {f \in stored \ busy : \A m \in Ids : f \notin rows[m]}
    IN /\ orphans # {}
       /\ \E gone \in (SUBSET orphans) \ {{}} : stored' = stored \ gone
       /\ UNCHANGED <<people, message, rows, made, caches, batch, request, begun, marks>>

-----------------------------------------------------------------------------
(***************************************************************************)
(* Cascades                                                                *)
(***************************************************************************)
\* Messages go, and their file rows with them: neither the storage nor the
\* cache is told.
TakeMessages(ms) ==
    /\ message' = [m \in Ids |-> IF m \in ms THEN Gone ELSE message[m]]
    /\ rows' = [m \in Ids |-> IF m \in ms THEN {} ELSE rows[m]]
    /\ Stale
    /\ missed' = missed \union {u \in Readers : page[u] # None \/ fill[u] # None}
    /\ UNCHANGED <<made, stored, batch, request, begun, marks>>

\* A removed account takes its messages and its membership.
RemoveUser(u) ==
    /\ u \in users
    /\ users' = users \ {u}
    /\ members' = members \ {u}
    /\ TakeMessages({m \in Ids : Row(m) /\ message[m].sender = u})
    /\ UNCHANGED open

\* The chat of a post goes when the post is purged.
RemoveChat ==
    /\ open
    /\ open' = FALSE
    /\ members' = {}
    /\ TakeMessages({m \in Ids : Row(m)})
    /\ UNCHANGED users

-----------------------------------------------------------------------------
\* MessageController: what a user may ask for.
Ask(r, u) ==
    \/ \E text \in BOOLEAN, keys \in SUBSET Files : Send(r, u, text, keys)
    \/ \E m \in Ids :
          \/ Edit(r, u, m)
          \/ DeleteMessage(r, u, m)
          \/ \E f \in Files : DeleteFile(r, u, m, f)

\* ChatGateway: the same over a socket, without files.
AskBySocket(r, u) ==
    \/ Send(r, u, TRUE, {})
    \/ \E m \in Ids : Edit(r, u, m) \/ DeleteMessage(r, u, m)

Proceed(r) ==
    \/ Upload(r) \/ CreateFails(r) \/ CleanUp(r)
    \/ \E m \in Ids : Create(r, m)
    \/ UpdateContent(r) \/ UpdateType(r)
    \/ DeleteStored(r) \/ DeleteStoredFails(r)
    \/ DeleteRows(r) \/ DeleteRow(r) \/ Reread(r) \/ SoftDeleteMessage(r)
    \/ Purge(r) \/ Fails(r)

Pages(u) == ReadPage(u) \/ WritePage(u) \/ ExpirePage(u)

MessagesNext ==
    \/ \E r \in Requests : Proceed(r) \/ \E u \in Users : Ask(r, u) \/ AskBySocket(r, u)
    \/ \E u \in Readers : Pages(u) \/ ChangeMembers(u)
    \/ SelectDeleted \/ RemoveDeleted \/ SweepOrphans
    \/ RemoveChat \/ \E u \in Users : RemoveUser(u)

MessagesSpec == MessagesInit /\ [][MessagesNext]_messagesVars

-----------------------------------------------------------------------------
MessagesTypeOK ==
    /\ users \in SUBSET Users
    /\ open \in BOOLEAN
    /\ members \in SUBSET Users
    /\ message \in [Ids -> Message \union {None, Gone}]
    /\ rows \in [Ids -> SUBSET made]
    /\ made \in SUBSET Files
    /\ stored \in SUBSET made
    /\ page \in [Readers -> {None, "current", "stale"}]
    /\ fill \in [Readers -> {None, "current", "stale"}]
    /\ batch \in SUBSET Ids
    /\ request \in [Requests -> RequestState \union {None}]
    /\ begun \in 0..MaxBegun
    /\ missed \in SUBSET Readers
    /\ cut \in SUBSET Ids
    /\ raced \in SUBSET Ids

\* A message that is shown has a text or a file, however deletions of its
\* files, of itself and edits interleave; and unless two requests overlapped
\* on it its type fits what it has.  A request that is under way, or that
\* stopped halfway, is excused.
ShowsWhatItHas ==
    \A m \in Ids :
        Live(m) /\ On(m) = {} /\ m \notin cut =>
            /\ message[m].text \/ rows[m] # {}
            /\ m \in raced \/ message[m].type = Resolve(message[m].text, rows[m] # {})

\* A cached page that misses a change goes with the request that made it,
\* unless its deletion failed or a reader was about to cache what it had read.
PagesAreCurrent ==
    \A u \in Readers :
        \/ page[u] # "stale"
        \/ u \in missed
        \/ \E r \in Requests : ~Free(r) /\ request[r].step \in Owing

\* What every state of the chat keeps.
MessagesAreKept == MessagesTypeOK /\ ShowsWhatItHas /\ PagesAreCurrent

\* Messages that go with their sender or their chat.
TakenAlong(m) ==
    Row(m) /\ (message[m].sender \in users \ users' \/ (open /\ ~open'))

\* A file row goes only once its file is out of the storage, so that whoever
\* was refused may try again; the weekly job, which does not ask the storage,
\* relies on deleted messages having no rows.  The rows that a removed account
\* or a purged post takes along leave their files to the orphan sweep.
RowsGoAfterFiles ==
    [][\A m \in Ids :
          TakenAlong(m) \/ (rows[m] \ rows'[m]) \intersect stored = {}]_messagesVars

=============================================================================
