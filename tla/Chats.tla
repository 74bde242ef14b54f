------------------------------- MODULE Chats -------------------------------
(***************************************************************************)
(* Chats and who belongs to them: ChatService and ChatRepo, the requests   *)
(* of ChatController, and the rooms of ChatGateway.                        *)
(*                                                                         *)
(* No request runs in a transaction: each reads what it needs to decide,   *)
(* inserts the chat or changes memberships one row at a time, deletes the  *)
(* cached lists of the users it names, and answers through getChat, which  *)
(* keeps the chat in the cache for that user.  Requests interleave between *)
(* these steps, and any of them may fail or be cut short after each.       *)
(* A user has one socket.  The cached chat is abstracted to who may read   *)
(* it, and the pages of a cached list to the chats on it.                  *)
(***************************************************************************)
EXTENDS Naturals, FiniteSets, Sequences

CONSTANTS
    Users,        \* ids of users
    Verified,     \* users whose e-mail is verified and who are active
    Parties,      \* bound: participants that a new group chat may name
    Clients,      \* bound: users who connect and read chats and lists
    Leavers,      \* bound: users whose account may be removed
    ChatIds,      \* ids of chats
    Author,       \* post -> its author
    Purged,       \* bound: posts that may be purged
    Requests,     \* requests that may run at a time
    MaxRequests,  \* bound: requests begun
    None,         \* no chat, no request, no list
    Gone          \* a chat that went with its post

Posts == DOMAIN Author

ASSUME UsersAssumption ==
    /\ Verified \union Clients \union Leavers \subseteq Users
    /\ Purged \subseteq Posts /\ \A p \in Posts : Author[p] \in Users
ASSUME BoundAssumption == MaxRequests \in Nat /\ Parties \subseteq SUBSET Users

VARIABLES
    accounts,   \* users with a row
    posts,      \* posts with a row
    chat,       \* the rows of chats and private_chats
    member,     \* the row of chat_members of each chat and user
    view,       \* users for whom a chat is cached
    list,       \* the cached list of chats of each user
    fill,       \* the list each user's getUserChats is about to cache
    room,       \* users whose socket is in the room of a chat
    online,     \* users with a socket
    request,    \* what each request is at
    begun,      \* counts the requests
    ever,       \* auxiliary: users that have been members of a chat
    missed      \* auxiliary: users whose list was not, or too early, deleted

vars == <<accounts, posts, chat, member, view, list, fill, room, online, request, begun,
          ever, missed>>
caches == <<view, list, fill, missed>>
sockets == <<room, online>>
people == <<accounts, posts>>

-----------------------------------------------------------------------------
\* "key" is the value of the unique index; "users" the pair of a private chat.
Chat == [type : {"PRIVATE", "GROUP", "POST"},
         key : (SUBSET Users) \union Posts, users : SUBSET Users]

Membership == {"none", "member", "hidden"}

\* After its checks a request has members to add, then lists to delete.
Change == [op : {"private", "post"}, user : Users, target : Users \union Posts,
           step : {"insert"}]
          \union [op : {"leave", "hide"}, user : Users, chat : ChatIds, step : {"write"}]
          \union [op : {"add", "join"}, user : Users, chat : ChatIds, adds : Seq(Users),
                  lists : SUBSET Users, step : {"write", "read"}]

ASSUME NoneAssumption == None \notin Chat \union Change /\ Gone \notin Chat \union {None}

Member(c, u) == member[c][u] = "member"
Members(c) == {u \in Users : Member(c, u)}
ChatsOf(u) == {c \in ChatIds : Member(c, u)}
Exists(c) == chat[c] \notin {None, Gone}
Idle(r) == request[r] = None
At(r, ops, step) == ~Idle(r) /\ request[r].op \in ops /\ request[r].step = step

\* normalizePrivatePair: the two in an order of their own.
Pair(u, v) == {u, v}

\* Who may be added, and who may join; the variant forgets the chat's type.
AnyOpen(c) == Exists(c)
Open(c) == Exists(c) /\ chat[c].type # "PRIVATE"

Begin(r, rec) ==
    /\ begun < MaxRequests
    /\ begun' = begun + 1
    /\ request' = [request EXCEPT ![r] = rec]

\* What follows the checks: the rows of "adds", then the lists of "lists".
Continue(op, u, c, adds, lists) ==
    [op |-> op, user |-> u, chat |-> c, adds |-> adds, lists |-> lists, step |-> "write"]

End(r) == request' = [request EXCEPT ![r] = None]

\* Nothing yet, or a private chat that a client hid before.
Empty == [c \in ChatIds |-> None]
NewId(rows) == CHOOSE c \in ChatIds : rows[c] = None
Hidden(u, v) == [Empty EXCEPT ![NewId(Empty)] =
                    [type |-> "PRIVATE", key |-> Pair(u, v), users |-> {u, v}]]

Init ==
    /\ accounts = Users
    /\ posts = Posts
    /\ \/ /\ chat = Empty
          /\ member = [c \in ChatIds |-> [u \in Users |-> "none"]]
       \/ \E u \in Clients : \E v \in Users \ {u} :
             /\ chat = Hidden(u, v)
             /\ member = [c \in ChatIds |-> [w \in Users |->
                    IF c # NewId(Empty) \/ w \notin {u, v} THEN "none"
                    ELSE IF w = u THEN "hidden" ELSE "member"]]
    /\ view = [c \in ChatIds |-> {}]
    /\ list = [u \in Users |-> None]
    /\ fill = [u \in Users |-> None]
    /\ room = [c \in ChatIds |-> {}]
    /\ online = {}
    /\ request = [r \in Requests |-> None]
    /\ begun = 0
    /\ ever = [c \in ChatIds |-> {u \in Users : member[c][u] # "none"}]
    /\ missed = {}

-----------------------------------------------------------------------------
(***************************************************************************)
(* Creating chats                                                          *)
(***************************************************************************)
\* One INSERT of the chat and its first members, under a new id; each of them
\* has an account.
Insert(type, key, users, members) ==
    LET c == NewId(chat) IN
    /\ \E d \in ChatIds : chat[d] = None
    /\ members \subseteq accounts
    /\ chat' = [chat EXCEPT ![c] = [type |-> type, key |-> key, users |-> users]]
    /\ member' = [member EXCEPT ![c] =
                     [u \in Users |-> IF u \in members THEN "member" ELSE "none"]]
    /\ ever' = [ever EXCEPT ![c] = members]

Found(type, keys) ==
    {c \in ChatIds : Exists(c) /\ chat[c].type = type /\ chat[c].key \in keys}

\* The row of private_chats goes with either of the two.
PrivateChats(u, v) ==
    IF {u, v} \subseteq accounts THEN Found("PRIVATE", {Pair(u, v), Pair(v, u)}) ELSE {}

PostChats(p) == Found("POST", {p})

\* createPrivateChat: an existing chat of the two gets both members again.
CreatePrivate(r, u, v) ==
    /\ Idle(r) /\ u # v
    /\ \/ \E c \in PrivateChats(u, v) : Begin(r, Continue("add", u, c, <<u, v>>, {u, v}))
       \/ /\ PrivateChats(u, v) = {}
          /\ Begin(r, [op |-> "private", user |-> u, target |-> v, step |-> "insert"])
    /\ UNCHANGED <<people, chat, member, caches, sockets, ever>>

InsertPrivate(r) ==
    /\ At(r, {"private"}, "insert")
    /\ LET u == request[r].user
           v == request[r].target
       IN /\ Found("PRIVATE", {Pair(u, v)}) = {}
          /\ Insert("PRIVATE", Pair(u, v), {u, v}, {u, v})
          /\ request' = [request EXCEPT
                ![r] = Continue("add", u, NewId(chat), <<>>, {u, v})]
    /\ UNCHANGED <<people, caches, sockets, begun>>

\* The creator and the participants of a group, each once.
InsertGroup(u, others) == Insert("GROUP", {}, {}, {u} \union others)

CreateGroup(r, u, others) ==
    /\ Idle(r)
    /\ InsertGroup(u, others)
    /\ Begin(r, Continue("add", u, NewId(chat), <<>>, {u} \union others))
    /\ UNCHANGED <<people, caches, sockets>>

\* createPostChat: whoever asks becomes a member; the author is the first.
CreatePostChat(r, u, p) ==
    /\ Idle(r) /\ p \in posts
    /\ \/ \E c \in PostChats(p) :
             Begin(r, Continue("add", u, c, IF Member(c, u) THEN <<>> ELSE <<u>>,
                               {u} \union {v \in Users : member[c][v] # "none"}))
       \/ /\ PostChats(p) = {}
          /\ Begin(r, [op |-> "post", user |-> u, target |-> p, step |-> "insert"])
    /\ UNCHANGED <<people, chat, member, caches, sockets, ever>>

InsertPostChat(r) ==
    /\ At(r, {"post"}, "insert")
    /\ LET u == request[r].user
           p == request[r].target
       IN /\ p \in posts /\ PostChats(p) = {}
          /\ Insert("POST", p, {}, {Author[p]})
          /\ request' = [request EXCEPT ![r] =
                Continue("add", u, NewId(chat), IF u # Author[p] THEN <<u>> ELSE <<>>,
                         {u, Author[p]})]
    /\ UNCHANGED <<people, caches, sockets, begun>>

-----------------------------------------------------------------------------
(***************************************************************************)
(* Joining, leaving, hiding                                                *)
(***************************************************************************)
\* findUserByEmail, with what addMemberByEmail asks of the user.
CanBeAdded(v) == v \in Verified \intersect accounts

\* addMemberByEmail: a member adds a verified user to a group or post chat.
AddMemberByEmail(r, u, c, v) ==
    /\ Idle(r)
    /\ Open(c) /\ Member(c, u)
    /\ CanBeAdded(v) /\ ~Member(c, v)
    /\ Begin(r, Continue("add", u, c, <<v>>, {u, v}))
    /\ UNCHANGED <<people, chat, member, caches, sockets, ever>>

JoinChat(r, u, c) ==
    /\ Idle(r)
    /\ Open(c) /\ ~Member(c, u)
    /\ Begin(r, Continue("join", u, c, <<u>>, {u}))
    /\ UNCHANGED <<people, chat, member, caches, sockets, ever>>

\* addChatMember: an upsert, which also brings a hidden membership back.
AddChatMember(r) ==
    /\ At(r, {"add", "join"}, "write")
    /\ request[r].adds # <<>>
    /\ LET c == request[r].chat
           u == Head(request[r].adds)
       IN /\ Exists(c) /\ u \in accounts
          /\ member' = [member EXCEPT ![c][u] = "member"]
          /\ ever' = [ever EXCEPT ![c] = @ \union {u}]
    /\ request' = [request EXCEPT ![r] = [request[r] EXCEPT !.adds = Tail(request[r].adds)]]
    /\ UNCHANGED <<people, chat, caches, sockets, begun>>

LeaveChat(r, u, c) ==
    /\ Idle(r)
    /\ Member(c, u)
    /\ Begin(r, [op |-> "leave", user |-> u, chat |-> c, step |-> "write"])
    /\ UNCHANGED <<people, chat, member, caches, sockets, ever>>

DeleteChatForUser(r, u, c) ==
    /\ Idle(r)
    /\ Member(c, u)
    /\ Begin(r, [op |-> "hide", user |-> u, chat |-> c, step |-> "write"])
    /\ UNCHANGED <<people, chat, member, caches, sockets, ever>>

\* removeChatMember and softDeleteChatMember name the row by chat and user;
\* without a row they are errors.
WriteMembership(r, op, becomes) ==
    /\ At(r, {op}, "write")
    /\ LET q == request[r] IN
       /\ member[q.chat][q.user] # "none"
       /\ member' = [member EXCEPT ![q.chat][q.user] = becomes]
       /\ request' = [request EXCEPT
             ![r] = Continue("join", q.user, q.chat, <<>>, {q.user})]
    /\ UNCHANGED <<people, chat, caches, sockets, begun, ever>>

RemoveChatMember(r) == WriteMembership(r, "leave", "none")
SoftDeleteChatMember(r) == WriteMembership(r, "hide", "hidden")

-----------------------------------------------------------------------------
(***************************************************************************)
(* The caches                                                              *)
(***************************************************************************)
\* The users whose lists a request deletes; the variant only its own user's.
OwnList(q) == {q.user}
Invalidated(q) == q.lists

\* invalidateUserChatsCache: a deletion that fails is logged.  A list read
\* before the deletion may be cached after it.
Invalidate(r) ==
    /\ At(r, {"add", "join"}, "write")
    /\ request[r].adds = <<>>
    /\ \E failed \in SUBSET Invalidated(request[r]) :
          LET gone == Invalidated(request[r]) \ failed IN
          /\ list' = [u \in Users |-> IF u \in gone THEN None ELSE list[u]]
          /\ missed' = (missed \ {u \in gone : fill[u] = None})
                          \union failed \union {u \in gone : fill[u] # None}
    /\ request' = [request EXCEPT ![r] = [request[r] EXCEPT !.step = "read", !.lists = {}]]
    /\ UNCHANGED <<people, chat, member, view, fill, sockets, begun, ever>>

\* getChat: the cached chat, or the chat for a member, which is then cached.
Sees(u, c) == u \in view[c] \/ Member(c, u)

GetChat(u, c) ==
    /\ Sees(u, c)
    /\ view' = [view EXCEPT ![c] = @ \union {u}]

\* join, leave and the hiding answer without reading the chat.
Answer(r) ==
    /\ At(r, {"add", "join"}, "read")
    /\ IF request[r].op = "add" THEN GetChat(request[r].user, request[r].chat)
                                ELSE UNCHANGED view
    /\ End(r)
    /\ UNCHANGED <<people, chat, member, list, fill, missed, sockets, begun, ever>>

\* Users whose list a request has still to delete once it has written.
Owed(r) ==
    CASE Idle(r) \/ At(r, {"private", "post"}, "insert") -> {}
      [] At(r, {"leave", "hide"}, "write") -> {}
      [] OTHER -> request[r].lists

\* A refused or failing statement, or the end of the process, ends a request
\* where it is.
Fails(r) ==
    /\ ~Idle(r)
    /\ missed' = missed \union Owed(r)
    /\ End(r)
    /\ UNCHANGED <<people, chat, member, view, list, fill, sockets, begun, ever>>

\* getUserChats without a cached list: two queries, then the SET.
ReadList(u) ==
    /\ list[u] = None /\ fill[u] = None
    /\ fill' = [fill EXCEPT ![u] = ChatsOf(u)]
    /\ UNCHANGED <<people, chat, member, view, list, missed, sockets, request, begun, ever>>

WriteList(u) ==
    /\ fill[u] # None
    /\ list' = [list EXCEPT ![u] = fill[u]]
    /\ fill' = [fill EXCEPT ![u] = None]
    /\ UNCHANGED <<people, chat, member, view, missed, sockets, request, begun, ever>>

ExpireList(u) ==
    /\ list[u] # None
    /\ list' = [list EXCEPT ![u] = None]
    /\ missed' = IF fill[u] = None THEN missed \ {u} ELSE missed
    /\ UNCHANGED <<people, chat, member, view, fill, sockets, request, begun, ever>>

ExpireView(u, c) ==
    /\ u \in view[c]
    /\ view' = [view EXCEPT ![c] = @ \ {u}]
    /\ UNCHANGED <<people, chat, member, list, fill, missed, sockets, request, begun, ever>>

-----------------------------------------------------------------------------
(***************************************************************************)
(* ChatGateway: sockets and rooms                                          *)
(***************************************************************************)
Connect(u) ==
    /\ u \notin online
    /\ online' = online \union {u}
    /\ UNCHANGED <<people, chat, member, caches, room, request, begun, ever>>

\* Socket.IO takes a socket out of its rooms when it disconnects.
Disconnect(u) ==
    /\ u \in online
    /\ online' = online \ {u}
    /\ room' = [c \in ChatIds |-> room[c] \ {u}]
    /\ UNCHANGED <<people, chat, member, caches, request, begun, ever>>

JoinRoom(u, c) ==
    /\ u \in online
    /\ GetChat(u, c)
    /\ room' = [room EXCEPT ![c] = @ \union {u}]
    /\ UNCHANGED <<people, chat, member, list, fill, missed, online, request, begun, ever>>

\* Who has left the chat is refused, and stays in the room.
LeaveRoom(u, c) ==
    /\ u \in online
    /\ GetChat(u, c)
    /\ room' = [room EXCEPT ![c] = @ \ {u}]
    /\ UNCHANGED <<people, chat, member, list, fill, missed, online, request, begun, ever>>

\* chat:typing, and GET of a chat: only the cached chat changes.
Typing(u, c) ==
    /\ GetChat(u, c)
    /\ UNCHANGED <<people, chat, member, list, fill, missed, sockets, request, begun, ever>>

-----------------------------------------------------------------------------
(***************************************************************************)
(* Cascades                                                                *)
(***************************************************************************)
\* The admin's purge of a post takes its chat and the memberships of it; no
\* cached list or chat is deleted, and the sockets stay in the room.
PurgePost(p) ==
    /\ p \in posts
    /\ posts' = posts \ {p}
    /\ chat' = [c \in ChatIds |-> IF c \in PostChats(p) THEN Gone ELSE chat[c]]
    /\ member' = [c \in ChatIds |->
                     IF c \in PostChats(p) THEN [u \in Users |-> "none"] ELSE member[c]]
    /\ UNCHANGED <<accounts, caches, sockets, request, begun, ever>>

\* A removed account takes its memberships; the chats stay.  posts.author_id
\* is not null, so an author of posts cannot go.
RemoveUser(u) ==
    /\ u \in accounts
    /\ \A p \in posts : Author[p] # u
    /\ accounts' = accounts \ {u}
    /\ member' = [c \in ChatIds |-> [member[c] EXCEPT ![u] = "none"]]
    /\ UNCHANGED <<posts, chat, caches, sockets, request, begun, ever>>

-----------------------------------------------------------------------------
Act(r, u) ==
    \/ \E v \in Users : CreatePrivate(r, u, v)
    \/ \E others \in Parties : CreateGroup(r, u, others)
    \/ \E p \in Posts : CreatePostChat(r, u, p)
    \/ \E c \in ChatIds :
          \/ \E v \in Users : AddMemberByEmail(r, u, c, v)
          \/ JoinChat(r, u, c)
          \/ LeaveChat(r, u, c)
          \/ DeleteChatForUser(r, u, c)

Proceed(r) ==
    \/ InsertPrivate(r)
    \/ InsertPostChat(r)
    \/ AddChatMember(r)
    \/ RemoveChatMember(r)
    \/ SoftDeleteChatMember(r)
    \/ Invalidate(r)
    \/ Answer(r)
    \/ Fails(r)

Lists(u) == ReadList(u) \/ WriteList(u) \/ ExpireList(u)

Socket(u) ==
    \/ Connect(u)
    \/ Disconnect(u)
    \/ \E c \in ChatIds :
          JoinRoom(u, c) \/ LeaveRoom(u, c) \/ Typing(u, c) \/ ExpireView(u, c)

Next ==
    \/ \E r \in Requests : Proceed(r) \/ \E u \in Users : Act(r, u)
    \/ \E u \in Clients : Lists(u) \/ Socket(u)
    \/ \E p \in Purged : PurgePost(p)
    \/ \E u \in Leavers : RemoveUser(u)

Spec == Init /\ [][Next]_vars

-----------------------------------------------------------------------------
TypeOK ==
    /\ accounts \in SUBSET Users
    /\ posts \in SUBSET Posts
    /\ chat \in [ChatIds -> Chat \union {None, Gone}]
    /\ member \in [ChatIds -> [Users -> Membership]]
    /\ view \in [ChatIds -> SUBSET Users]
    /\ list \in [Users -> (SUBSET ChatIds) \union {None}]
    /\ fill \in [Users -> (SUBSET ChatIds) \union {None}]
    /\ room \in [ChatIds -> SUBSET online]
    /\ online \in SUBSET Users
    /\ request \in [Requests -> Change \union {None}]
    /\ begun \in 0..MaxRequests
    /\ ever \in [ChatIds -> SUBSET Users]
    /\ missed \in SUBSET Users

\* Two users have at most one private chat and a post at most one chat, in
\* whatever order the two look for it and create it.
OneChatEach ==
    \A c, d \in ChatIds :
        c # d /\ Exists(c) /\ Exists(d) /\ chat[c].type = chat[d].type =>
            /\ chat[c].type = "PRIVATE" => chat[c].users # chat[d].users
            /\ chat[c].type = "POST" => chat[c].key # chat[d].key

\* Only who has been a member of a chat reads it from the cache or hears what
\* is sent to its room, and no third user ever is a member of a private chat.
OnlyMembersHear ==
    \A c \in ChatIds :
        /\ Members(c) \union view[c] \union room[c] \subseteq ever[c]
        /\ Exists(c) /\ chat[c].type = "PRIVATE" => ever[c] \subseteq chat[c].users

\* What the rows promise whatever the requests do at once: the types, one chat
\* for two users or a post, and chats that only their members read and hear.
ChatsAreKept == TypeOK /\ OneChatEach /\ OnlyMembersHear

\* Chats that went with their post; whoever opens one is told so.
Vanished == {c \in ChatIds : chat[c] = Gone}

\* A cached list names exactly the user's chats, and perhaps chats that went
\* with their post, of which the purge tells no cache; unless the request that
\* changed them has not yet deleted it, could not, or did so while a list read
\* before was on its way into the cache.  The list of a removed account is
\* nobody's.
ListIsCurrent ==
    \A u \in accounts :
        \/ list[u] = None
        \/ list[u] \ Vanished = ChatsOf(u)
        \/ u \in missed
        \/ \E r \in Requests : u \in Owed(r)

=============================================================================
