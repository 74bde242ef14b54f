----------------------------- MODULE ChatsProofs -----------------------------
(***************************************************************************)
(* What holds of Chats for any number of users, posts, chats and requests. *)
(***************************************************************************)
EXTENDS Chats, TLAPS

Among(seq) == {seq[i] : i \in DOMAIN seq}

\* The three kinds of requests: about to insert, to leave, or past that.
Starting == [op : {"private", "post"}, user : Users, target : Users \union Posts,
             step : {"insert"}]
Leaving == [op : {"leave", "hide"}, user : Users, chat : ChatIds, step : {"write"}]
Adding == [op : {"add", "join"}, user : Users, chat : ChatIds, adds : Seq(Users),
           lists : SUBSET Users, step : {"write", "read"}]

\* A chat that is there, or was, and that u may be a member of.
MayHold(c, u) ==
    chat[c] # None /\ (Exists(c) /\ chat[c].type = "PRIVATE" => u \in chat[c].users)

\* A request inserts what it looked for, adds members to a chat there is, to a
\* private one only its two users, and deletes the lists of those it adds
\* before it answers.
RequestsAreDue ==
    \A r \in Requests :
        /\ At(r, {"private"}, "insert") => request[r].target \in Users
        /\ At(r, {"post"}, "insert") => request[r].target \in Posts
        /\ request[r] \in Adding /\ request[r].step = "read" => request[r].lists = {}
        /\ request[r] \in Adding =>
              \A u \in Among(request[r].adds) :
                  /\ MayHold(request[r].chat, u)
                  /\ request[r].step = "write" => u \in request[r].lists

\* A chat that is not there has no members; a private one is found by its users.
ChatsAreKnown ==
    \A c \in ChatIds :
        /\ chat[c] = None => ever[c] = {}
        /\ Exists(c) /\ chat[c].type = "PRIVATE" => chat[c].key = chat[c].users

\* A chat that went with its post has no members.
GoneIsEmpty == \A c \in ChatIds : chat[c] = Gone => Members(c) = {}

\* The list that is cached, and one that is about to be, are the user's, unless
\* a deletion was missed or is owed.
Owing(u) == \E r \in Requests : u \in Owed(r)
IsFresh(cs, u) == cs = None \/ cs \ Vanished = ChatsOf(u)
ListFresh(u) ==
    \/ IsFresh(list[u], u) /\ IsFresh(fill[u], u)
    \/ u \in missed
    \/ Owing(u)
ListsAreFresh == \A u \in accounts : ListFresh(u)

IInv == TypeOK /\ OneChatEach /\ OnlyMembersHear /\ RequestsAreDue /\ ChatsAreKnown
            /\ GoneIsEmpty /\ ListsAreFresh

-----------------------------------------------------------------------------
(***************************************************************************)
(* Requests and chats as values                                            *)
(***************************************************************************)
LEMMA ChangeKinds == Change = Starting \union Leaving \union Adding
  BY DEF Change, Starting, Leaving, Adding

LEMMA AddingFacts ==
    ASSUME NEW q \in Adding
    PROVE  /\ q # None /\ q.op \in {"add", "join"} /\ q.user \in Users /\ q.chat \in ChatIds
           /\ q.adds \in Seq(Users) /\ q.lists \in SUBSET Users /\ q.step \in {"write", "read"}
  <1>1. q # None
    BY ChangeKinds, NoneAssumption
  <1> QED
    BY <1>1 DEF Adding

LEMMA AddingSteps ==
    ASSUME NEW q \in Adding
    PROVE  /\ \A t \in Seq(Users) : LET n == [q EXCEPT !.adds = t] IN
                 n \in Adding /\ n.chat = q.chat /\ n.adds = t /\ n.lists = q.lists
                 /\ n.step = q.step
           /\ LET n == [q EXCEPT !.step = "read", !.lists = {}] IN
                 n \in Adding /\ n.chat = q.chat /\ n.adds = q.adds /\ n.lists = {}
                 /\ n.step = "read"
  BY DEF Adding

LEMMA AddingMakes ==
    ASSUME NEW op \in {"add", "join"}, NEW u \in Users, NEW c \in ChatIds,
           NEW adds \in Seq(Users), NEW lists \in SUBSET Users, NEW step \in {"write", "read"}
    PROVE  LET q == [op |-> op, user |-> u, chat |-> c, adds |-> adds, lists |-> lists,
                     step |-> step]
           IN /\ q \in Adding /\ q.op = op /\ q.user = u /\ q.chat = c /\ q.adds = adds
              /\ q.lists = lists /\ q.step = step
  BY DEF Adding

LEMMA StartingFacts ==
    /\ \A q \in Starting : q # None /\ q.op \in {"private", "post"} /\ q.step = "insert"
                           /\ q.user \in Users /\ q.target \in Users \union Posts
    /\ \A op \in {"private", "post"}, u \in Users, t \in Users \union Posts :
          LET q == [op |-> op, user |-> u, target |-> t, step |-> "insert"]
          IN q \in Starting /\ q.op = op /\ q.user = u /\ q.target = t
  BY ChangeKinds, NoneAssumption DEF Starting

LEMMA LeavingFacts ==
    /\ \A q \in Leaving : q # None /\ q.op \in {"leave", "hide"} /\ q.step = "write"
                          /\ q.user \in Users /\ q.chat \in ChatIds
    /\ \A op \in {"leave", "hide"}, u \in Users, c \in ChatIds :
          [op |-> op, user |-> u, chat |-> c, step |-> "write"] \in Leaving
  BY ChangeKinds, NoneAssumption DEF Leaving

LEMMA RequestFacts ==
    ASSUME request \in [Requests -> Change \union {None}], NEW r \in Requests
    PROVE  /\ \/ request[r] = None /\ Owed(r) = {}
              \/ request[r] \in Starting /\ Owed(r) = {}
              \/ request[r] \in Leaving /\ Owed(r) = {}
              \/ request[r] \in Adding /\ Owed(r) = request[r].lists
           /\ \A step : At(r, {"private"}, step) \/ At(r, {"post"}, step) =>
                 request[r] \in Starting
           /\ \A op \in {"leave", "hide"} : \A step : At(r, {op}, step) => request[r] \in Leaving
           /\ \A step : At(r, {"add", "join"}, step) => request[r] \in Adding
           /\ request[r] \in Adding => ~Idle(r)
  <1>1. \/ request[r] = None \/ request[r] \in Starting \/ request[r] \in Leaving
        \/ request[r] \in Adding
    BY ChangeKinds
  <1>2. CASE request[r] = None
    BY <1>2, AddingFacts DEF Owed, Idle, At
  <1>3. CASE request[r] \in Starting
    BY <1>3, AddingFacts, StartingFacts DEF Owed, Idle, At
  <1>4. CASE request[r] \in Leaving
    BY <1>4, AddingFacts, LeavingFacts DEF Owed, Idle, At
  <1>5. CASE request[r] \in Adding
    BY <1>5, AddingFacts DEF Owed, Idle, At
  <1> QED
    BY <1>1, <1>2, <1>3, <1>4, <1>5

\* A request goes on to q, the others do not move.
LEMMA RequestStep ==
    ASSUME request \in [Requests -> Change \union {None}], NEW r \in Requests,
           NEW q \in Change \union {None}, request' = [request EXCEPT ![r] = q]
    PROVE  /\ request' \in [Requests -> Change \union {None}]
           /\ request'[r] = q
           /\ \A x \in Requests \ {r} : request'[x] = request[x] /\ Owed(x)' = Owed(x)
           /\ q = None \/ q \in Starting \/ q \in Leaving => Owed(r)' = {}
           /\ q \in Adding => Owed(r)' = q.lists
  <1>1. request' \in [Requests -> Change \union {None}] /\ request'[r] = q
        /\ \A x \in Requests \ {r} : request'[x] = request[x]
    OBVIOUS
  <1>2. \A x \in Requests \ {r} : Owed(x)' = Owed(x)
    BY <1>1 DEF Owed, At, Idle
  <1>3. q = None => Owed(r)' = {}
    BY <1>1 DEF Owed, Idle
  <1>4. q \in Starting => Owed(r)' = {}
    BY <1>1, StartingFacts DEF Owed, At, Idle
  <1>5. q \in Leaving => Owed(r)' = {}
    BY <1>1, LeavingFacts DEF Owed, At, Idle
  <1>6. q \in Adding => Owed(r)' = q.lists
    BY <1>1, AddingFacts DEF Owed, At, Idle
  <1> QED
    BY <1>1, <1>2, <1>3, <1>4, <1>5, <1>6

\* The same of what requests are due, while the chats stay or become more.
LEMMA DueStep ==
    ASSUME TypeOK, RequestsAreDue, NEW r \in Requests, NEW q \in Change \union {None},
           request' = [request EXCEPT ![r] = q],
           \A c \in ChatIds : chat[c] # None => chat'[c] = chat[c],
           q \in Starting => /\ q.op = "private" => q.target \in Users
                             /\ q.op = "post" => q.target \in Posts,
           q \in Adding /\ q.step = "read" => q.lists = {},
           q \in Adding =>
               \A u \in Among(q.adds) :
                   /\ MayHold(q.chat, u)'
                   /\ q.step = "write" => u \in q.lists
    PROVE  RequestsAreDue'
  <1>1. /\ request' \in [Requests -> Change \union {None}] /\ request'[r] = q
        /\ \A x \in Requests \ {r} : request'[x] = request[x]
    BY RequestStep DEF TypeOK
  <1>2. ASSUME NEW x \in Requests
        PROVE  /\ At(x, {"private"}, "insert")' => request'[x].target \in Users
               /\ At(x, {"post"}, "insert")' => request'[x].target \in Posts
               /\ request'[x] \in Adding /\ request'[x].step = "read" => request'[x].lists = {}
    <2>1. CASE x = r
      <3>1. At(x, {"private"}, "insert")' \/ At(x, {"post"}, "insert")' => q \in Starting
        BY <1>1, <2>1, AddingFacts, LeavingFacts, ChangeKinds DEF At, Idle
      <3> QED
        BY <1>1, <2>1, <3>1 DEF At
    <2>2. CASE x # r
      BY <1>1, <2>2 DEF RequestsAreDue, At, Idle
    <2> QED
      BY <2>1, <2>2
  <1>3. ASSUME NEW x \in Requests, request'[x] \in Adding, NEW u \in Among(request'[x].adds)
        PROVE  /\ MayHold(request[x].chat, u)'
               /\ request'[x].step = "write" => u \in request'[x].lists
    <2>1. CASE x = r
      BY <1>1, <1>3, <2>1 DEF MayHold, Exists
    <2>2. CASE x # r
      <3>1. request'[x] = request[x] /\ request[x].chat \in ChatIds
        BY <1>1, <1>3, <2>2, AddingFacts
      <3>2. /\ MayHold(request[x].chat, u)
            /\ request[x].step = "write" => u \in request[x].lists
        BY <1>3, <3>1 DEF RequestsAreDue
      <3>3. chat'[request[x].chat] = chat[request[x].chat]
        BY <3>1, <3>2 DEF MayHold
      <3> QED
        BY <3>1, <3>2, <3>3 DEF MayHold, Exists
    <2> QED
      BY <2>1, <2>2
  <1> QED
    BY <1>2, <1>3 DEF RequestsAreDue

\* Lists are fresh again if those whose chats change are owed a deletion.
LEMMA ListsKept ==
    ASSUME ListsAreFresh, accounts \subseteq Users, accounts' \subseteq accounts,
           Vanished' = Vanished, list' = list, fill' = fill, missed \subseteq missed',
           \A u \in Users : \/ ChatsOf(u)' = ChatsOf(u)
                            \/ Owing(u)',
           \A u \in Users : Owing(u) => Owing(u)' \/ u \in missed'
    PROVE  ListsAreFresh'
  <1> SUFFICES ASSUME NEW u \in accounts' PROVE ListFresh(u)'
    BY DEF ListsAreFresh
  <1>1. u \in accounts /\ ListFresh(u) /\ u \in Users
    BY DEF ListsAreFresh
  <1>2. CASE ChatsOf(u)' = ChatsOf(u)
    BY <1>1, <1>2 DEF ListFresh, IsFresh, Vanished
  <1>3. CASE Owing(u)'
    BY <1>3 DEF ListFresh
  <1> QED
    BY <1>1, <1>2, <1>3

-----------------------------------------------------------------------------
(***************************************************************************)
(* Requests that begin, and chats that are inserted                        *)
(***************************************************************************)
LEMMA NoChatsChange ==
    ASSUME UNCHANGED <<people, chat, ever>>
    PROVE  /\ OneChatEach => OneChatEach'
           /\ ChatsAreKnown => ChatsAreKnown'
           /\ Vanished' = Vanished
  BY DEF OneChatEach, ChatsAreKnown, Exists, Vanished

LEMMA ChatsOfSame == ASSUME UNCHANGED member PROVE \A u \in Users : ChatsOf(u)' = ChatsOf(u)
  BY DEF ChatsOf, Member

LEMMA BeginStep ==
    ASSUME IInv, NEW r \in Requests, NEW q \in Change, Idle(r), Begin(r, q),
           UNCHANGED <<people, chat, member, caches, sockets, ever>>,
           q \in Starting => /\ q.op = "private" => q.target \in Users
                             /\ q.op = "post" => q.target \in Posts,
           q \in Adding /\ q.step = "read" => q.lists = {},
           q \in Adding =>
               \A u \in Among(q.adds) :
                   /\ MayHold(q.chat, u)
                   /\ q.step = "write" => u \in q.lists
    PROVE  IInv'
  <1>1. request' = [request EXCEPT ![r] = q] /\ begun' = begun + 1 /\ begun < MaxRequests
    BY DEF Begin
  <1>2. TypeOK'
    BY <1>1, BoundAssumption DEF IInv, TypeOK, caches, sockets, people
  <1>3. RequestsAreDue'
    BY <1>1, DueStep DEF IInv, MayHold, Exists
  <1>4. OneChatEach' /\ ChatsAreKnown'
    BY NoChatsChange DEF IInv
  <1>5. OnlyMembersHear' /\ GoneIsEmpty'
    BY DEF IInv, OnlyMembersHear, GoneIsEmpty, Members, Member, Exists, caches, sockets, people
  <1>6. \A x \in Requests : Owed(x) \subseteq Owed(x)'
    <2>1. request \in [Requests -> Change \union {None}]
      BY DEF IInv, TypeOK
    <2>2. \A x \in Requests \ {r} : Owed(x)' = Owed(x)
      BY <1>1, <2>1, RequestStep
    <2>3. Owed(r) = {}
      BY DEF Owed
    <2> QED
      BY <2>2, <2>3
  <1>7. ListsAreFresh'
    BY <1>6, ListsKept, ChatsOfSame, NoChatsChange DEF IInv, TypeOK, Owing, caches, people
  <1> QED
    BY <1>2, <1>3, <1>4, <1>5, <1>7 DEF IInv

\* Adding members to a chat, or nobody, and then deleting some lists.
LEMMA ContinueFacts ==
    ASSUME NEW op \in {"add", "join"}, NEW u \in Users, NEW c \in ChatIds,
           NEW adds \in Seq(Users), NEW lists \in SUBSET Users
    PROVE  LET q == Continue(op, u, c, adds, lists)
           IN /\ q \in Adding /\ q \in Change /\ q \notin Starting
              /\ q.chat = c /\ q.adds = adds /\ q.lists = lists /\ q.step = "write"
  <1>1. LET q == Continue(op, u, c, adds, lists)
        IN q \in Adding /\ q.chat = c /\ q.adds = adds /\ q.lists = lists /\ q.step = "write"
           /\ q.op = op
    BY AddingMakes DEF Continue
  <1> QED
    BY <1>1, ChangeKinds, StartingFacts

LEMMA ShortSeqs ==
    /\ <<>> \in Seq(Users) /\ Among(<<>>) = {}
    /\ \A u \in Users : <<u>> \in Seq(Users) /\ Among(<<u>>) = {u}
    /\ \A u, v \in Users : <<u, v>> \in Seq(Users) /\ Among(<<u, v>>) = {u, v}
  <1>1. <<>> \in Seq(Users) /\ Among(<<>>) = {}
    BY DEF Among
  <1>2. ASSUME NEW u \in Users PROVE <<u>> \in Seq(Users) /\ Among(<<u>>) = {u}
    BY DEF Among
  <1>3. ASSUME NEW u \in Users, NEW v \in Users
        PROVE  <<u, v>> \in Seq(Users) /\ Among(<<u, v>>) = {u, v}
    <2>1. <<u, v>> \in Seq(Users) /\ DOMAIN <<u, v>> = {1, 2}
      OBVIOUS
    <2> QED
      BY <2>1 DEF Among
  <1> QED
    BY <1>1, <1>2, <1>3

\* A request that begins by adding members to a chat and deleting lists.
LEMMA BeginAddStep ==
    ASSUME IInv, NEW r \in Requests, NEW op \in {"add", "join"}, NEW u \in Users,
           NEW c \in ChatIds, NEW adds \in Seq(Users), NEW lists \in SUBSET Users,
           Idle(r), Begin(r, Continue(op, u, c, adds, lists)),
           UNCHANGED <<people, chat, member, caches, sockets, ever>>,
           Exists(c), Among(adds) \subseteq lists,
           chat[c].type = "PRIVATE" => Among(adds) \subseteq chat[c].users
    PROVE  IInv'
  <1> DEFINE q == Continue(op, u, c, adds, lists)
  <1>1. /\ q \in Adding /\ q \in Change /\ q \notin Starting
        /\ q.chat = c /\ q.adds = adds /\ q.lists = lists /\ q.step = "write"
    BY ContinueFacts
  <1>2. Begin(r, q)
    OBVIOUS
  <1> HIDE DEF q
  <1>3. \A w \in Among(q.adds) :
           /\ MayHold(q.chat, w)
           /\ q.step = "write" => w \in q.lists
    BY <1>1 DEF MayHold, Exists
  <1> QED
    BY <1>1, <1>2, <1>3, BeginStep

LEMMA CreatePrivateStep ==
    ASSUME IInv, NEW r \in Requests, NEW u \in Users, NEW v \in Users, CreatePrivate(r, u, v)
    PROVE  IInv'
  <1>1. CASE \E c \in PrivateChats(u, v) : Begin(r, Continue("add", u, c, <<u, v>>, {u, v}))
    <2>1. PICK c \in PrivateChats(u, v) : Begin(r, Continue("add", u, c, <<u, v>>, {u, v}))
      BY <1>1
    <2>2. c \in ChatIds /\ Exists(c) /\ chat[c].users = {u, v}
      BY DEF PrivateChats, Found, Pair, IInv, ChatsAreKnown
    <2>3. {u, v} \in SUBSET Users
      OBVIOUS
    <2>4. Idle(r) /\ UNCHANGED <<people, chat, member, caches, sockets, ever>>
      BY DEF CreatePrivate
    <2>5. <<u, v>> \in Seq(Users) /\ Among(<<u, v>>) = {u, v}
      BY ShortSeqs
    <2> QED
      BY <2>1, <2>2, <2>3, <2>4, <2>5, BeginAddStep
  <1>2. CASE Begin(r, [op |-> "private", user |-> u, target |-> v, step |-> "insert"])
    BY <1>2, BeginStep, StartingFacts, AddingFacts, ChangeKinds DEF CreatePrivate
  <1> QED
    BY <1>1, <1>2 DEF CreatePrivate

LEMMA CreatePostChatStep ==
    ASSUME IInv, NEW r \in Requests, NEW u \in Users, NEW p \in Posts, CreatePostChat(r, u, p)
    PROVE  IInv'
  <1>1. CASE \E c \in PostChats(p) :
                 Begin(r, Continue("add", u, c, IF Member(c, u) THEN <<>> ELSE <<u>>,
                                   {u} \union {v \in Users : member[c][v] # "none"}))
    <2>1. PICK c \in PostChats(p) :
                 Begin(r, Continue("add", u, c, IF Member(c, u) THEN <<>> ELSE <<u>>,
                                   {u} \union {v \in Users : member[c][v] # "none"}))
      BY <1>1
    <2>2. c \in ChatIds /\ Exists(c) /\ chat[c].type # "PRIVATE"
      BY DEF PostChats, Found
    <2>3. PICK adds \in Seq(Users) :
              adds = (IF Member(c, u) THEN <<>> ELSE <<u>>) /\ Among(adds) \subseteq {u}
      BY ShortSeqs
    <2>4. PICK lists \in SUBSET Users :
              lists = {u} \union {v \in Users : member[c][v] # "none"}
      OBVIOUS
    <2>5. Begin(r, Continue("add", u, c, adds, lists))
      BY <2>1, <2>3, <2>4
    <2>6. Idle(r) /\ UNCHANGED <<people, chat, member, caches, sockets, ever>>
      BY DEF CreatePostChat
    <2>7. Among(adds) \subseteq lists
      BY <2>3, <2>4
    <2> QED
      BY <2>2, <2>5, <2>6, <2>7, BeginAddStep
  <1>2. CASE Begin(r, [op |-> "post", user |-> u, target |-> p, step |-> "insert"])
    BY <1>2, BeginStep, StartingFacts, AddingFacts, ChangeKinds DEF CreatePostChat
  <1> QED
    BY <1>1, <1>2 DEF CreatePostChat

LEMMA AddMemberByEmailStep ==
    ASSUME IInv, NEW r \in Requests, NEW u \in Users, NEW c \in ChatIds, NEW v \in Users,
           AddMemberByEmail(r, u, c, v)
    PROVE  IInv'
  <1>1. /\ Idle(r) /\ Exists(c) /\ chat[c].type # "PRIVATE"
        /\ Begin(r, Continue("add", u, c, <<v>>, {u, v}))
        /\ UNCHANGED <<people, chat, member, caches, sockets, ever>>
    BY DEF AddMemberByEmail, Open
  <1>2. <<v>> \in Seq(Users) /\ Among(<<v>>) \subseteq {u, v} /\ {u, v} \in SUBSET Users
    BY ShortSeqs
  <1> QED
    BY <1>1, <1>2, BeginAddStep

LEMMA JoinChatStep ==
    ASSUME IInv, NEW r \in Requests, NEW u \in Users, NEW c \in ChatIds, JoinChat(r, u, c)
    PROVE  IInv'
  <1>1. /\ Idle(r) /\ Exists(c) /\ chat[c].type # "PRIVATE"
        /\ Begin(r, Continue("join", u, c, <<u>>, {u}))
        /\ UNCHANGED <<people, chat, member, caches, sockets, ever>>
    BY DEF JoinChat, Open
  <1>2. <<u>> \in Seq(Users) /\ Among(<<u>>) \subseteq {u} /\ {u} \in SUBSET Users
    BY ShortSeqs
  <1> QED
    BY <1>1, <1>2, BeginAddStep

LEMMA LeaveStep ==
    ASSUME IInv, NEW r \in Requests, NEW u \in Users, NEW c \in ChatIds,
           LeaveChat(r, u, c) \/ DeleteChatForUser(r, u, c)
    PROVE  IInv'
  <1>1. PICK op \in {"leave", "hide"} :
            Begin(r, [op |-> op, user |-> u, chat |-> c, step |-> "write"])
    BY DEF LeaveChat, DeleteChatForUser
  <1>2. LET q == [op |-> op, user |-> u, chat |-> c, step |-> "write"]
        IN q \in Change /\ q \notin Starting /\ q \notin Adding
    BY LeavingFacts, StartingFacts, AddingFacts, ChangeKinds
  <1> QED
    BY <1>1, <1>2, BeginStep DEF LeaveChat, DeleteChatForUser

LEMMA InsertRowStep ==
    ASSUME IInv, NEW r \in Requests, Owed(r) = {},
           NEW c \in ChatIds, chat[c] = None, NEW new \in Chat, NEW members \in SUBSET Users,
           NEW q \in Adding, q.chat = c, q.step = "write",
           members \union Among(q.adds) \subseteq q.lists,
           chat' = [chat EXCEPT ![c] = new],
           member' = [member EXCEPT ![c] =
                         [v \in Users |-> IF v \in members THEN "member" ELSE "none"]],
           ever' = [ever EXCEPT ![c] = members],
           request' = [request EXCEPT ![r] = q],
           new.type = "PRIVATE" =>
               new.key = new.users /\ members \union Among(q.adds) \subseteq new.users,
           new.type # "GROUP" => Found(new.type, {new.key}) = {},
           begun' \in 0..MaxRequests, UNCHANGED <<people, caches, sockets>>
    PROVE  IInv'
  <1> USE DEF caches, sockets, people
  <1>1. new # None /\ new # Gone /\ q \in Change /\ q \notin Starting
    BY NoneAssumption, ChangeKinds, AddingFacts, StartingFacts
  <1>2. TypeOK'
    <2>1. [v \in Users |-> IF v \in members THEN "member" ELSE "none"] \in [Users -> Membership]
      BY DEF Membership
    <2> QED
      BY <1>1, <2>1 DEF IInv, TypeOK
  <1>3. /\ chat'[c] = new /\ ever'[c] = members
        /\ \A d \in ChatIds \ {c} : chat'[d] = chat[d] /\ ever'[d] = ever[d]
                                    /\ member'[d] = member[d]
        /\ member'[c] = [v \in Users |-> IF v \in members THEN "member" ELSE "none"]
    BY DEF IInv, TypeOK
  <1>4. \A v \in Users : Member(c, v)' => v \in members
    BY <1>3 DEF Member
  <1>5. RequestsAreDue'
    <2>1. \A d \in ChatIds : chat[d] # None => chat'[d] = chat[d]
      BY <1>3
    <2>2. \A u \in Among(q.adds) :
             /\ MayHold(q.chat, u)'
             /\ q.step = "write" => u \in q.lists
      BY <1>1, <1>3 DEF MayHold, Exists
    <2> QED
      BY <1>1, <2>1, <2>2, DueStep DEF IInv
  <1>6. ASSUME NEW d \in ChatIds \ {c}, Exists(d), chat[d].type = new.type
        PROVE  /\ new.type = "PRIVATE" => chat[d].users # new.users
               /\ new.type = "POST" => chat[d].key # new.key
    BY <1>6 DEF Found, IInv, ChatsAreKnown
  <1>7. OneChatEach'
    <2>1. ASSUME NEW d \in ChatIds, NEW e \in ChatIds, d # e, Exists(d)', Exists(e)',
                 chat'[d].type = chat'[e].type
          PROVE  /\ chat'[d].type = "PRIVATE" => chat'[d].users # chat'[e].users
                 /\ chat'[d].type = "POST" => chat'[d].key # chat'[e].key
      <3>1. CASE d = c
        BY <1>3, <1>6, <2>1, <3>1 DEF Exists
      <3>2. CASE e = c
        BY <1>3, <1>6, <2>1, <3>2 DEF Exists
      <3>3. CASE d # c /\ e # c
        BY <1>3, <2>1, <3>3 DEF IInv, OneChatEach, Exists
      <3> QED
        BY <3>1, <3>2, <3>3
    <2> QED
      BY <2>1 DEF OneChatEach
  <1>8. ChatsAreKnown'
    BY <1>1, <1>3 DEF IInv, ChatsAreKnown, Exists
  <1>9. ever[c] = {} /\ GoneIsEmpty'
    BY <1>1, <1>3 DEF IInv, ChatsAreKnown, GoneIsEmpty, Members, Member
  <1>10. view[c] = {} /\ room[c] = {} /\ Members(c) = {}
    BY <1>9 DEF IInv, OnlyMembersHear
  <1>11. OnlyMembersHear'
    <2>1. Members(c)' \union view'[c] \union room'[c] \subseteq ever'[c]
      BY <1>3, <1>4, <1>10 DEF Members
    <2>2. \A d \in ChatIds \ {c} : Members(d)' = Members(d) /\ (Exists(d)' <=> Exists(d))
      BY <1>3 DEF Members, Member, Exists
    <2> QED
      BY <1>3, <2>1, <2>2 DEF IInv, OnlyMembersHear
  <1>12. Owed(r)' = q.lists /\ \A x \in Requests \ {r} : Owed(x)' = Owed(x)
    BY <1>1, RequestStep DEF IInv, TypeOK
  <1>13. ASSUME NEW v \in Users PROVE ChatsOf(v)' = ChatsOf(v) \/ Owing(v)'
    <2>1. CASE v \in members
      BY <1>12, <2>1 DEF Owing
    <2>2. CASE v \notin members
      <3>1. ~Member(c, v) /\ ~Member(c, v)'
        BY <1>4, <1>10, <2>2 DEF Members
      <3>2. \A d \in ChatIds : Member(d, v)' <=> Member(d, v)
        BY <1>3, <3>1 DEF Member
      <3> QED
        BY <3>2 DEF ChatsOf
    <2> QED
      BY <2>1, <2>2
  <1>14. \A v \in Users : Owing(v) => Owing(v)'
    BY <1>12 DEF Owing
  <1>15. ListsAreFresh'
    <2>1. Vanished' = Vanished /\ accounts' = accounts /\ accounts \subseteq Users
      BY <1>1, <1>3, NoneAssumption DEF Vanished, IInv, TypeOK
    <2> QED
      BY <1>13, <1>14, <2>1, ListsKept DEF IInv
  <1> QED
    BY <1>2, <1>5, <1>7, <1>8, <1>9, <1>11, <1>15 DEF IInv

LEMMA InsertStep ==
    ASSUME IInv, NEW r \in Requests, Owed(r) = {}, NEW u \in Users,
           NEW type \in {"PRIVATE", "GROUP", "POST"}, NEW key \in (SUBSET Users) \union Posts,
           NEW users \in SUBSET Users, NEW members \in SUBSET Users,
           NEW adds \in Seq(Users), NEW lists \in SUBSET Users,
           Insert(type, key, users, members),
           request' = [request EXCEPT ![r] = Continue("add", u, NewId(chat), adds, lists)],
           members \union Among(adds) \subseteq lists,
           type = "PRIVATE" => key = users /\ members \union Among(adds) \subseteq users,
           type # "GROUP" => Found(type, {key}) = {},
           begun' \in 0..MaxRequests, UNCHANGED <<people, caches, sockets>>
    PROVE  IInv'
  <1>1. PICK c \in ChatIds : c = NewId(chat) /\ chat[c] = None
    BY DEF Insert, NewId
  <1>2. PICK q \in Adding : /\ q = Continue("add", u, c, adds, lists)
                            /\ q.chat = c /\ q.adds = adds /\ q.lists = lists
                            /\ q.step = "write"
    BY ContinueFacts
  <1>3. PICK new \in Chat : /\ new = [type |-> type, key |-> key, users |-> users]
                            /\ new.type = type /\ new.key = key /\ new.users = users
    <2>1. [type |-> type, key |-> key, users |-> users] \in Chat
      BY DEF Chat
    <2> QED
      BY <2>1
  <1>4. /\ chat' = [chat EXCEPT ![c] = new]
        /\ member' = [member EXCEPT ![c] = [v \in Users |-> IF v \in members THEN "member" ELSE "none"]]
        /\ ever' = [ever EXCEPT ![c] = members]
        /\ request' = [request EXCEPT ![r] = q]
    BY <1>1, <1>2, <1>3 DEF Insert
  <1> QED
    BY <1>1, <1>2, <1>3, <1>4, InsertRowStep

LEMMA InsertPrivateStep ==
    ASSUME IInv, NEW r \in Requests, InsertPrivate(r)
    PROVE  IInv'
  <1>1. At(r, {"private"}, "insert") /\ request[r] \in Starting /\ Owed(r) = {}
    <2>1. At(r, {"private"}, "insert") /\ request[r] \in Starting
      BY RequestFacts DEF InsertPrivate, IInv, TypeOK
    <2>2. request[r] # None /\ request[r] \notin Adding /\ request[r] \notin Leaving
      BY <2>1, StartingFacts, AddingFacts, LeavingFacts
    <2> QED
      BY <2>1, <2>2, RequestFacts DEF IInv, TypeOK
  <1>2. PICK u \in Users, v \in Users : u = request[r].user /\ v = request[r].target
    BY <1>1, StartingFacts DEF IInv, RequestsAreDue
  <1>3. PICK pair \in SUBSET Users : pair = {u, v}
    OBVIOUS
  <1>4. /\ Found("PRIVATE", {pair}) = {} /\ Insert("PRIVATE", pair, pair, pair)
        /\ request' = [request EXCEPT ![r] = Continue("add", u, NewId(chat), <<>>, pair)]
        /\ UNCHANGED <<people, caches, sockets>> /\ begun' \in 0..MaxRequests
    BY <1>2, <1>3 DEF InsertPrivate, Pair, IInv, TypeOK
  <1>5. <<>> \in Seq(Users) /\ Among(<<>>) = {}
    BY ShortSeqs
  <1>6. "PRIVATE" \in {"PRIVATE", "GROUP", "POST"} /\ pair \in (SUBSET Users) \union Posts
        /\ pair \union Among(<<>>) \subseteq pair
    BY <1>5
  <1> QED
    BY <1>1, <1>4, <1>5, <1>6, InsertStep

LEMMA InsertPostChatStep ==
    ASSUME IInv, NEW r \in Requests, InsertPostChat(r)
    PROVE  IInv'
  <1>1. At(r, {"post"}, "insert") /\ request[r] \in Starting /\ Owed(r) = {}
    <2>1. At(r, {"post"}, "insert") /\ request[r] \in Starting
      BY RequestFacts DEF InsertPostChat, IInv, TypeOK
    <2>2. request[r] # None /\ request[r] \notin Adding /\ request[r] \notin Leaving
      BY <2>1, StartingFacts, AddingFacts, LeavingFacts
    <2> QED
      BY <2>1, <2>2, RequestFacts DEF IInv, TypeOK
  <1>2. PICK u \in Users, p \in Posts : u = request[r].user /\ p = request[r].target
    BY <1>1, StartingFacts DEF IInv, RequestsAreDue
  <1>3. PICK a \in Users : a = Author[p]
    BY UsersAssumption
  <1>4. PICK adds \in Seq(Users) :
            adds = (IF u # a THEN <<u>> ELSE <<>>) /\ Among(adds) \subseteq {u}
    BY ShortSeqs
  <1>5. /\ {} \in SUBSET Users /\ {a} \in SUBSET Users /\ {u, a} \in SUBSET Users
        /\ {a} \union Among(adds) \subseteq {u, a} /\ begun' \in 0..MaxRequests
    BY <1>4 DEF InsertPostChat, IInv, TypeOK
  <1>6. /\ Found("POST", {p}) = {} /\ Insert("POST", p, {}, {a})
        /\ request' = [request EXCEPT ![r] = Continue("add", u, NewId(chat), adds, {u, a})]
        /\ UNCHANGED <<people, caches, sockets>>
    BY <1>2, <1>3, <1>4 DEF InsertPostChat, PostChats
  <1>7. "POST" \in {"PRIVATE", "GROUP", "POST"} /\ p \in (SUBSET Users) \union Posts
        /\ "POST" # "PRIVATE"
    OBVIOUS
  <1> QED
    BY <1>1, <1>5, <1>6, <1>7, InsertStep

LEMMA CreateGroupStep ==
    ASSUME IInv, NEW r \in Requests, NEW u \in Users, NEW others \in Parties,
           CreateGroup(r, u, others)
    PROVE  IInv'
  <1>1. PICK all \in SUBSET Users : all = {u} \union others
    BY BoundAssumption
  <1>2. Owed(r) = {} /\ {} \in SUBSET Users
    BY DEF CreateGroup, Owed
  <1>3. begun' \in 0..MaxRequests
    BY BoundAssumption DEF CreateGroup, Begin, IInv, TypeOK
  <1>4. /\ Insert("GROUP", {}, {}, all)
        /\ request' = [request EXCEPT ![r] = Continue("add", u, NewId(chat), <<>>, all)]
        /\ UNCHANGED <<people, caches, sockets>>
    BY <1>1 DEF CreateGroup, InsertGroup, Begin
  <1>5. <<>> \in Seq(Users) /\ Among(<<>>) = {}
    BY ShortSeqs
  <1>6. "GROUP" \in {"PRIVATE", "GROUP", "POST"} /\ {} \in (SUBSET Users) \union Posts
        /\ "GROUP" # "PRIVATE" /\ all \union Among(<<>>) \subseteq all
    BY <1>5
  <1> QED
    BY <1>2, <1>3, <1>4, <1>5, <1>6, InsertStep

-----------------------------------------------------------------------------
(***************************************************************************)
(* Memberships, caches and rooms                                           *)
(***************************************************************************)
\* One membership changes, of a user whose list the request then owes.
LEMMA MembershipStep ==
    ASSUME IInv, NEW r \in Requests, NEW c \in ChatIds, NEW u \in Users,
           NEW becomes \in Membership, NEW q \in Adding, u \in q.lists, Owed(r) \subseteq q.lists,
           member' = [member EXCEPT ![c][u] = becomes],
           request' = [request EXCEPT ![r] = q],
           UNCHANGED <<people, chat, caches, sockets, begun>>
    PROVE  /\ TypeOK' <=> ever' \in [ChatIds -> SUBSET Users]
           /\ ListsAreFresh'
           /\ \A d \in ChatIds, v \in Users : d # c \/ v # u => (Member(d, v)' <=> Member(d, v))
           /\ Member(c, u)' <=> becomes = "member"
  <1> USE DEF caches, sockets, people
  <1>1. q \in Change
    BY ChangeKinds
  <1>2. TypeOK' <=> ever' \in [ChatIds -> SUBSET Users]
    <2>1. member' \in [ChatIds -> [Users -> Membership]]
      BY DEF IInv, TypeOK
    <2> QED
      BY <1>1, <2>1 DEF IInv, TypeOK
  <1>3. /\ \A d \in ChatIds, v \in Users :
              d # c \/ v # u => (Member(d, v)' <=> Member(d, v))
        /\ Member(c, u)' <=> becomes = "member"
    BY DEF Member, IInv, TypeOK
  <1>4. Owed(r)' = q.lists /\ \A x \in Requests \ {r} : Owed(x)' = Owed(x)
    BY <1>1, RequestStep DEF IInv, TypeOK
  <1>5. \A v \in Users : Owing(v) => Owing(v)'
    BY <1>4 DEF Owing
  <1>6. ASSUME NEW v \in Users PROVE ChatsOf(v)' = ChatsOf(v) \/ Owing(v)'
    <2>1. CASE v = u
      BY <1>4, <2>1 DEF Owing
    <2>2. CASE v # u
      <3>1. \A d \in ChatIds : Member(d, v)' <=> Member(d, v)
        BY <1>3, <2>2
      <3> QED
        BY <3>1 DEF ChatsOf
    <2> QED
      BY <2>1, <2>2
  <1>7. ListsAreFresh'
    <2>1. Vanished' = Vanished /\ accounts' = accounts /\ accounts \subseteq Users
      BY DEF Vanished, IInv, TypeOK
    <2> QED
      BY <1>5, <1>6, <2>1, ListsKept DEF IInv
  <1> QED
    BY <1>2, <1>3, <1>7

LEMMA AddChatMemberStep ==
    ASSUME IInv, NEW r \in Requests, AddChatMember(r)
    PROVE  IInv'
  <1>1. request[r] \in Adding /\ request[r].step = "write" /\ Owed(r) = request[r].lists
        /\ request[r].adds # <<>>
    <2>1. At(r, {"add", "join"}, "write") /\ request[r].adds # <<>>
      BY DEF AddChatMember
    <2>2. request[r] \in Adding
      BY <2>1, RequestFacts DEF IInv, TypeOK
    <2> QED
      BY <2>1, <2>2, RequestFacts, AddingFacts, StartingFacts, LeavingFacts
         DEF IInv, TypeOK, At
  <1>2. PICK q \in Adding : q = request[r]
    BY <1>1
  <1>3. q.adds \in Seq(Users) /\ q.adds # <<>> /\ q.chat \in ChatIds /\ q.step = "write"
    BY <1>1, <1>2, AddingFacts
  <1>4. /\ Tail(q.adds) \in Seq(Users) /\ Head(q.adds) \in Users
        /\ Head(q.adds) \in Among(q.adds) /\ Among(Tail(q.adds)) \subseteq Among(q.adds)
    BY <1>3 DEF Among
  <1>5. PICK n \in Adding : /\ n = [q EXCEPT !.adds = Tail(q.adds)]
                            /\ n.chat = q.chat /\ n.adds = Tail(q.adds)
                            /\ n.lists = q.lists /\ n.step = "write"
    <2>1. LET m == [q EXCEPT !.adds = Tail(q.adds)]
          IN m \in Adding /\ m.chat = q.chat /\ m.adds = Tail(q.adds) /\ m.lists = q.lists
             /\ m.step = "write"
      BY <1>3, <1>4, AddingSteps
    <2> QED
      BY <2>1
  <1>6. PICK c \in ChatIds, u \in Users : c = q.chat /\ u = Head(q.adds)
    BY <1>3, <1>4
  <1>7. /\ member' = [member EXCEPT ![c][u] = "member"]
        /\ ever' = [ever EXCEPT ![c] = ever[c] \union {u}]
        /\ request' = [request EXCEPT ![r] = n]
        /\ UNCHANGED <<people, chat, caches, sockets, begun>>
    BY <1>2, <1>5, <1>6 DEF AddChatMember
  <1>8. \A v \in Among(q.adds) :
           /\ Exists(c) /\ v \in q.lists
           /\ chat[c].type = "PRIVATE" => v \in chat[c].users
    <2>1. Exists(c)
      BY <1>2, <1>6 DEF AddChatMember
    <2> QED
      BY <1>2, <1>3, <1>6, <2>1 DEF IInv, RequestsAreDue, MayHold
  <1>9. n \in Change /\ n \notin Starting /\ "member" \in Membership
    BY ChangeKinds, AddingFacts, StartingFacts DEF Membership
  <1>10. /\ TypeOK' <=> ever' \in [ChatIds -> SUBSET Users]
         /\ ListsAreFresh'
         /\ \A d \in ChatIds, v \in Users : d # c \/ v # u => (Member(d, v)' <=> Member(d, v))
    <2>1. u \in n.lists /\ Owed(r) \subseteq n.lists
      BY <1>1, <1>2, <1>4, <1>5, <1>6, <1>8
    <2> QED
      BY <1>7, <1>9, <2>1, MembershipStep
  <1>11. /\ ever' \in [ChatIds -> SUBSET Users] /\ ever'[c] = ever[c] \union {u}
         /\ \A d \in ChatIds \ {c} : ever'[d] = ever[d]
    BY <1>7 DEF IInv, TypeOK
  <1>12. RequestsAreDue'
    BY <1>4, <1>5, <1>6, <1>7, <1>8, <1>9, DueStep DEF IInv, MayHold, Exists
  <1>13. OneChatEach' /\ ChatsAreKnown'
    BY <1>4, <1>6, <1>7, <1>8, <1>11 DEF IInv, OneChatEach, ChatsAreKnown, Exists
  <1>14. OnlyMembersHear'
    <2>1. ASSUME NEW d \in ChatIds
          PROVE  Members(d)' \subseteq ever'[d] /\ ever[d] \subseteq ever'[d]
      BY <1>10, <1>11 DEF IInv, OnlyMembersHear, Members
    <2>2. ASSUME NEW d \in ChatIds, Exists(d)', chat'[d].type = "PRIVATE"
          PROVE  ever'[d] \subseteq chat'[d].users
      BY <1>4, <1>6, <1>7, <1>8, <1>11, <2>2 DEF IInv, OnlyMembersHear, Exists
    <2> QED
      BY <1>7, <2>1, <2>2 DEF IInv, OnlyMembersHear, caches, sockets, people
  <1>15. GoneIsEmpty'
    BY <1>4, <1>6, <1>7, <1>8, <1>10 DEF IInv, GoneIsEmpty, Members, Exists
  <1> QED
    BY <1>10, <1>11, <1>12, <1>13, <1>14, <1>15 DEF IInv

LEMMA WriteMembershipStep ==
    ASSUME IInv, NEW r \in Requests, NEW op \in {"leave", "hide"},
           NEW becomes \in {"none", "hidden"}, WriteMembership(r, op, becomes)
    PROVE  IInv'
  <1>1. request[r] \in Leaving /\ Owed(r) = {}
    <2>1. At(r, {op}, "write")
      BY DEF WriteMembership
    <2>2. request[r] \in Leaving
      BY <2>1, RequestFacts DEF IInv, TypeOK
    <2> QED
      BY <2>2, RequestFacts, AddingFacts, LeavingFacts DEF IInv, TypeOK
  <1>2. PICK c \in ChatIds, u \in Users : c = request[r].chat /\ u = request[r].user
    BY <1>1, LeavingFacts
  <1>3. PICK n \in Adding : /\ n = Continue("join", u, c, <<>>, {u})
                            /\ n.adds = <<>> /\ n.lists = {u} /\ n.step = "write"
    <2>1. {u} \in SUBSET Users /\ <<>> \in Seq(Users)
      BY ShortSeqs
    <2>2. PICK adds \in Seq(Users), lists \in SUBSET Users : adds = <<>> /\ lists = {u}
      BY <2>1
    <2>3. LET m == Continue("join", u, c, adds, lists)
          IN m \in Adding /\ m.adds = adds /\ m.lists = lists /\ m.step = "write"
      BY ContinueFacts
    <2> QED
      BY <2>2, <2>3
  <1>4. /\ member' = [member EXCEPT ![c][u] = becomes]
        /\ request' = [request EXCEPT ![r] = n]
        /\ UNCHANGED <<people, chat, caches, sockets, begun>> /\ ever' = ever
    BY <1>2, <1>3 DEF WriteMembership
  <1>5. n \in Change /\ n \notin Starting /\ becomes \in Membership /\ becomes # "member"
    BY ChangeKinds, AddingFacts, StartingFacts DEF Membership
  <1>6. /\ TypeOK' <=> ever' \in [ChatIds -> SUBSET Users]
        /\ ListsAreFresh'
        /\ \A d \in ChatIds, v \in Users : d # c \/ v # u => (Member(d, v)' <=> Member(d, v))
        /\ Member(c, u)' <=> becomes = "member"
    <2>1. u \in n.lists /\ Owed(r) \subseteq n.lists
      BY <1>1, <1>3
    <2> QED
      BY <1>4, <1>5, <2>1, MembershipStep
  <1>7. \A d \in ChatIds : Members(d)' \subseteq Members(d)
    BY <1>5, <1>6 DEF Members
  <1>8. Among(<<>>) = {}
    BY ShortSeqs
  <1>9. RequestsAreDue'
    BY <1>3, <1>4, <1>5, <1>8, DueStep DEF IInv
  <1>10. OneChatEach' /\ ChatsAreKnown'
    BY <1>4, NoChatsChange DEF IInv
  <1>11. OnlyMembersHear'
    BY <1>4, <1>7 DEF IInv, OnlyMembersHear, Exists, caches, sockets, people
  <1>12. ever' \in [ChatIds -> SUBSET Users] /\ GoneIsEmpty'
    BY <1>4, <1>7 DEF IInv, TypeOK, GoneIsEmpty
  <1> QED
    BY <1>6, <1>9, <1>10, <1>11, <1>12 DEF IInv

LEMMA InvalidateStep ==
    ASSUME IInv, NEW r \in Requests, Invalidate(r)
    PROVE  IInv'
  <1>1. request[r] \in Adding /\ Owed(r) = request[r].lists /\ request[r].adds = <<>>
    <2>1. At(r, {"add", "join"}, "write") /\ request[r].adds = <<>>
      BY DEF Invalidate
    <2>2. request \in [Requests -> Change \union {None}]
      BY DEF IInv, TypeOK
    <2>3. request[r] \in Adding
      BY <2>1, <2>2, RequestFacts
    <2>4. request[r] # None /\ request[r] \notin Starting /\ request[r] \notin Leaving
      BY <2>3, AddingFacts, StartingFacts, LeavingFacts
    <2>5. Owed(r) = request[r].lists
      BY <2>2, <2>4, RequestFacts
    <2> QED
      BY <2>1, <2>3, <2>5
  <1>2. PICK q \in Adding : q = request[r]
    BY <1>1
  <1>3. PICK n \in Adding : /\ n = [q EXCEPT !.step = "read", !.lists = {}]
                            /\ n.chat = q.chat /\ n.adds = <<>> /\ n.lists = {}
                            /\ n.step = "read"
    <2>1. LET m == [q EXCEPT !.step = "read", !.lists = {}]
          IN m \in Adding /\ m.chat = q.chat /\ m.adds = q.adds /\ m.lists = {}
             /\ m.step = "read"
      BY AddingSteps
    <2> QED
      BY <1>1, <1>2, <2>1
  <1>4. n \in Change /\ n \notin Starting /\ Among(<<>>) = {}
    BY ChangeKinds, AddingFacts, StartingFacts, ShortSeqs
  <1>5. PICK failed \in SUBSET q.lists :
            /\ list' = [u \in Users |-> IF u \in q.lists \ failed THEN None ELSE list[u]]
            /\ missed' = (missed \ {u \in q.lists \ failed : fill[u] = None})
                            \union failed \union {u \in q.lists \ failed : fill[u] # None}
    BY <1>2 DEF Invalidate, Invalidated
  <1>6. request' = [request EXCEPT ![r] = n]
        /\ UNCHANGED <<people, chat, member, view, fill, sockets, begun, ever>>
    BY <1>2, <1>3 DEF Invalidate
  <1>7. q.lists \in SUBSET Users
    BY AddingFacts
  <1>8. TypeOK'
    <2>1. list' \in [Users -> (SUBSET ChatIds) \union {None}] /\ missed' \in SUBSET Users
      BY <1>5, <1>7 DEF IInv, TypeOK
    <2> QED
      BY <1>4, <1>6, <2>1 DEF IInv, TypeOK, sockets, people
  <1>9. RequestsAreDue'
    BY <1>3, <1>4, <1>6, DueStep DEF IInv
  <1>10. OneChatEach' /\ ChatsAreKnown'
    BY <1>6, NoChatsChange DEF IInv
  <1>11. OnlyMembersHear' /\ GoneIsEmpty'
    BY <1>6 DEF IInv, OnlyMembersHear, GoneIsEmpty, Members, Member, Exists, sockets, people
  <1>12. Owed(r)' = {} /\ \A x \in Requests \ {r} : Owed(x)' = Owed(x)
    BY <1>3, <1>4, <1>6, RequestStep DEF IInv, TypeOK
  <1>13. ASSUME NEW u \in accounts PROVE ListFresh(u)'
    <2>0. u \in Users
      BY DEF IInv, TypeOK
    <2>1. ChatsOf(u)' = ChatsOf(u) /\ Vanished' = Vanished
      BY <1>6, <2>0, ChatsOfSame, NoChatsChange
    <2>2. CASE u \in failed
      BY <1>5, <2>2 DEF ListFresh
    <2>3. CASE u \in q.lists \ failed
      <3>1. u \in missed' \/ (fill[u] = None /\ list'[u] = None)
        BY <1>5, <2>0, <2>3
      <3> QED
        BY <1>6, <3>1 DEF ListFresh, IsFresh
    <2>4. CASE u \notin q.lists
      <3>1. list'[u] = list[u] /\ (u \in missed => u \in missed')
        BY <1>5, <2>0, <2>4
      <3>2. Owing(u) => Owing(u)'
        BY <1>1, <1>2, <1>12, <2>4 DEF Owing
      <3>3. ListFresh(u)
        BY DEF IInv, ListsAreFresh
      <3> QED
        BY <1>6, <2>1, <3>1, <3>2, <3>3 DEF ListFresh, IsFresh
    <2> QED
      BY <2>2, <2>3, <2>4
  <1>14. ListsAreFresh'
    BY <1>6, <1>13 DEF ListsAreFresh, people
  <1> QED
    BY <1>8, <1>9, <1>10, <1>11, <1>14 DEF IInv

\* Reading a chat: only who has been a member gets it into the cache.
LEMMA ViewStep ==
    ASSUME IInv, NEW u \in Users, NEW c \in ChatIds, GetChat(u, c)
    PROVE  /\ view' \in [ChatIds -> SUBSET Users]
           /\ u \in ever[c]
           /\ \A d \in ChatIds : view'[d] \subseteq ever[d]
  <1>1. view' = [view EXCEPT ![c] = view[c] \union {u}]
    BY DEF GetChat
  <1>2. u \in ever[c]
    BY DEF GetChat, Sees, IInv, OnlyMembersHear, Members
  <1> QED
    BY <1>1, <1>2 DEF IInv, TypeOK, OnlyMembersHear

\* What is left is kept by a step that only caches chats and moves sockets.
LEMMA RoomsStep ==
    ASSUME IInv, view' \in [ChatIds -> SUBSET Users], online' \in SUBSET Users,
           room' \in [ChatIds -> SUBSET online'],
           \A d \in ChatIds : view'[d] \union room'[d] \subseteq ever[d],
           UNCHANGED <<people, chat, member, list, fill, missed, request, begun, ever>>
    PROVE  IInv'
  <1>1. TypeOK'
    BY DEF IInv, TypeOK, people
  <1>2. RequestsAreDue'
    BY DEF IInv, RequestsAreDue, At, Idle, Exists, MayHold
  <1>3. OneChatEach' /\ ChatsAreKnown'
    BY NoChatsChange DEF IInv
  <1>4. OnlyMembersHear' /\ GoneIsEmpty'
    BY DEF IInv, OnlyMembersHear, GoneIsEmpty, Members, Member, Exists
  <1>5. \A u \in Users : Owing(u)' <=> Owing(u)
    BY DEF Owing, Owed, At, Idle
  <1>6. ListsAreFresh'
    BY <1>5, ChatsOfSame, NoChatsChange, ListsKept DEF IInv, TypeOK, people
  <1> QED
    BY <1>1, <1>2, <1>3, <1>4, <1>6 DEF IInv

\* A request ends; the lists it still owed are missed.
LEMMA EndStep ==
    ASSUME IInv, NEW r \in Requests, End(r),
           view' \in [ChatIds -> SUBSET Users], \A d \in ChatIds : view'[d] \subseteq ever[d],
           missed' = missed \union Owed(r),
           UNCHANGED <<people, chat, member, list, fill, sockets, begun, ever>>
    PROVE  IInv'
  <1>1. request' = [request EXCEPT ![r] = None]
    BY DEF End
  <1>2. None \notin Starting /\ None \notin Adding
    BY StartingFacts, AddingFacts
  <1>3. Owed(r) \in SUBSET Users
    <2>1. request[r] \in Adding => request[r].lists \in SUBSET Users
      BY AddingFacts
    <2> QED
      BY <2>1, RequestFacts DEF IInv, TypeOK
  <1>4. TypeOK'
    BY <1>1, <1>3 DEF IInv, TypeOK, sockets, people
  <1>5. RequestsAreDue'
    BY <1>1, <1>2, DueStep DEF IInv
  <1>6. OneChatEach' /\ ChatsAreKnown'
    BY NoChatsChange DEF IInv
  <1>7. OnlyMembersHear' /\ GoneIsEmpty'
    BY DEF IInv, OnlyMembersHear, GoneIsEmpty, Members, Member, Exists, sockets, people
  <1>8. \A x \in Requests \ {r} : Owed(x)' = Owed(x)
    BY <1>1, RequestStep DEF IInv, TypeOK
  <1>9. \A u \in Users : Owing(u) => Owing(u)' \/ u \in missed'
    BY <1>8 DEF Owing
  <1>10. ListsAreFresh'
    BY <1>9, ChatsOfSame, NoChatsChange, ListsKept DEF IInv, TypeOK, people
  <1> QED
    BY <1>4, <1>5, <1>6, <1>7, <1>10 DEF IInv

LEMMA AnswerStep ==
    ASSUME IInv, NEW r \in Requests, Answer(r)
    PROVE  IInv'
  <1>1. At(r, {"add", "join"}, "read") /\ End(r)
        /\ UNCHANGED <<people, chat, member, list, fill, missed, sockets, begun, ever>>
    BY DEF Answer
  <1>2. request[r] \in Adding /\ request[r].step = "read"
    BY <1>1, RequestFacts DEF IInv, TypeOK, At
  <1>3. Owed(r) = {}
    <2>1. request[r].lists = {}
      BY <1>2 DEF IInv, RequestsAreDue
    <2> QED
      BY <2>1, RequestFacts DEF IInv, TypeOK
  <1>4. PICK u \in Users, c \in ChatIds : u = request[r].user /\ c = request[r].chat
    BY <1>2, AddingFacts
  <1>5. GetChat(u, c) \/ view' = view
    BY <1>4 DEF Answer
  <1>6. view' \in [ChatIds -> SUBSET Users] /\ \A d \in ChatIds : view'[d] \subseteq ever[d]
    BY <1>5, ViewStep DEF IInv, TypeOK, OnlyMembersHear
  <1> QED
    BY <1>1, <1>3, <1>6, EndStep

LEMMA FailsStep ==
    ASSUME IInv, NEW r \in Requests, Fails(r)
    PROVE  IInv'
  <1>1. view' \in [ChatIds -> SUBSET Users] /\ \A d \in ChatIds : view'[d] \subseteq ever[d]
    BY DEF Fails, IInv, TypeOK, OnlyMembersHear
  <1> QED
    BY <1>1, EndStep DEF Fails

\* The cached list of one user is read, written or expires.
LEMMA ListsStep ==
    ASSUME IInv, NEW u \in Users, Lists(u)
    PROVE  IInv'
  <1>1. UNCHANGED <<people, chat, member, view, sockets, request, begun, ever>>
    BY DEF Lists, ReadList, WriteList, ExpireList
  <1>2. ChatsOf(u) \in SUBSET ChatIds
    BY DEF ChatsOf
  <1>3. TypeOK'
    <2>1. /\ list' \in [Users -> (SUBSET ChatIds) \union {None}]
          /\ fill' \in [Users -> (SUBSET ChatIds) \union {None}]
          /\ missed' \in SUBSET Users
      BY <1>2 DEF Lists, ReadList, WriteList, ExpireList, IInv, TypeOK
    <2> QED
      BY <1>1, <2>1 DEF IInv, TypeOK, sockets, people
  <1>4. RequestsAreDue'
    BY <1>1 DEF IInv, RequestsAreDue, At, Idle, Exists, MayHold
  <1>5. OneChatEach' /\ ChatsAreKnown'
    BY <1>1, NoChatsChange DEF IInv
  <1>6. OnlyMembersHear' /\ GoneIsEmpty'
    BY <1>1 DEF IInv, OnlyMembersHear, GoneIsEmpty, Members, Member, Exists, sockets, people
  <1>7. \A v \in Users : Owing(v)' <=> Owing(v)
    BY <1>1 DEF Owing, Owed, At, Idle
  <1>8. ASSUME NEW v \in accounts PROVE ListFresh(v)'
    <2>0. v \in Users
      BY DEF IInv, TypeOK
    <2>1. ChatsOf(v)' = ChatsOf(v) /\ Vanished' = Vanished /\ ListFresh(v)
          /\ (Owing(v) => Owing(v)')
      BY <1>1, <1>7, <2>0, ChatsOfSame, NoChatsChange DEF IInv, ListsAreFresh
    <2>2. CASE v # u
      <3>1. list'[v] = list[v] /\ fill'[v] = fill[v] /\ (v \in missed => v \in missed')
        BY <2>0, <2>2 DEF IInv, TypeOK, Lists, ReadList, WriteList, ExpireList
      <3> QED
        BY <2>1, <3>1 DEF ListFresh, IsFresh
    <2>3. CASE v = u
      <3>1. CASE ReadList(u)
        <4>1. list'[u] = None /\ fill'[u] = ChatsOf(u)
          BY <2>0, <3>1 DEF IInv, TypeOK, ReadList
        <4>2. ChatsOf(u) \ Vanished = ChatsOf(u)
          BY <2>0, <2>3 DEF IInv, GoneIsEmpty, ChatsOf, Members, Vanished
        <4> QED
          BY <2>1, <2>3, <4>1, <4>2 DEF ListFresh, IsFresh
      <3>2. CASE WriteList(u)
        <4>1. list'[u] = fill[u] /\ fill'[u] = None /\ missed' = missed
          BY <2>0, <3>2 DEF IInv, TypeOK, WriteList
        <4> QED
          BY <2>1, <2>3, <4>1 DEF ListFresh, IsFresh
      <3>3. CASE ExpireList(u)
        <4>1. list'[u] = None /\ fill' = fill
              /\ (fill[u] = None \/ (u \in missed => u \in missed'))
          BY <2>0, <3>3 DEF IInv, TypeOK, ExpireList
        <4> QED
          BY <2>1, <2>3, <4>1 DEF ListFresh, IsFresh
      <3> QED
        BY <3>1, <3>2, <3>3 DEF Lists
    <2> QED
      BY <2>2, <2>3
  <1>9. ListsAreFresh'
    BY <1>1, <1>8 DEF ListsAreFresh, people
  <1> QED
    BY <1>3, <1>4, <1>5, <1>6, <1>9 DEF IInv

LEMMA SocketStep ==
    ASSUME IInv, NEW u \in Users, Socket(u)
    PROVE  IInv'
  <1> USE DEF caches, sockets, people
  <1>1. /\ view \in [ChatIds -> SUBSET Users] /\ room \in [ChatIds -> SUBSET online]
        /\ online \in SUBSET Users /\ \A d \in ChatIds : view[d] \union room[d] \subseteq ever[d]
    BY DEF IInv, TypeOK, OnlyMembersHear
  <1>2. CASE Connect(u)
    BY <1>1, <1>2, RoomsStep DEF Connect
  <1>3. CASE Disconnect(u)
    <2>1. room' \in [ChatIds -> SUBSET online'] /\ \A d \in ChatIds : room'[d] \subseteq room[d]
      BY <1>1, <1>3 DEF Disconnect
    <2> QED
      BY <1>1, <1>3, <2>1, RoomsStep DEF Disconnect
  <1>4. ASSUME NEW c \in ChatIds, JoinRoom(u, c)
        PROVE  IInv'
    <2>1. /\ view' \in [ChatIds -> SUBSET Users] /\ u \in ever[c]
          /\ \A d \in ChatIds : view'[d] \subseteq ever[d]
      BY <1>4, ViewStep DEF JoinRoom
    <2>2. room' \in [ChatIds -> SUBSET online'] /\ \A d \in ChatIds : room'[d] \subseteq ever[d]
      BY <1>1, <1>4, <2>1 DEF JoinRoom
    <2> QED
      BY <1>1, <1>4, <2>1, <2>2, RoomsStep DEF JoinRoom
  <1>5. ASSUME NEW c \in ChatIds, LeaveRoom(u, c)
        PROVE  IInv'
    <2>1. view' \in [ChatIds -> SUBSET Users] /\ \A d \in ChatIds : view'[d] \subseteq ever[d]
      BY <1>5, ViewStep DEF LeaveRoom
    <2>2. room' \in [ChatIds -> SUBSET online'] /\ \A d \in ChatIds : room'[d] \subseteq ever[d]
      BY <1>1, <1>5 DEF LeaveRoom
    <2> QED
      BY <1>1, <1>5, <2>1, <2>2, RoomsStep DEF LeaveRoom
  <1>6. ASSUME NEW c \in ChatIds, Typing(u, c)
        PROVE  IInv'
    <2>1. view' \in [ChatIds -> SUBSET Users] /\ \A d \in ChatIds : view'[d] \subseteq ever[d]
      BY <1>6, ViewStep DEF Typing
    <2> QED
      BY <1>1, <1>6, <2>1, RoomsStep DEF Typing
  <1>7. ASSUME NEW c \in ChatIds, ExpireView(u, c)
        PROVE  IInv'
    <2>1. view' \in [ChatIds -> SUBSET Users] /\ \A d \in ChatIds : view'[d] \subseteq view[d]
      BY <1>1, <1>7 DEF ExpireView
    <2> QED
      BY <1>1, <1>7, <2>1, RoomsStep DEF ExpireView
  <1> QED
    BY <1>2, <1>3, <1>4, <1>5, <1>6, <1>7 DEF Socket

-----------------------------------------------------------------------------
(***************************************************************************)
(* Cascades                                                                *)
(***************************************************************************)
\* The chats of a purged post leave the lists by being told apart.
LEMMA PurgePostStep ==
    ASSUME IInv, NEW p \in Posts, PurgePost(p)
    PROVE  IInv'
  <1> USE DEF caches, sockets
  <1>1. PICK G \in SUBSET ChatIds : G = PostChats(p)
    BY DEF PostChats, Found
  <1>2. ASSUME NEW c \in ChatIds
        PROVE  /\ c \in G => /\ chat[c] # None /\ chat'[c] = Gone
                             /\ member'[c] = [u \in Users |-> "none"]
               /\ c \notin G => chat'[c] = chat[c] /\ member'[c] = member[c]
    BY <1>1 DEF PurgePost, PostChats, Found, Exists
  <1>3. UNCHANGED <<accounts, view, list, fill, missed, room, online, request, begun, ever>>
        /\ posts' \in SUBSET Posts
    BY DEF PurgePost, IInv, TypeOK
  <1>4. \A c \in ChatIds : Exists(c)' => Exists(c) /\ chat'[c] = chat[c]
    BY <1>2 DEF Exists
  <1>5. TypeOK'
    <2>1. chat' \in [ChatIds -> Chat \union {None, Gone}]
          /\ member' \in [ChatIds -> [Users -> Membership]]
      BY DEF PurgePost, IInv, TypeOK, Membership
    <2> QED
      BY <1>3, <2>1 DEF IInv, TypeOK
  <1>6. RequestsAreDue'
    <2>1. \A r \in Requests : \A op : At(r, {op}, "insert")' <=> At(r, {op}, "insert")
      BY <1>3 DEF At, Idle
    <2>2. ASSUME NEW c \in ChatIds, NEW u, MayHold(c, u) PROVE MayHold(c, u)'
      BY <1>2, <1>4, <2>2, NoneAssumption DEF MayHold
    <2>3. \A r \in Requests : request[r] \in Adding => request[r].chat \in ChatIds
      BY AddingFacts
    <2> QED
      BY <1>3, <2>1, <2>2, <2>3 DEF IInv, RequestsAreDue
  <1>7. OneChatEach' /\ ChatsAreKnown'
    BY <1>2, <1>3, <1>4, NoneAssumption DEF IInv, OneChatEach, ChatsAreKnown
  <1>8. \A c \in ChatIds : Members(c)' = IF c \in G THEN {} ELSE Members(c)
    BY <1>2 DEF Members, Member
  <1>9. OnlyMembersHear' /\ GoneIsEmpty'
    BY <1>2, <1>3, <1>4, <1>8 DEF IInv, OnlyMembersHear, GoneIsEmpty
  <1>10. ASSUME NEW u \in accounts PROVE ListFresh(u)'
    <2>1. ListFresh(u) /\ u \in Users
      BY DEF IInv, ListsAreFresh, TypeOK
    <2>2. ChatsOf(u)' = ChatsOf(u) \ G
      BY <1>2, <2>1 DEF ChatsOf, Member
    <2>3. Vanished' = Vanished \union G
      BY <1>2 DEF Vanished
    <2>4. Owing(u)' <=> Owing(u)
      BY <1>3 DEF Owing, Owed, At, Idle
    <2>5. IsFresh(list[u], u) => IsFresh(list[u], u)'
      BY <1>3, <2>2, <2>3 DEF IsFresh
    <2>6. IsFresh(fill[u], u) => IsFresh(fill[u], u)'
      BY <1>3, <2>2, <2>3 DEF IsFresh
    <2> QED
      BY <1>3, <2>1, <2>4, <2>5, <2>6 DEF ListFresh
  <1>11. ListsAreFresh'
    BY <1>3, <1>10 DEF ListsAreFresh
  <1> QED
    BY <1>5, <1>6, <1>7, <1>9, <1>11 DEF IInv

\* The lists of those who stay do not change, nobody asks for the one who goes.
LEMMA RemoveUserStep ==
    ASSUME IInv, NEW u \in Users, RemoveUser(u)
    PROVE  IInv'
  <1> USE DEF caches, sockets
  <1>1. UNCHANGED <<posts, chat, view, list, fill, missed, room, online, request, begun, ever>>
        /\ accounts' = accounts \ {u}
    BY DEF RemoveUser
  <1>2. \A c \in ChatIds, v \in Users : Member(c, v)' <=> Member(c, v) /\ v # u
    BY DEF RemoveUser, Member, IInv, TypeOK
  <1>3. TypeOK'
    <2>1. member' \in [ChatIds -> [Users -> Membership]]
      BY DEF RemoveUser, IInv, TypeOK, Membership
    <2> QED
      BY <1>1, <2>1 DEF IInv, TypeOK
  <1>4. RequestsAreDue'
    BY <1>1 DEF IInv, RequestsAreDue, At, Idle, Exists, MayHold
  <1>5. OneChatEach' /\ ChatsAreKnown'
    BY <1>1 DEF IInv, OneChatEach, ChatsAreKnown, Exists
  <1>6. \A c \in ChatIds : Members(c)' \subseteq Members(c)
    BY <1>2 DEF Members
  <1>7. OnlyMembersHear' /\ GoneIsEmpty'
    BY <1>1, <1>6 DEF IInv, OnlyMembersHear, GoneIsEmpty, Exists
  <1>8. ASSUME NEW v \in accounts \ {u} PROVE ListFresh(v)'
    <2>1. ListFresh(v) /\ v \in Users
      BY DEF IInv, ListsAreFresh, TypeOK
    <2>2. ChatsOf(v)' = ChatsOf(v) /\ Vanished' = Vanished
      BY <1>1, <1>2, <2>1 DEF ChatsOf, Vanished
    <2>3. Owing(v)' <=> Owing(v)
      BY <1>1 DEF Owing, Owed, At, Idle
    <2> QED
      BY <1>1, <2>1, <2>2, <2>3 DEF ListFresh, IsFresh
  <1>9. ListsAreFresh'
    BY <1>1, <1>8 DEF ListsAreFresh
  <1> QED
    BY <1>3, <1>4, <1>5, <1>7, <1>9 DEF IInv

-----------------------------------------------------------------------------
LEMMA InitHolds == Init => IInv
  <1> SUFFICES ASSUME Init PROVE IInv
    OBVIOUS
  <1>1. ASSUME NEW c \in ChatIds
        PROVE  /\ chat[c] \in Chat \union {None} /\ chat[c] # Gone
               /\ member[c] \in [Users -> Membership]
               /\ ever[c] = {u \in Users : member[c][u] # "none"}
               /\ chat[c] = None => ever[c] = {}
               /\ Exists(c) => /\ chat[c].type = "PRIVATE" /\ chat[c].key = chat[c].users
                               /\ ever[c] \subseteq chat[c].users
               /\ \A d \in ChatIds : Exists(c) /\ Exists(d) => c = d
    <2>0. ever[c] = {u \in Users : member[c][u] # "none"}
      BY DEF Init
    <2>1. CASE chat = Empty /\ member = [d \in ChatIds |-> [u \in Users |-> "none"]]
      BY <2>0, <2>1, NoneAssumption DEF Empty, Exists, Membership
    <2>2. CASE \E u \in Clients : \E v \in Users \ {u} :
                  /\ chat = Hidden(u, v)
                  /\ member = [d \in ChatIds |-> [w \in Users |->
                         IF d # NewId(Empty) \/ w \notin {u, v} THEN "none"
                         ELSE IF w = u THEN "hidden" ELSE "member"]]
      <3>1. PICK u \in Users, v \in Users :
                  /\ chat = Hidden(u, v)
                  /\ member = [d \in ChatIds |-> [w \in Users |->
                         IF d # NewId(Empty) \/ w \notin {u, v} THEN "none"
                         ELSE IF w = u THEN "hidden" ELSE "member"]]
        BY <2>2, UsersAssumption
      <3>2. PICK new \in Chat : /\ new = [type |-> "PRIVATE", key |-> Pair(u, v), users |-> {u, v}]
                                /\ new.type = "PRIVATE" /\ new.key = {u, v} /\ new.users = {u, v}
        <4>1. [type |-> "PRIVATE", key |-> Pair(u, v), users |-> {u, v}] \in Chat
          BY DEF Chat, Pair
        <4> QED
          BY <4>1 DEF Pair
      <3>3. PICK a : a = NewId(Empty)
        OBVIOUS
      <3>4. \A d \in ChatIds : chat[d] = IF d = a THEN new ELSE None
        BY <3>1, <3>2, <3>3 DEF Hidden, Empty
      <3>5. new # None /\ new # Gone /\ Gone # None
        BY NoneAssumption
      <3>6. member[c] = [w \in Users |-> IF c # a \/ w \notin {u, v} THEN "none"
                                         ELSE IF w = u THEN "hidden" ELSE "member"]
        BY <3>1, <3>3
      <3>7. member[c] \in [Users -> Membership]
        BY <3>6 DEF Membership
      <3>8. ever[c] \subseteq {u, v} /\ (c # a => ever[c] = {})
        BY <2>0, <3>6
      <3> QED
        BY <2>0, <3>2, <3>4, <3>5, <3>7, <3>8 DEF Exists
    <2> QED
      BY <2>1, <2>2 DEF Init
  <1>2. chat \in [ChatIds -> Chat \union {None}] /\ member \in [ChatIds -> [Users -> Membership]]
    <2>1. chat = [c \in ChatIds |-> chat[c]] /\ member = [c \in ChatIds |-> member[c]]
      BY DEF Init, Empty, Hidden
    <2> QED
      BY <1>1, <2>1
  <1>3. TypeOK
    BY <1>2, BoundAssumption DEF Init, TypeOK
  <1>4. OneChatEach /\ ChatsAreKnown
    BY <1>1 DEF OneChatEach, ChatsAreKnown
  <1>5. OnlyMembersHear
    BY <1>1 DEF OnlyMembersHear, Members, Member, Init
  <1>6. RequestsAreDue /\ GoneIsEmpty /\ ListsAreFresh
    BY <1>1, AddingFacts
       DEF Init, RequestsAreDue, At, Idle, GoneIsEmpty, ListsAreFresh, ListFresh, IsFresh
  <1> QED
    BY <1>3, <1>4, <1>5, <1>6 DEF IInv

LEMMA NextKeeps == IInv /\ [Next]_vars => IInv'
  <1> SUFFICES ASSUME IInv, [Next]_vars PROVE IInv'
    OBVIOUS
  <1>1. ASSUME NEW r \in Requests, Proceed(r) PROVE IInv'
    BY <1>1, InsertPrivateStep, InsertPostChatStep, AddChatMemberStep, WriteMembershipStep,
       InvalidateStep, AnswerStep, FailsStep
       DEF Proceed, RemoveChatMember, SoftDeleteChatMember
  <1>2. ASSUME NEW r \in Requests, NEW u \in Users, Act(r, u) PROVE IInv'
    BY <1>2, CreatePrivateStep, CreateGroupStep, CreatePostChatStep, AddMemberByEmailStep,
       JoinChatStep, LeaveStep DEF Act
  <1>3. ASSUME NEW u \in Clients, Lists(u) \/ Socket(u) PROVE IInv'
    BY <1>3, UsersAssumption, ListsStep, SocketStep
  <1>4. ASSUME NEW p \in Purged, PurgePost(p) PROVE IInv'
    BY <1>4, UsersAssumption, PurgePostStep
  <1>5. ASSUME NEW u \in Leavers, RemoveUser(u) PROVE IInv'
    BY <1>5, UsersAssumption, RemoveUserStep
  <1>6. CASE UNCHANGED vars
    <2>1. view' \in [ChatIds -> SUBSET Users] /\ room' \in [ChatIds -> SUBSET online']
      BY <1>6 DEF vars, IInv, TypeOK
    <2> QED
      BY <1>6, <2>1, RoomsStep DEF vars, people, IInv, TypeOK, OnlyMembersHear
  <1> QED
    BY <1>1, <1>2, <1>3, <1>4, <1>5, <1>6 DEF Next

LEMMA Invariant == Spec => []IInv
  <1> QED
    BY InitHolds, NextKeeps, PTL DEF Spec

\* Whatever requests, sockets and failures interleave, two users have one
\* private chat and a post one chat, and a chat is read and heard only by who
\* has been its member, which in a private chat are its two users.
THEOREM ChatsKept == Spec => []ChatsAreKept
  <1>1. IInv => ChatsAreKept
    BY DEF IInv, ChatsAreKept
  <1> QED
    BY Invariant, <1>1, PTL

\* A cached list of chats shows a change late only while its deletion is owed,
\* or after one that failed or that an older list overtook.
THEOREM ListCurrent == Spec => []ListIsCurrent
  <1>1. IInv => ListIsCurrent
    BY DEF IInv, ListIsCurrent, ListsAreFresh, ListFresh, IsFresh, Owing
  <1> QED
    BY Invariant, <1>1, PTL

=============================================================================
