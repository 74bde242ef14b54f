------------------------------ MODULE MCChats ------------------------------
(* TLC instances of Chats. *)
EXTENDS Chats, TLC

CONSTANTS u1, u2, u3, p1, c1, c2, r1, r2

MCUsers == {u1, u2, u3}
MCVerified == {u1, u3}
MCClients == {u2}
MCParties == {{u2}}
MCAuthor == [p \in {p1} |-> u1]
MCChatIds == {c1, c2}
MCPurged == {p1}
MCLeavers == {u1, u2}
MCRequests == {r1, r2}

\* u has no part in any chat, list or request.
Apart(u) ==
    /\ \A c \in ChatIds : u \notin ever[c]
    /\ list[u] = None /\ fill[u] = None /\ u \notin online
    /\ \A r \in Requests : ~Idle(r) =>
          /\ request[r].user # u
          /\ request[r].op \in {"private", "post"} => request[r].target # u
          /\ request[r].op \in {"add", "join"} =>
                \A i \in DOMAIN request[r].adds : request[r].adds[i] # u

\* Bound: after the purge nobody has a socket unless the third user is apart;
\* one account is removed, while he is apart and nobody has a socket.
FewLeave ==
    \/ accounts = Users /\ (posts = Posts \/ online = {} \/ Apart(u3))
    \/ Cardinality(Users \ accounts) = 1 /\ online = {} /\ Apart(u3)

RequestsAlike == Permutations(MCRequests)

=============================================================================
