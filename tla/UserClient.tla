----------------------------- MODULE UserClient -----------------------------
(***************************************************************************)
(* rpcclient.UserRpcClient: what a service that looks users up makes of    *)
(* the answer of GetDesignateUsers.  A caller relies on these functions to *)
(* turn every answer that is not the whole truth into an error.            *)
(***************************************************************************)
EXTENDS UserService, Functions

\* datautil.Single: what is in one of the two only.
Single(S, T) == (S \ T) \cup (T \ S)

UserIDsOf(us) == {e.userID : e \in Range(us)}

Failed == [err |-> TRUE, users |-> <<>>]

\* MUTANT of GetUsersInfo: the answer is taken as it is.
GetUsersInfoUnchecked(q, reply) == [err |-> FALSE, users |-> reply.users]

\* No call is made for an empty list.  Any difference between the userIDs asked
\* for and those answered is ErrUserIDNotFound.
GetUsersInfo(q, reply) ==
    IF q = <<>>
    THEN [err |-> FALSE, users |-> <<>>]
    ELSE IF reply.is = "found" /\ Single(Range(q), UserIDsOf(reply.users)) = {}
         THEN [err |-> FALSE, users |-> reply.users]
         ELSE Failed

First(r) == IF r.err THEN Failed ELSE [r EXCEPT !.users = <<r.users[1]>>]

GetUserInfo(u, reply) == First(GetUsersInfo(<<u>>, reply))

\* A userID that comes twice keeps the later entry.
SliceToMap(us) ==
    [u \in UserIDsOf(us) |->
        us[CHOOSE i \in DOMAIN us :
             us[i].userID = u /\ \A j \in DOMAIN us : us[j].userID = u => j <= i]]

AsMap(r) == [err |-> r.err, users |-> SliceToMap(r.users)]

GetUsersInfoMap(q, reply) == AsMap(GetUsersInfo(q, reply))

PublicUserInfo(e) == [userID |-> e.userID, nickname |-> e.nickname]

GetPublicUserInfos(q, reply) ==
    LET r == GetUsersInfo(q, reply)
    IN [r EXCEPT !.users = [i \in DOMAIN @ |-> PublicUserInfo(@[i])]]

GetPublicUserInfo(u, reply) == First(GetPublicUserInfos(<<u>>, reply))

GetPublicUserInfoMap(q, reply) == AsMap(GetPublicUserInfos(q, reply))

-----------------------------------------------------------------------------
(* Properties *)

\* The map holds every userID that was asked for and no other, each with its own
\* user, who is in the collection.
Whole(g, m) ==
    /\ DOMAIN m = Range(ids[g])
    /\ \A u \in DOMAIN m :
          /\ m[u].userID = u
          /\ \E d \in docs : d.userID = u /\ d.nickname = m[u].nickname

\* A caller that looks users up while others register them gets an error or the
\* whole map, so that it may index it by any userID it asked for.
ClientMapWhole ==
    \A g \in GetCalls :
        stage[g] = "done" =>
            \A m \in {GetUsersInfoMap(ids[g], got[g]), GetPublicUserInfoMap(ids[g], got[g])} :
                m.err \/ Whole(g, m.users)
=============================================================================
