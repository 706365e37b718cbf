-------------------------- MODULE UserClientProofs --------------------------
(***************************************************************************)
(* Theorems of UserClient: what its functions make of any answer, and what *)
(* that means for the answers the user service gives.                      *)
(***************************************************************************)
EXTENDS UserClient, UserServiceProofs

\* Whatever a server answers, users are only handed on if they are the ones that
\* were asked for.
LEMMA OnlyAsked ==
    ASSUME NEW q, NEW reply, ~GetUsersInfo(q, reply).err, q # <<>>
    PROVE  /\ reply.is = "found"
           /\ GetUsersInfo(q, reply).users = reply.users
           /\ UserIDsOf(reply.users) = Range(q)
<1>1. reply.is = "found" /\ Single(Range(q), UserIDsOf(reply.users)) = {}
  BY DEF GetUsersInfo, Failed
<1> QED
  BY <1>1 DEF GetUsersInfo, Single

\* GetUserInfo and GetPublicUserInfo index the first user of a list: whatever
\* the server answered, there is one, and it is the user that was asked for.
THEOREM FirstExists ==
    ASSUME NEW u, NEW reply, reply.users \in Seq(User), ~GetUsersInfo(<<u>>, reply).err
    PROVE  /\ Len(GetUsersInfo(<<u>>, reply).users) > 0
           /\ GetUsersInfo(<<u>>, reply).users[1].userID = u
<1>1. UserIDsOf(reply.users) = {u} /\ GetUsersInfo(<<u>>, reply).users = reply.users
  <2>1. <<u>> # <<>>
    OBVIOUS
  <2>2. /\ UserIDsOf(reply.users) = Range(<<u>>)
        /\ GetUsersInfo(<<u>>, reply).users = reply.users
    BY <2>1, OnlyAsked
  <2>3. Range(<<u>>) = {u}
    BY DEF Range
  <2> QED
    BY <2>2, <2>3
<1>2. PICK i \in DOMAIN reply.users : reply.users[i].userID = u
  BY <1>1 DEF UserIDsOf, Range
<1>3. 1 \in DOMAIN reply.users
  BY <1>2
<1>4. reply.users[1].userID \in UserIDsOf(reply.users)
  BY <1>3 DEF UserIDsOf, Range
<1> QED
  BY <1>1, <1>3, <1>4

\* datautil.SliceToMap of no users is the empty map.
LEMMA MapOfNone == DOMAIN SliceToMap(<<>>) = {}
  BY DEF SliceToMap, UserIDsOf, Range

\* datautil.SliceToMap of one user maps its userID to it.
LEMMA MapOfOne ==
    ASSUME NEW e
    PROVE  SliceToMap(<<e>>) = [u \in {e.userID} |-> e]
<1>1. UserIDsOf(<<e>>) = {e.userID}
  BY DEF UserIDsOf, Range
<1>2. ASSUME NEW u \in {e.userID}
      PROVE  <<e>>[CHOOSE i \in DOMAIN <<e>> :
                     <<e>>[i].userID = u
                     /\ \A j \in DOMAIN <<e>> : <<e>>[j].userID = u => j <= i] = e
  <2>1. DOMAIN <<e>> = {1} /\ <<e>>[1] = e
    OBVIOUS
  <2>2. \E i \in DOMAIN <<e>> :
           <<e>>[i].userID = u /\ \A j \in DOMAIN <<e>> : <<e>>[j].userID = u => j <= i
    BY <2>1
  <2> QED
    BY <2>1, <2>2
<1> QED
  BY <1>1, <1>2 DEF SliceToMap

\* However the lookups interleave with registrations and crashes, a caller gets an
\* error or the whole map.
LEMMA WholeFromInv == IInv => ClientMapWhole
<1> SUFFICES ASSUME IInv, NEW g \in GetCalls, stage[g] = "done"
             PROVE  \A m \in {GetUsersInfoMap(ids[g], got[g]), GetPublicUserInfoMap(ids[g], got[g])} :
                       m.err \/ Whole(g, m.users)
  BY DEF ClientMapWhole
<1> DEFINE r == GetUsersInfo(ids[g], got[g])
           p == GetPublicUserInfos(ids[g], got[g])
<1>1. /\ GetUsersInfoMap(ids[g], got[g]).err = r.err
      /\ GetUsersInfoMap(ids[g], got[g]).users = SliceToMap(r.users)
      /\ GetPublicUserInfoMap(ids[g], got[g]).err = p.err
      /\ GetPublicUserInfoMap(ids[g], got[g]).users = SliceToMap(p.users)
  BY DEF GetUsersInfoMap, GetPublicUserInfoMap, AsMap
<1>2. /\ p.err = r.err
      /\ p.users = [i \in DOMAIN r.users |-> PublicUserInfo(r.users[i])]
  BY DEF GetPublicUserInfos, GetUsersInfo, Failed
<1>3. CASE ids[g] = <<>>
  <2>1. r.users = <<>> /\ p.users = <<>>
    BY <1>2, <1>3 DEF GetUsersInfo
  <2>2. Range(ids[g]) = {}
    BY <1>3 DEF Range
  <2> QED
    BY <1>1, <2>1, <2>2, MapOfNone DEF Whole
<1>4. CASE ids[g] # <<>> /\ ~r.err
  <2>1. got[g].is = "found" /\ r.users = got[g].users
    BY <1>4, OnlyAsked
  <2>2. got[g].users = read[g] /\ Len(read[g]) = Len(ids[g])
    BY <2>1 DEF IInv, LookupInv, FoundAll
  <2>3. read[g] # <<>>
    BY <1>4, <2>2 DEF IInv, TypeOK
  <2>4. PICK d \in docs : /\ d.userID = ids[g][1]
                          /\ read[g] = <<[userID |-> d.userID, nickname |-> d.nickname]>>
    BY <2>3 DEF IInv, LookupInv
  <2> DEFINE e == [userID |-> d.userID, nickname |-> d.nickname]
  <2>5. r.users = <<e>> /\ p.users = <<e>>
    BY <1>2, <2>1, <2>2, <2>4 DEF PublicUserInfo
  <2>6. SliceToMap(<<e>>) = [u \in {e.userID} |-> e]
    BY MapOfOne
  <2>7. Range(ids[g]) = {e.userID}
    <3>1. Len(ids[g]) = 1 /\ ids[g] \in Seq(UserIDs)
      BY <2>2, <2>4 DEF IInv, TypeOK
    <3> QED
      BY <2>4, <3>1 DEF Range
  <2>8. Whole(g, SliceToMap(<<e>>))
    BY <2>6, <2>7 DEF Whole
  <2> QED
    BY <1>1, <2>5, <2>8
<1> QED
  BY <1>1, <1>2, <1>3, <1>4

\* Whatever the processes do meanwhile, the maps of the client are whole or an error.
THEOREM MapWhole == Spec => []ClientMapWhole
  BY WholeFromInv, Inductive, PTL
=============================================================================
