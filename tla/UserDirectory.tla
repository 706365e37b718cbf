--------------------------- MODULE UserDirectory ---------------------------
(***************************************************************************)
(* What the user service promises to its callers, whatever happens inside: *)
(* a directory that gives a userID to the first registration that reaches  *)
(* it and never takes it back, and answers about it that are true.         *)
(*                                                                         *)
(* A registration is not atomic.  Its users enter the directory one at a   *)
(* time, and may still enter after the caller was told of an error or lost *)
(* its connection.  "ok" is the answer that promises: every user of the    *)
(* batch is in, and it is this call that put it there.                     *)
(***************************************************************************)
EXTENDS Naturals, Sequences

CONSTANTS UserIDs,        \* every string a request may carry as a userID
          Nicknames,
          RegisterCalls,  \* UserRegister invocations, retries included
          GetCalls,       \* GetDesignateUsers invocations
          Batches,        \* the user lists a registration may carry
          Unregistered    \* marks a userID nobody holds

VARIABLES dir,     \* dir[u]: who registered u, and the nickname it gave
          told,    \* told[c]: what the caller of registration c was answered
          got      \* got[g]: what the caller of lookup g was answered

vars == <<dir, told, got>>

Holder == [by : RegisterCalls, nickname : Nicknames]

TypeOK ==
    /\ dir \in [UserIDs -> Holder \cup {Unregistered}]
    /\ told \in [RegisterCalls -> {"none", "ok", "args", "error", "lost"}]
    /\ got \in [GetCalls -> [is : {"none", "found", "notfound", "error", "lost"},
                             users : Seq([userID : UserIDs, nickname : Nicknames])]]

NoAnswer == [is |-> "none", users |-> <<>>]

Init ==
    /\ dir = [u \in UserIDs |-> Unregistered]
    /\ told = [c \in RegisterCalls |-> "none"]
    /\ got = [g \in GetCalls |-> NoAnswer]

\* A free userID goes to the first call that asks for it.  A call that was
\* refused its arguments, or has been told "ok", adds nothing any more.
Enrol(c, u, n) ==
    /\ dir[u] = Unregistered
    /\ told[c] \notin {"ok", "args"}
    /\ dir' = [dir EXCEPT ![u] = [by |-> c, nickname |-> n]]
    /\ UNCHANGED <<told, got>>

Holds(c, user) == dir[user.userID] = [by |-> c, nickname |-> user.nickname]

Acknowledge(c) ==
    /\ told[c] = "none"
    /\ \E b \in Batches : b # <<>> /\ \A i \in DOMAIN b : Holds(c, b[i])
    /\ told' = [told EXCEPT ![c] = "ok"]
    /\ UNCHANGED <<dir, got>>

\* Refused arguments promise that the call left no trace.
Refuse(c) ==
    /\ told[c] = "none"
    /\ \A u \in UserIDs : dir[u] # Unregistered => dir[u].by # c
    /\ told' = [told EXCEPT ![c] = "args"]
    /\ UNCHANGED <<dir, got>>

\* A failure or a lost connection promises nothing about the batch.
Disappoint(c) ==
    /\ told[c] = "none"
    /\ \E answer \in {"error", "lost"} : told' = [told EXCEPT ![c] = answer]
    /\ UNCHANGED <<dir, got>>

AnswerFound(g, u) ==
    /\ got[g] = NoAnswer
    /\ dir[u] # Unregistered
    /\ got' = [got EXCEPT ![g] =
                 [is |-> "found",
                  users |-> <<[userID |-> u, nickname |-> dir[u].nickname]>>]]
    /\ UNCHANGED <<dir, told>>

AnswerNothing(g) ==
    /\ got[g] = NoAnswer
    /\ \E why \in {"notfound", "error", "lost"} :
          got' = [got EXCEPT ![g] = [is |-> why, users |-> <<>>]]
    /\ UNCHANGED <<dir, told>>

\* One process that stops may cut off several callers at once.
CutOff(C, G) ==
    /\ \A c \in C : told[c] = "none"
    /\ \A g \in G : got[g] = NoAnswer
    /\ told' = [c \in RegisterCalls |-> IF c \in C THEN "lost" ELSE told[c]]
    /\ got' = [g \in GetCalls |->
                 IF g \in G THEN [is |-> "lost", users |-> <<>>] ELSE got[g]]
    /\ UNCHANGED dir

Next ==
    \/ \E c \in RegisterCalls :
          \/ \E u \in UserIDs, n \in Nicknames : Enrol(c, u, n)
          \/ Acknowledge(c)
          \/ Refuse(c)
          \/ Disappoint(c)
    \/ \E g \in GetCalls :
          \/ \E u \in UserIDs : AnswerFound(g, u)
          \/ AnswerNothing(g)
    \/ \E C \in SUBSET RegisterCalls, G \in SUBSET GetCalls : CutOff(C, G)

Spec == Init /\ [][Next]_vars
=============================================================================
