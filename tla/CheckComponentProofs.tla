------------------------ MODULE CheckComponentProofs ------------------------
(***************************************************************************)
(* Proofs about CheckComponent, for every number of attempts: IInv is      *)
(* inductive, and the two verdicts of the program follow from it.          *)
(***************************************************************************)
EXTENDS CheckComponent, TLAPS

\* Before the first attempt nobody was refused.
LEMMA Initially == Init => IInv
  BY ConstantsOK DEF Init, IInv, TypeOK, checks, Components

\* IInv survives every step of main and every change of a component.
LEMMA Step == IInv /\ [Next]_vars => IInv'
<1> SUFFICES ASSUME IInv, [Next]_vars PROVE IInv'
  OBVIOUS
<1> USE ConstantsOK
<1>0. UNCHANGED enable => checks' = checks
  BY DEF checks
<1>1. CASE UNCHANGED vars
  BY <1>0, <1>1 DEF IInv, TypeOK, vars, world, history
<1>2. CASE InitConfig
  <2>1. checks' = checks /\ checks # {}
    BY <1>0, <1>2 DEF InitConfig, world, checks
  <2>2. CASE at' = "attempt"
    BY <1>2, <2>1, <2>2 DEF InitConfig, IInv, TypeOK, world, history
  <2>3. CASE at' = "over" /\ outcome' = "no config"
    BY <1>2, <2>1, <2>3 DEF InitConfig, IInv, TypeOK, world, history
  <2> QED
    BY <1>2, <2>2, <2>3 DEF InitConfig
<1>3. CASE Attempt
  BY <1>0, <1>3 DEF Attempt, Remaining, IInv, TypeOK, world, history
<1>4. CASE AllPassed
  BY <1>0, <1>4 DEF AllPassed, IInv, TypeOK, world, history
<1>5. CASE Sleep
  BY <1>0, <1>5 DEF Sleep, IInv, TypeOK, world, history
<1>6. CASE GiveUp
  BY <1>0, <1>6 DEF GiveUp, IInv, TypeOK, world, history
<1>7. ASSUME NEW c \in checks, Check(c) PROVE IInv'
  <2>1. c \in Components /\ i < MaxRetry
    BY <1>7 DEF Check, IInv, checks, Components
  <2>2. CASE Succeeds(c)
    BY <1>0, <1>7, <2>1, <2>2 DEF Check, IInv, TypeOK, world
  <2>3. CASE ~Succeeds(c)
    <3>1. /\ checks' = checks /\ at = "check" /\ at' = "check" /\ i' = i /\ i \in 0..MaxRetry
          /\ c \in todo /\ todo' = todo \ {c} /\ allSuccess' = FALSE
          /\ checksDone' = checksDone /\ answered' = answered /\ c \notin checksDone
          /\ refused \in [Components -> 0..MaxRetry]
          /\ refused' = [refused EXCEPT ![c] = @ + 1]
          /\ outcome' = "running" /\ enable' = enable /\ up' = up
      BY <1>0, <1>7, <2>1, <2>3 DEF Check, Failed, IInv, TypeOK, world
    <3>2. refused[c] = i
      BY <3>1 DEF IInv
    <3>3. refused' \in [Components -> 0..MaxRetry] /\ refused'[c] = i + 1
      BY <2>1, <3>1, <3>2
    <3>4. TypeOK'
      BY <3>1, <3>3 DEF IInv, TypeOK
    <3>5. \A d \in checks \ checksDone : refused'[d] = IF d \in todo \ {c} THEN i ELSE i + 1
      BY <2>1, <3>1, <3>3 DEF IInv, checks, Components
    <3> QED
      BY <2>1, <3>1, <3>4, <3>5 DEF IInv
  <2> QED
    BY <2>2, <2>3
<1>8. ASSUME NEW c \in Components, Change(c) PROVE IInv'
  BY <1>0, <1>8 DEF Change, IInv, TypeOK, history
<1> QED
  BY <1>1, <1>2, <1>3, <1>4, <1>5, <1>6, <1>7, <1>8 DEF Next, PerformChecks

\* main keeps the types and the account of who refused how often.
THEOREM Accounts == Spec => []IInv
  BY Initially, Step, PTL DEF Spec

\* For any maxRetry: "passed" is printed only when every check has succeeded.
THEOREM Passed == Spec => []PassedMeansAnswered
<1>1. IInv => PassedMeansAnswered
  BY DEF IInv, PassedMeansAnswered
<1> QED
  BY Accounts, <1>1, PTL

\* For any maxRetry: the program gives up only on a component that refused every
\* attempt, whatever the order of the checks and the changes between them.
THEOREM Refused == Spec => []FailedMeansRefused
<1>1. IInv => FailedMeansRefused
  BY DEF IInv, FailedMeansRefused
<1> QED
  BY Accounts, <1>1, PTL
=============================================================================
