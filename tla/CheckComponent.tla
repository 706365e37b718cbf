--------------------------- MODULE CheckComponent ---------------------------
(***************************************************************************)
(* tools/check-component: before the servers are started it asks MongoDB,  *)
(* and etcd if that is the registry, whether they answer, and asks again   *)
(* those that did not, up to MaxRetry times.  The components come and go   *)
(* meanwhile, and Go visits the map of the checks in any order.            *)
(***************************************************************************)
EXTENDS Naturals

CONSTANTS Registries,   \* the values of discovery.Enable
          MaxRetry      \* maxRetry

ASSUME ConstantsOK == MaxRetry \in Nat \ {0}

Components == {"Mongo", "Redis", "Etcd"}

VARIABLES
    enable,      \* discovery.Enable
    up,          \* the components that would answer now
    checksDone,  \* the checks that have succeeded
    i,           \* how many attempts are over
    todo,        \* what is left of this attempt
    allSuccess,  \* no check of this attempt has failed
    at,          \* where main is
    outcome,     \* what the program printed in the end
    answered,    \* the components that have ever answered a check (history)
    refused      \* refused[c]: how often c failed its check (history)

world == <<enable, up>>
history == <<answered, refused>>
vars == <<world, checksDone, i, todo, allSuccess, at, outcome, history>>

checks == {"Mongo", "Redis"} \cup (IF enable = "etcd" THEN {"Etcd"} ELSE {})

Init ==
    /\ enable \in Registries
    /\ up \in SUBSET Components
    /\ checksDone = {} /\ i = 0 /\ todo = {} /\ allSuccess = TRUE
    /\ at = "initConfig" /\ outcome = "running"
    /\ answered = {} /\ refused = [c \in Components |-> 0]

\* A component stops answering, or answers again.
Change(c) ==
    /\ outcome = "running"
    /\ up' = IF c \in up THEN up \ {c} ELSE up \cup {c}
    /\ UNCHANGED <<enable, checksDone, i, todo, allSuccess, at, outcome, history>>

\* A file that cannot be read ends the program.
InitConfig ==
    /\ at = "initConfig"
    /\ \/ at' = "attempt" /\ UNCHANGED outcome
       \/ at' = "over" /\ outcome' = "no config"
    /\ UNCHANGED <<world, checksDone, i, todo, allSuccess, history>>

\* MUTANT of Remaining: every attempt checks everything again.
RemainingAll == checks

Remaining == checks \ checksDone

\* MUTANT of Attempt: one attempt too many.
AttemptOnceMore ==
    /\ at = "attempt"
    /\ at' = "check"
    /\ todo' = Remaining
    /\ allSuccess' = TRUE
    /\ UNCHANGED <<world, checksDone, i, outcome, history>>

\* MUTANT of Attempt: it waits for a component that answers.
AttemptWaits ==
    /\ at = "attempt" /\ i < MaxRetry /\ Remaining \cap up # {}
    /\ at' = "check"
    /\ todo' = Remaining
    /\ allSuccess' = TRUE
    /\ UNCHANGED <<world, checksDone, i, outcome, history>>

Attempt ==
    /\ at = "attempt" /\ i < MaxRetry
    /\ at' = "check"
    /\ todo' = Remaining
    /\ allSuccess' = TRUE
    /\ UNCHANGED <<world, checksDone, i, outcome, history>>

\* CheckRedis returns nil without asking.
Succeeds(c) == c = "Redis" \/ c \in up

\* MUTANT of Failed: the failure is printed only.
FailedPrinted == UNCHANGED allSuccess

Failed == allSuccess' = FALSE

Check(c) ==
    /\ at = "check" /\ c \in todo
    /\ todo' = todo \ {c}
    /\ IF Succeeds(c)
          THEN /\ checksDone' = checksDone \cup {c}
               /\ answered' = answered \cup {c}
               /\ UNCHANGED <<allSuccess, refused>>
          ELSE /\ Failed
               /\ refused' = [refused EXCEPT ![c] = @ + 1]
               /\ UNCHANGED <<checksDone, answered>>
    /\ UNCHANGED <<world, i, at, outcome>>

AllPassed ==
    /\ at = "check" /\ todo = {} /\ allSuccess
    /\ at' = "over" /\ outcome' = "passed"
    /\ UNCHANGED <<world, checksDone, i, todo, allSuccess, history>>

\* The end of an attempt in which a check failed: time.Sleep(1 * time.Second).
Sleep ==
    /\ at = "check" /\ todo = {} /\ ~allSuccess
    /\ at' = "attempt" /\ i' = i + 1
    /\ UNCHANGED <<world, checksDone, todo, allSuccess, outcome, history>>

GiveUp ==
    /\ at = "attempt" /\ i = MaxRetry
    /\ at' = "over" /\ outcome' = "failed"
    /\ UNCHANGED <<world, checksDone, i, todo, allSuccess, history>>

PerformChecks ==
    \/ Attempt \/ AllPassed \/ Sleep \/ GiveUp
    \/ \E c \in checks : Check(c)

Next ==
    \/ InitConfig \/ PerformChecks
    \/ \E c \in Components : Change(c)

Spec == Init /\ [][Next]_vars

\* Every check returns: the clients of MongoDB and etcd have timeouts of their own.
LiveSpec == Spec /\ WF_vars(InitConfig) /\ WF_vars(PerformChecks)

-----------------------------------------------------------------------------
(* Properties *)

\* Every variable holds a value of its type.
TypeOK ==
    /\ enable \in Registries
    /\ up \subseteq Components
    /\ checksDone \subseteq checks /\ todo \subseteq checks
    /\ i \in 0..MaxRetry
    /\ allSuccess \in BOOLEAN
    /\ at \in {"initConfig", "attempt", "check", "over"}
    /\ outcome \in {"running", "no config", "passed", "failed"}
    /\ answered \subseteq checks
    /\ refused \in [Components -> 0..MaxRetry]

\* "All components checks passed successfully" is printed only when each check
\* of the registry in use has succeeded, in this attempt or in an earlier one.
PassedMeansAnswered == outcome = "passed" => checks \subseteq answered

\* The program gives up only on a component that refused every single attempt:
\* components that take turns in failing do not add up to a failure.
FailedMeansRefused ==
    outcome = "failed" => \E c \in checks : refused[c] = MaxRetry

\* However the components come and go, the program ends.
Ends == <>(outcome # "running")

\* The inductive invariant behind both: during an attempt, a check that has not
\* succeeded has failed in all the attempts before, and in this one too if it
\* is no longer to do.
IInv ==
    /\ TypeOK
    /\ checksDone = answered
    /\ at = "initConfig" => i = 0 /\ todo = {} /\ outcome = "running"
    /\ at = "attempt" => outcome = "running" /\ todo = {}
    /\ at = "check" => i < MaxRetry /\ outcome = "running" /\ todo \cap checksDone = {}
    /\ at # "over" =>
          \A c \in checks \ checksDone :
             refused[c] = IF at = "check" /\ c \notin todo THEN i + 1 ELSE i
    /\ at = "check" /\ allSuccess => checks \ checksDone \subseteq todo
    /\ at = "check" /\ ~allSuccess => ~(checks \subseteq checksDone \cup todo)
    /\ at = "attempt" /\ i > 0 => ~(checks \subseteq checksDone)
    /\ outcome = "passed" => checks \subseteq answered
    /\ outcome = "failed" => \E c \in checks : refused[c] = MaxRetry
=============================================================================
