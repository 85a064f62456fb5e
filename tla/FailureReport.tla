---------------------------- MODULE FailureReport ----------------------------
(***************************************************************************)
(* What the error path promises the sender of a payment: of a failure it   *)
(* learns the node that reported it and the message, both exactly, or it   *)
(* learns that it cannot tell.  The latter is allowed only if the message  *)
(* does not have the length all messages have, or if the error was spoiled *)
(* on its way back.  The sender's call may panic instead, but only on an   *)
(* error that a hop replaced by bytes which no EncryptError makes.         *)
(***************************************************************************)
CONSTANTS
  Payment,     \* payments of one sender
  Node,        \* routers
  Message,     \* failure messages
  Fitting      \* those of them with the length of a failure message

VARIABLES
  failure,     \* payment -> the failure a node reported
  spoiled,     \* payments whose error was damaged, replaced or mistaken for
               \* another's
  foreign,     \* those whose error was replaced
  report       \* payment -> what the sender made of it

reportVars == <<failure, spoiled, foreign, report>>

NoFailure    == [state |-> "none"]
Failed(m, e) == [state |-> "failed", node |-> m, msg |-> e]
Pending      == [state |-> "pending"]
Unknown      == [state |-> "unknown"]
Panicked     == [state |-> "panicked"]

ReportInit ==
  /\ failure = [p \in Payment |-> NoFailure]
  /\ spoiled = {}
  /\ foreign = {}
  /\ report = [p \in Payment |-> Pending]

Fails(p, m, e) ==
  /\ failure[p] = NoFailure
  /\ failure' = [failure EXCEPT ![p] = Failed(m, e)]
  /\ UNCHANGED <<spoiled, foreign, report>>

Spoil(p) ==
  /\ failure[p] # NoFailure
  /\ report[p] = Pending
  /\ spoiled' = spoiled \cup {p}
  /\ UNCHANGED <<failure, foreign, report>>

\* A hop sends other bytes in place of the error.
Replace(p) ==
  /\ failure[p] # NoFailure
  /\ report[p] = Pending
  /\ spoiled' = spoiled \cup {p}
  /\ foreign' = foreign \cup {p}
  /\ UNCHANGED <<failure, report>>

\* A spoiled error need not be beyond repair.
Reported(p) ==
  /\ failure[p] # NoFailure
  /\ report[p] = Pending
  /\ \/ report' = [report EXCEPT ![p] = failure[p]]
     \/ /\ p \in spoiled \/ failure[p].msg \notin Fitting
        /\ report' = [report EXCEPT ![p] = Unknown]
     \/ /\ p \in foreign
        /\ report' = [report EXCEPT ![p] = Panicked]
  /\ UNCHANGED <<failure, spoiled, foreign>>

ReportNext ==
  \E p \in Payment :
    \/ \E m \in Node, e \in Message : Fails(p, m, e)
    \/ Spoil(p)
    \/ Replace(p)
    \/ Reported(p)

ReportSpec == ReportInit /\ [][ReportNext]_reportVars
=============================================================================
