-------------------------- MODULE PlacementService ---------------------------
(***************************************************************************)
(* What the dispatcher and the arm promise together, with no line between  *)
(* them: jobs are issued one after the other, the arm moves for each at    *)
(* most once, in the order they were issued and one at a time, and success *)
(* is reported only for a job whose motion has ended well, a fault only    *)
(* for one whose motion has failed.  Any other report says nothing: the    *)
(* motion may still come, run or be over.                                  *)
(***************************************************************************)
EXTENDS Integers

CONSTANT MaxJobs   \* a number

Jobs == 1 .. MaxJobs

VARIABLES opened,    \* number of jobs issued
          closed,    \* jobs the dispatcher has given a verdict on
          succeeded, \* those it reported placed
          faulted,   \* those it reported failed by the arm
          begun,     \* jobs the arm has moved for
          moving,    \* the job the arm moves for, 0 if none
          done,      \* jobs whose motion ended well
          broken     \* jobs whose motion failed

serviceVars == <<opened, closed, succeeded, faulted, begun, moving, done, broken>>

Init ==
  /\ opened = 0 /\ moving = 0
  /\ closed = {} /\ succeeded = {} /\ faulted = {}
  /\ begun = {} /\ done = {} /\ broken = {}

\* The next job is issued when the one before has its verdict.
Open ==
  /\ opened < MaxJobs
  /\ opened = 0 \/ opened \in closed
  /\ opened' = opened + 1
  /\ UNCHANGED <<closed, succeeded, faulted, begun, moving, done, broken>>

\* The arm begins to move for an issued job, never again for one it has moved
\* for, and for none that is older than one it has moved for.
Begin(n) ==
  /\ moving = 0
  /\ n \in 1 .. opened
  /\ \A m \in begun : m < n
  /\ begun' = begun \cup {n}
  /\ moving' = n
  /\ UNCHANGED <<opened, closed, succeeded, faulted, done, broken>>

End(ok) ==
  /\ moving # 0
  /\ moving' = 0
  /\ done' = IF ok THEN done \cup {moving} ELSE done
  /\ broken' = IF ok THEN broken ELSE broken \cup {moving}
  /\ UNCHANGED <<opened, closed, succeeded, faulted, begun>>

\* The verdict on the job issued last.
Close ==
  /\ opened # 0 /\ opened \notin closed
  /\ closed' = closed \cup {opened}
  /\ \/ opened \in done /\ succeeded' = succeeded \cup {opened} /\ UNCHANGED faulted
     \/ opened \in broken /\ faulted' = faulted \cup {opened} /\ UNCHANGED succeeded
     \/ UNCHANGED <<succeeded, faulted>>
  /\ UNCHANGED <<opened, begun, moving, done, broken>>

Next == Open \/ (\E n \in Jobs : Begin(n)) \/ (\E ok \in BOOLEAN : End(ok)) \/ Close

Spec == Init /\ [][Next]_serviceVars
=============================================================================
