-------------------------- MODULE JobQueueHandlers --------------------------
(***************************************************************************)
(* The durable queue with a count of what its budget is for: how often the *)
(* handler of a job was begun since the job was last armed.  The rows do   *)
(* not say it.  attempts is raised by a claim before the handler and       *)
(* lowered again by a deferral, and failed settles, panics and restarts    *)
(* come between; the count is of the calls of dispatch_claimed that reach  *)
(* the handler.                                                            *)
(***************************************************************************)
EXTENDS JobQueue

VARIABLE begun

handlerVars == <<vars, begun>>

HandlerInit == Init /\ begun = [j \in Job |-> 0]

Arms(j) == Producer(j) /\ begun' = [begun EXCEPT ![j] = 0]

\* The call that gets to the handler.
Begins(w) == RunHandler(w) /\ begun' = [begun EXCEPT ![worker[w].job] = @ + 1]

Elsewhere ==
  /\ Next
  /\ ~(\E j \in Job : Producer(j)) /\ ~(\E w \in Worker : RunHandler(w))
  /\ UNCHANGED begun

HandlerNext ==
  \/ \E j \in Job : Arms(j)
  \/ \E w \in Worker : Begins(w)
  \/ Elsewhere

HandlerSpec == HandlerInit /\ [][HandlerNext]_handlerVars

-----------------------------------------------------------------------------
\* A handler is begun at most max_attempts times for each arming of its job,
\* and no deferral, failed settle, panic or restart gives an attempt back that
\* a handler has used: what it did outside the database is done so often.
HandlerIsBounded ==
  \A j \in Job : begun[j] <= row[j].attempts /\ row[j].attempts <= Budget(j)

=============================================================================
