---------------------------- MODULE JobContract ----------------------------
(***************************************************************************)
(* What the durable queue promises to the producers of jobs and to their   *)
(* handlers, without its rows, retries of storage calls or start order: an *)
(* armed job is worked on by one holder at a time, at most Budget times    *)
(* per arming; only its holder decides how it ends; a job whose holder is  *)
(* gone waits as an orphan until a restart finds nobody at work and either *)
(* queues it again or, its budget spent, gives it up.                      *)
(***************************************************************************)
EXTENDS Naturals

CONSTANTS Job, Worker, Nobody, Limit, Exclusive

VARIABLES phase, spent, holder

vars == <<phase, spent, holder>>

Phase == {"none", "queued", "held", "orphaned", "done", "dead"}

TypeOK ==
  /\ phase \in [Job -> Phase]
  /\ spent \in [Job -> Nat]
  /\ holder \in [Job -> Worker \cup {Nobody}]

Busy == {"held", "orphaned"}
Excluded(j) == \E k \in Job : phase[k] \in Busy /\ (<<j, k>> \in Exclusive \/ <<k, j>> \in Exclusive)

Arm(j) ==
  /\ phase[j] \notin Busy
  /\ phase' = [phase EXCEPT ![j] = "queued"]
  /\ spent' = [spent EXCEPT ![j] = 0]
  /\ UNCHANGED holder

Take(w, j) ==
  /\ phase[j] = "queued" /\ spent[j] < Limit[j] /\ ~Excluded(j)
  /\ \A k \in Job : holder[k] # w
  /\ phase' = [phase EXCEPT ![j] = "held"]
  /\ spent' = [spent EXCEPT ![j] = @ + 1]
  /\ holder' = [holder EXCEPT ![j] = w]

\* The holder lets go of the job: done, given up, to be retried, or returned
\* without having counted.
LetGo(w, j) ==
  /\ holder[j] = w
  /\ holder' = [holder EXCEPT ![j] = Nobody]
  /\ \/ phase' = [phase EXCEPT ![j] = "done"] /\ UNCHANGED spent
     \/ spent[j] = Limit[j] /\ phase' = [phase EXCEPT ![j] = "dead"] /\ UNCHANGED spent
     \/ spent[j] < Limit[j] /\ phase' = [phase EXCEPT ![j] = "queued"] /\ UNCHANGED spent
     \/ phase' = [phase EXCEPT ![j] = "queued"] /\ spent' = [spent EXCEPT ![j] = @ - 1]
     \/ phase' = [phase EXCEPT ![j] = "orphaned"] /\ UNCHANGED spent

Restart ==
  /\ phase' = [j \in Job |-> IF phase[j] = "held" THEN "orphaned" ELSE phase[j]]
  /\ holder' = [j \in Job |-> Nobody]
  /\ UNCHANGED spent

Unattended == \A j \in Job : holder[j] = Nobody

GiveUp ==
  /\ Unattended
  /\ phase' = [j \in Job |->
       IF phase[j] = "orphaned" /\ spent[j] = Limit[j] THEN "dead" ELSE phase[j]]
  /\ UNCHANGED <<spent, holder>>

Recover ==
  /\ Unattended
  /\ \A j \in Job : phase[j] = "orphaned" => spent[j] < Limit[j]
  /\ phase' = [j \in Job |-> IF phase[j] = "orphaned" THEN "queued" ELSE phase[j]]
  /\ UNCHANGED <<spent, holder>>

Init ==
  /\ phase = [j \in Job |-> "none"]
  /\ spent = [j \in Job |-> 0]
  /\ holder = [j \in Job |-> Nobody]

Next ==
  \/ \E j \in Job : Arm(j) \/ \E w \in Worker : Take(w, j) \/ LetGo(w, j)
  \/ Restart \/ GiveUp \/ Recover

Spec == Init /\ [][Next]_vars
=============================================================================
