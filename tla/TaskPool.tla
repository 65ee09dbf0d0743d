------------------------------ MODULE TaskPool ------------------------------
(***************************************************************************)
(* What a training service promises its workers, with no threads, caches,  *)
(* databases or messages: every article that was queued stays pending      *)
(* until it is finished, is finished once, and is never handed out twice   *)
(* after that.  Only a service that is restarting may miss that an article *)
(* was finished; such an article may leave the pool unfinished.            *)
(***************************************************************************)
EXTENDS Naturals

CONSTANTS Urls, Pending0, Finished0

VARIABLES pending, finished,
          missed, \* finished while the service could not take note
          phase,  \* "starting", then "serving" and "restarting" by turns
          again   \* how often each url was handed out after it was finished

pvars == <<pending, finished, missed, phase, again>>

PInit ==
  /\ pending = Pending0
  /\ finished = Finished0
  /\ missed = {}
  /\ phase = "starting"
  /\ again = [u \in Urls |-> 0]

(* An article is finished: from then on it is not pending any more.        *)
Finish(u) ==
  /\ u \in pending \cup missed
  /\ pending' = pending \ {u}
  /\ finished' = finished \cup {u}
  /\ missed' = missed \ {u}
  /\ UNCHANGED <<phase, again>>

(* A restarting service does not note that an article is finished.         *)
Miss(u) ==
  /\ phase = "restarting"
  /\ u \notin finished
  /\ missed' = missed \cup {u}
  /\ UNCHANGED <<pending, finished, phase, again>>

(* An article whose end was missed is dropped.                             *)
Drop(u) ==
  /\ u \in missed
  /\ pending' = pending \ {u}
  /\ UNCHANGED <<finished, missed, phase, again>>

(* Handing out a pending article changes nothing here; a finished one may  *)
(* be handed out by mistake, but only once.                                *)
HandOutAgain(u) ==
  /\ u \in finished
  /\ again[u] = 0
  /\ again' = [again EXCEPT ![u] = 1]
  /\ UNCHANGED <<pending, finished, missed, phase>>

Serve ==
  /\ phase # "serving"
  /\ phase' = "serving"
  /\ UNCHANGED <<pending, finished, missed, again>>
Fail ==
  /\ phase # "restarting"
  /\ phase' = "restarting"
  /\ UNCHANGED <<pending, finished, missed, again>>

PNext ==
  \/ Serve \/ Fail
  \/ \E u \in Urls : Finish(u) \/ Miss(u) \/ Drop(u) \/ HandOutAgain(u)

PSpec == PInit /\ [][PNext]_pvars
=============================================================================
