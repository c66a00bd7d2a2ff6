------------------------------ MODULE WorkQueue ------------------------------
(***************************************************************************)
(* The work queue of a resource controller.  Whether a resource is in it   *)
(* decides nothing of what a pass does, only that there will be another    *)
(* one, so the queue is in none of the modules of the kinds: it is a       *)
(* history variable, queued, that the modules with the liveness properties *)
(* (...Live) add to them.                                                  *)
(*                                                                         *)
(* A resource gets into the queue when its generation changes: it is       *)
(* created, its Spec is written or its deletion is requested.  A pass      *)
(* takes it out and puts it back when it ends, at once or later, after a   *)
(* failure, a wait or a success (the resync), and a controller that died   *)
(* finds it again.  The one end after which nothing comes back is that of  *)
(* a pass which was refused for good (ackerr.Terminal): then only another  *)
(* generation leads to a pass that can be counted on.  Others may happen,  *)
(* after a restart say, but are not to be waited for.                      *)
(***************************************************************************)

\* Whether the resource is in the queue after a step in which its generation changed, if edited,
\* and the pass over it went on from one of its stages to another.
QueuedAfter(queued, edited, from, to) ==
  \/ edited
  \/ from \notin {"idle", "patchTerminal"} /\ to = "idle"
  \/ queued /\ ~(from = "idle" /\ to # "idle")
=============================================================================
