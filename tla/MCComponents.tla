------------------------------- MODULE MCComponents -------------------------------
(* Components that share nothing, each checked by itself: focus is the one  *)
(* that runs, the others stay in their initial states.                      *)
EXTENDS WorkflowDefinition, Worker, OwnedScheduler

VARIABLE focus

componentVars == <<focus, defVars, workerVars, ownedVars>>

DefinitionIdle ==
  DefinitionInit /\ dependsOn = [id \in IDs |-> {}] /\ declared = SetToSortSeq(IDs, <)

Init ==
  /\ focus \in {"definition", "worker", "owned"}
  /\ WorkerInit /\ OwnedInit
  /\ IF focus = "definition" THEN DefinitionInit ELSE DefinitionIdle

Next ==
  /\ \/ focus = "definition" /\ DefinitionNext /\ UNCHANGED <<workerVars, ownedVars>>
     \/ focus = "worker" /\ WorkerNext /\ UNCHANGED <<defVars, ownedVars>>
     \/ focus = "owned" /\ OwnedNext /\ UNCHANGED <<defVars, workerVars>>
  /\ UNCHANGED focus

(* Nothing of WorkerFairness is enabled while the worker is idle. *)
Spec == Init /\ [][Next]_componentVars /\ WorkerFairness
=============================================================================
