--------------------------- MODULE NodeWriteback ---------------------------
(***************************************************************************)
(* What a canvas node shows of the Tasks run for it.                       *)
(*                                                                         *)
(* A Task is created under the lock of its node's row; created_at is the   *)
(* start of the creating transaction, which may have waited for the lock.  *)
(* A Task that ends locks the node, looks for a newer Task and writes its  *)
(* result into the node's data, all in the transaction that ends it.       *)
(* NodeService reads, merges and saves a node in separate statements, and  *)
(* deleting a node clears source_node_id of its Tasks.                     *)
(***************************************************************************)
EXTENDS Naturals, FiniteSets

CONSTANTS Tasks, Savers, None

VARIABLES
    node,  \* canvas_nodes.data, or None when the row is deleted
    task,  \* canvas.tasks of this node
    order, \* the Tasks by created_at: the first transaction first
    ending,\* the terminal transaction that holds the node's row, or None
    copy,  \* the data each saver has read and will write
    overwritten \* history: a save put back data from before a result

vars == <<node, task, order, ending, copy, overwritten>>

Ended == {"succeeded", "failed", "cancelled"}
DataType == [output : Tasks \cup {None}, failure : Tasks \cup {None}]
TaskType == [status : {"none", "creating", "refused", "active"} \cup Ended,
             bound : BOOLEAN] \* source_node_id is the node

Init ==
    /\ node = [output |-> None, failure |-> None]
    /\ task = [t \in Tasks |-> [status |-> "none", bound |-> FALSE]]
    /\ order = [t \in Tasks |-> 0]
    /\ ending = None
    /\ copy = [s \in Savers |-> None]
    /\ overwritten = FALSE

Unlocked == ending = None
Older(t, u) == order[t] < order[u]
\* The Tasks another transaction can see.
Committed == {t \in Tasks : task[t].status \notin {"none", "creating", "refused"}}
NewerActive(t) == \* mutant: only running Tasks count
    {u \in Committed : task[u].bound /\ Older(t, u) /\ task[u].status = "active"}
NewerTasks(t) == {u \in Committed : task[u].bound /\ Older(t, u)}

-----------------------------------------------------------------------------
(* TaskService.create for a source node: a transaction. *)

BeginCreate(t) ==
    /\ task[t].status = "none"
    /\ task' = [task EXCEPT ![t].status = "creating"]
    /\ order' = [order EXCEPT ![t] = 1 + Cardinality({u \in Tasks : task[u].status # "none"})]
    /\ UNCHANGED <<node, ending, copy, overwritten>>

\* FOR UPDATE OF n waits for the row; a node that is gone refuses the Task.
Create(t) ==
    /\ task[t].status = "creating" /\ Unlocked
    /\ task' = [task EXCEPT ![t] = IF node = None THEN [status |-> "refused", bound |-> FALSE]
                                   ELSE [status |-> "active", bound |-> TRUE]]
    /\ UNCHANGED <<node, order, ending, copy, overwritten>>

\* The owner runs a failed or cancelled Task again, with the created_at it has.
Retry(t) ==
    /\ task[t].status \in {"failed", "cancelled"}
    /\ task' = [task EXCEPT ![t].status = "active"]
    /\ UNCHANGED <<node, order, ending, copy, overwritten>>

-----------------------------------------------------------------------------
(* TaskTerminalService with applyTaskTerminalProjection, one transaction. *)

\* The Task ends; a bound one takes the node's row.
EndTask(t, st) ==
    /\ task[t].status = "active" /\ (task[t].bound => Unlocked)
    /\ task' = [task EXCEPT ![t].status = st]
    /\ ending' = IF task[t].bound THEN t ELSE ending
    /\ UNCHANGED <<node, order, copy, overwritten>>

\* What the Task leaves in the data.
Projected(data, t) ==
    CASE task[t].status = "succeeded" -> [output |-> t, failure |-> None]
      [] task[t].status = "failed"    -> [data EXCEPT !.failure = t]
      [] OTHER                        -> data

Project ==
    /\ ending # None
    /\ node' = IF NewerTasks(ending) = {} THEN Projected(node, ending) ELSE node
    /\ ending' = None
    /\ UNCHANGED <<task, order, copy, overwritten>>

-----------------------------------------------------------------------------
(* The data written by clients: NodeService.update and batchUpdate (read,   *)
(* merge, save), CanvasService.replace and restore (data read earlier).     *)

ReadNode(s) ==
    /\ copy[s] = None /\ node # None
    /\ copy' = [copy EXCEPT ![s] = node]
    /\ UNCHANGED <<node, task, order, ending, overwritten>>

\* TypeORM compares the entity with the row as it is now and writes what differs.
SaveNode(s) ==
    /\ copy[s] # None /\ node # None /\ Unlocked
    /\ node' = copy[s]
    /\ overwritten' = (overwritten \/ node # copy[s])
    /\ copy' = [copy EXCEPT ![s] = None]
    /\ UNCHANGED <<task, order, ending>>

\* Deleting the row waits for its lock and unbinds the Tasks.
DeleteNode ==
    /\ node # None /\ Unlocked
    /\ node' = None
    /\ task' = [t \in Tasks |-> [task[t] EXCEPT !.bound = FALSE]]
    /\ UNCHANGED <<order, ending, copy, overwritten>>

\* An undo or a restore brings the node back under its id.
PutBack(s) ==
    /\ node = None /\ copy[s] # None
    /\ node' = copy[s]
    /\ copy' = [copy EXCEPT ![s] = None]
    /\ UNCHANGED <<task, order, ending, overwritten>>

Next ==
    \/ \E t \in Tasks : BeginCreate(t) \/ Create(t) \/ Retry(t)
    \/ \E t \in Tasks, st \in Ended : EndTask(t, st)
    \/ Project
    \/ \E s \in Savers : ReadNode(s) \/ SaveNode(s) \/ PutBack(s)
    \/ DeleteNode

Spec == Init /\ [][Next]_vars

-----------------------------------------------------------------------------
\* The variables have their types.
TypeOK ==
    /\ node = None \/ node \in DataType
    /\ task \in [Tasks -> TaskType]
    /\ order \in [Tasks -> 0..Cardinality(Tasks)]
    /\ ending \in Tasks \cup {None}
    /\ \A s \in Savers : copy[s] = None \/ copy[s] \in DataType
    /\ overwritten \in BOOLEAN

\* Once the newest Task of a node has succeeded and its transaction is over, the
\* node holds its result, in whatever order the older ones end, unless a save put
\* older data back (applyTaskTerminalProjection).
NewestResultShown ==
    \A t \in Committed :
        /\ task[t].bound /\ task[t].status = "succeeded"
        /\ \A u \in Committed : task[u].bound => ~Older(t, u)
        /\ ending # t /\ node # None
        => node.output = t \/ overwritten
=============================================================================
