---------------------------- MODULE NodePolling ----------------------------
(***************************************************************************)
(* How a browser follows the Task of one node: useNodeRunner,              *)
(* useCanvasTaskResume and the process-wide task-poll-manager.             *)
(*                                                                         *)
(* A click begins a submission with a generation of its own and ends the   *)
(* poll of the one before; the answers to the requests it makes arrive     *)
(* later, in any order with those of other submissions, of polls and of    *)
(* the list read when the project is opened.                               *)
(***************************************************************************)
EXTENDS Naturals, FiniteSets

CONSTANTS
    Tasks,
    MaxGeneration, \* bound: submissions and resumed polls
    MaxVisits,     \* bound: how often the project is opened
    None

VARIABLES
    server,  \* the Tasks as the server has them
    born,    \* the Tasks of the node in the order of their creation
    shown,   \* task_id and status in the canvas store; None: not loaded
    undo,    \* the node data an undo brings back
    gen,     \* nextGeneration
    current, \* submissions: the current generation of the node, or 0
    lastSub, \* lastSubmissionGeneration
    calls,   \* generation -> the submission under way
    poll,    \* polls: the entry of the node, or None
    answers, \* the answers of detail() on their way
    resume,  \* the list() of this visit: its boundary and answer
    visits,
    author,  \* history: the generation that wrote the node's Task last
    dropped  \* history: the poll of a live Task was given up

vars == <<server, born, shown, undo, gen, current, lastSub, calls, poll, answers,
          resume, visits, author, dropped>>

Live == {"queued", "running"}
Terminal == {"succeeded", "failed", "cancelled"}
Statuses == Live \cup Terminal
Generations == 1..MaxGeneration
NodeData == [task : Tasks \cup {None}, status : Statuses \cup {None}]
Blank == [task |-> None, status |-> None]
NoCall == [at |-> "none", task |-> None]
CallType == [at : {"none", "schema", "create", "created"}, task : Tasks \cup {None}]
Entry == [task : Tasks, gen : Generations]
ListType == [at : {"none", "list", "listed"}, boundary : 0..MaxGeneration,
             task : Tasks \cup {None}, status : Statuses \cup {None}]
NoList == [at |-> "none", boundary |-> 0, task |-> None, status |-> None]

Init ==
    /\ server = [t \in Tasks |-> None] /\ born = [t \in Tasks |-> 0]
    /\ shown = None /\ undo = None
    /\ gen = 0 /\ current = 0 /\ lastSub = 0
    /\ calls = [g \in Generations |-> NoCall]
    /\ poll = None /\ answers = {} /\ resume = NoList
    /\ visits = 0 /\ author = 0 /\ dropped = FALSE

Loaded == shown # None
Newest(t) == \A u \in Tasks : born[u] <= born[t]

IsCurrent(g) == current = g
IsEntryCurrent(e) == poll = e /\ IsCurrent(e.gen)
clientPoll == <<gen, current, lastSub, poll>>

\* patchNodeData, by generation g; a node that is not loaded is left alone.
Patch(g, data) ==
    /\ shown' = IF Loaded THEN data ELSE shown
    /\ author' = IF Loaded THEN g ELSE author

\* startNodeTaskPoll keeps the submission current.
StartPollInvalidated(t, g) == poll' = [task |-> t, gen |-> g] /\ current' = 0 \* mutant
StartPoll(t, g) == poll' = [task |-> t, gen |-> g] /\ current' = g

-----------------------------------------------------------------------------
(* submit. *)

\* beginNodeSubmission ends the poll before it.
BeginSubmission ==
    /\ gen' = gen + 1 /\ current' = gen + 1 /\ lastSub' = gen + 1
    /\ poll' = None

Submit ==
    /\ Loaded /\ gen < MaxGeneration
    /\ BeginSubmission
    /\ calls' = [calls EXCEPT ![gen + 1] = [at |-> "schema", task |-> None]]
    /\ UNCHANGED <<server, born, shown, undo, answers, resume, visits, dropped, author>>

\* modelApi.schema has answered or failed; what is missing abandons the click.
Abandon(g) ==
    /\ calls[g].at = "schema" /\ IsCurrent(g)
    /\ calls' = [calls EXCEPT ![g] = NoCall]
    /\ current' = 0
    /\ dropped' = (dropped \/ (Loaded /\ shown.status \in Live))
    /\ UNCHANGED <<server, born, shown, undo, gen, lastSub, poll, answers, resume, visits, author>>

Prepared(g) ==
    /\ calls[g].at = "schema"
    /\ \/ /\ ~IsCurrent(g)
          /\ calls' = [calls EXCEPT ![g] = NoCall]
          /\ UNCHANGED <<shown, author>>
       \/ /\ IsCurrent(g)
          /\ calls' = [calls EXCEPT ![g].at = "create"]
          /\ Patch(g, [task |-> None, status |-> "queued"])
    /\ UNCHANGED <<server, born, undo, clientPoll, answers, resume, visits, dropped>>

\* The server creates the Task; its answer or an error is on its way.
ServerCreate(g, t) ==
    /\ calls[g].at = "create" /\ server[t] = None
    /\ server' = [server EXCEPT ![t] = "queued"]
    /\ born' = [born EXCEPT ![t] = 1 + Cardinality({u \in Tasks : server[u] # None})]
    /\ calls' = [calls EXCEPT ![g] = [at |-> "created", task |-> t]]
    /\ UNCHANGED <<shown, undo, clientPoll, answers, resume, visits, dropped, author>>

CreateFails(g) ==
    /\ calls[g].at \in {"create", "created"}
    /\ calls' = [calls EXCEPT ![g] = NoCall]
    /\ \/ /\ ~IsCurrent(g)
          /\ UNCHANGED <<shown, author, current>>
       \/ /\ IsCurrent(g)
          /\ Patch(g, [shown EXCEPT !.status = "failed"])
          /\ current' = 0
    /\ UNCHANGED <<server, born, undo, gen, lastSub, poll, answers, resume, visits, dropped>>

\* A newer click has won: the Task is cancelled, if the cancel gets there.
CreateAnswered(g) ==
    LET t == calls[g].task IN
    /\ calls[g].at = "created"
    /\ calls' = [calls EXCEPT ![g] = NoCall]
    /\ \/ /\ ~IsCurrent(g)
          /\ \/ server' = [server EXCEPT ![t] = IF @ \in Live THEN "cancelled" ELSE @]
             \/ UNCHANGED server
          /\ UNCHANGED <<shown, author, current, poll, dropped>>
       \/ /\ IsCurrent(g)
          /\ Patch(g, [task |-> t, status |-> "queued"])
          /\ StartPoll(t, g)
          /\ dropped' = FALSE
          /\ UNCHANGED server
    /\ UNCHANGED <<born, undo, gen, lastSub, answers, resume, visits>>

-----------------------------------------------------------------------------
(* tick. *)

\* The timer fires and the server answers with the status it has now.
Fetch ==
    /\ poll # None /\ IsEntryCurrent(poll)
    /\ \A a \in answers : a.entry # poll
    /\ answers' = answers \cup {[entry |-> poll, status |-> server[poll.task]]}
    /\ UNCHANGED <<server, born, shown, undo, clientPoll, calls, resume, visits, dropped, author>>

\* cancelNodeTaskPoll.
Cancel == poll' = None /\ current' = 0

Answered(a) ==
    /\ a \in answers /\ answers' = answers \ {a}
    /\ \/ /\ ~IsEntryCurrent(a.entry)
          /\ UNCHANGED <<shown, author, poll, current>>
       \/ /\ IsEntryCurrent(a.entry)
          /\ ~(Loaded /\ shown.task = a.entry.task) \* nodeStillExpectsTask
          /\ Cancel
          /\ UNCHANGED <<shown, author>>
       \/ /\ IsEntryCurrent(a.entry)
          /\ Loaded /\ shown.task = a.entry.task
          /\ Patch(a.entry.gen, [shown EXCEPT !.status = a.status])
          /\ IF a.status \in Terminal THEN Cancel ELSE UNCHANGED <<poll, current>>
    /\ UNCHANGED <<server, born, undo, gen, lastSub, calls, resume, visits, dropped>>

\* A transport failure is tried again; 403 and 404 give up.
FetchFails(a) ==
    /\ a \in answers /\ answers' = answers \ {a}
    /\ \/ UNCHANGED <<poll, current, dropped>>
       \/ /\ IsEntryCurrent(a.entry)
          /\ Cancel /\ dropped' = TRUE
    /\ UNCHANGED <<server, born, shown, undo, gen, lastSub, calls, resume, visits, author>>

-----------------------------------------------------------------------------
(* The project is opened and left. *)

\* The store is hydrated without a Task and the effect asks for the active ones.
Open ==
    /\ ~Loaded /\ visits < MaxVisits
    /\ shown' = Blank /\ undo' = Blank
    /\ visits' = visits + 1
    /\ resume' = [NoList EXCEPT !.at = "list", !.boundary = gen]
    /\ dropped' = FALSE
    /\ UNCHANGED <<server, born, clientPoll, calls, answers, author>>

\* TaskService.list: the active Task of the node, if none is newer.
ServerList ==
    LET active == {t \in Tasks : server[t] \in Live /\ Newest(t)} IN
    /\ resume.at = "list"
    /\ resume' = IF active = {} THEN NoList
                 ELSE [resume EXCEPT !.at = "listed", !.task = CHOOSE t \in active : TRUE,
                                     !.status = server[CHOOSE t \in active : TRUE]]
    /\ UNCHANGED <<server, born, shown, undo, clientPoll, calls, answers, visits, dropped, author>>

MayResumeWhenIdle == current = 0 \* mutant: the boundary is not compared
\* resumeNodeTaskPoll: nothing under way and no submission since the list was asked.
MayResume == current = 0 /\ lastSub <= resume.boundary

Listed ==
    /\ resume.at = "listed" /\ Loaded
    /\ resume' = NoList
    /\ \/ /\ MayResume /\ gen < MaxGeneration
          /\ gen' = gen + 1 /\ lastSub' = gen + 1
          /\ StartPoll(resume.task, gen + 1)
          /\ Patch(gen + 1, [task |-> resume.task, status |-> resume.status])
       \/ /\ ~MayResume
          /\ UNCHANGED <<clientPoll, shown, author>>
    /\ UNCHANGED <<server, born, undo, calls, answers, visits, dropped>>

\* stopProjectTaskPolls; the store is emptied and the list's answer ignored.
Leave ==
    /\ Loaded
    /\ shown' = None /\ undo' = None
    /\ poll' = None /\ current' = 0
    /\ resume' = NoList
    /\ UNCHANGED <<server, born, gen, lastSub, calls, answers, visits, dropped, author>>

-----------------------------------------------------------------------------
\* An edit of the canvas keeps the node's data as an undo step.
Edit ==
    /\ Loaded /\ undo # shown
    /\ undo' = shown
    /\ UNCHANGED <<server, born, shown, clientPoll, calls, answers, resume, visits, dropped, author>>

\* An undo brings the data of the step back, task_id and status included.
Undo ==
    /\ Loaded /\ undo # shown
    /\ shown' = undo /\ undo' = shown
    /\ dropped' = TRUE
    /\ UNCHANGED <<server, born, clientPoll, calls, answers, resume, visits, author>>

\* The server's side goes on.
TaskMoves(t, s) ==
    /\ server[t] \in Live /\ s # server[t] /\ s # "queued"
    /\ server' = [server EXCEPT ![t] = s]
    /\ UNCHANGED <<born, shown, undo, clientPoll, calls, answers, resume, visits, dropped, author>>

Next ==
    \/ Submit
    \/ \E g \in Generations : Abandon(g) \/ Prepared(g) \/ CreateFails(g) \/ CreateAnswered(g)
    \/ \E g \in Generations, t \in Tasks : ServerCreate(g, t)
    \/ Fetch \/ \E a \in answers : Answered(a) \/ FetchFails(a)
    \/ Open \/ ServerList \/ Listed \/ Leave \/ Edit \/ Undo
    \/ \E t \in Tasks, s \in Statuses : TaskMoves(t, s)

Spec == Init /\ [][Next]_vars

-----------------------------------------------------------------------------
\* The variables have their types.
TypeOK ==
    /\ server \in [Tasks -> Statuses \cup {None}]
    /\ born \in [Tasks -> 0..Cardinality(Tasks)]
    /\ shown = None \/ shown \in NodeData
    /\ undo = None \/ undo \in NodeData
    /\ gen \in 0..MaxGeneration /\ current \in 0..gen /\ lastSub \in 0..gen
    /\ author \in 0..gen
    /\ calls \in [Generations -> CallType]
    /\ poll = None \/ poll \in Entry
    /\ \A a \in answers : a.entry \in Entry /\ a.status \in Statuses
    /\ resume \in ListType /\ visits \in 0..MaxVisits /\ dropped \in BOOLEAN

\* A node that shows a live Task is polled, or a click is about to replace it.
\* Given up are: what a 403 or 404 ends, what an undo brings back, and the old
\* Task of a click that is abandoned (its poll ended with the click).
LiveTaskFollowed ==
    Loaded /\ shown.task # None /\ shown.status \in Live =>
        \/ poll # None /\ poll.task = shown.task /\ IsEntryCurrent(poll)
        \/ \E g \in Generations : calls[g].at = "schema" /\ IsCurrent(g)
        \/ dropped

\* Whatever answer arrives, the node is not written by an older generation after
\* a newer one, and a Task shown as ended is not shown as live again.
ShownMovesForward ==
    [][Loaded /\ shown' # None /\ ~(shown' = undo /\ undo' = shown) =>
          /\ author' >= author
          /\ shown'.task = shown.task /\ shown.task # None /\ shown.status \in Terminal
                => shown'.status \in Terminal]_vars
=============================================================================
