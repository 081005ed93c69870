--------------------------- MODULE GenerationFeed ---------------------------
(***************************************************************************)
(* The page of quick generation: the feed of the user's standalone Tasks,  *)
(* filled by a list, by polls of the Tasks that are not over and by the    *)
(* replies to the user's own requests, in whatever order they arrive; and  *)
(* the conversations, which exist in the browser only, that tell which     *)
(* Tasks the page shows.                                                   *)
(*                                                                         *)
(* A row is [status, at], at being its updated_at in milliseconds.         *)
(***************************************************************************)
EXTENDS Naturals, Sequences, FiniteSets

CONSTANTS
    None,
    Tasks,      \* Tasks that can be created
    Home,       \* the conversation that always exists ("default")
    Created,    \* conversations the user can create
    Calls,      \* requests under way at once
    MaxList,    \* rows a list answers with (80)
    MaxAt       \* bound: times at which a row changes

Over == {"succeeded", "failed", "cancelled"}
Rows == [status : Over \cup {"active"}, at : 1..MaxAt]
Feeds == [Tasks -> Rows \cup {None}]
Rounds == [ids : (SUBSET Tasks) \ {{}}, asked : BOOLEAN, got : Feeds, open : SUBSET Tasks]
Error == [status |-> "error"]
Conversations == Created \cup {Home}
Requests == [kind : {"submit", "retry", "cancel"}, task : Tasks \cup {None},
             conv : Conversations, from : Conversations, reply : Rows \cup {None, Error}]
Pages == [active : Conversations, list : SUBSET Conversations,
          tags : [Tasks -> Conversations \cup {None}]]

VARIABLES
    rows,       \* the Tasks on the server, by id
    born,       \* their ids in the order of created_at
    feed,       \* the rows the page holds
    listing,    \* None, or a list that was asked for: empty, or the rows it is answered with
    round,      \* the poller: the ids of its closure, whether it has asked, the answers
    calls,      \* the user's requests that are under way
    page,       \* the conversations, the one shown, the tags
    \* History.
    sentFrom,   \* the conversation in which a Task was asked for
    missed      \* Tasks whose shown row is behind for a reason the page cannot see

feedVars == <<rows, born, feed, listing, round, calls, page, sentFrom, missed>>

IsOver(row) == row.status \in Over
Active(f) == {t \in Tasks : f[t] # None /\ ~IsOver(f[t])}
NoRows == [t \in Tasks |-> None]

-----------------------------------------------------------------------------
(* The feed. *)

\* [mutant] The row that arrived last is taken.
TakeArrived(previous, candidate) == candidate # previous
\* The later row is taken; of two of the same millisecond the one that is over.
ShouldReplace(previous, candidate) ==
    IF candidate.at # previous.at THEN candidate.at > previous.at
    ELSE IsOver(previous) => IsOver(candidate)

Merge(primary, existing) ==
    [t \in Tasks |->
        IF primary[t] = None THEN existing[t]
        ELSE IF existing[t] = None \/ ShouldReplace(existing[t], primary[t]) THEN primary[t]
        ELSE existing[t]]

\* A list stands for what it holds; of the rest only what is not over is kept.
Reloaded(list) ==
    [t \in Tasks |-> IF list[t] # None THEN list[t]
                     ELSE IF t \in Active(feed) THEN feed[t] ELSE None]

Fresh(ids) == IF ids = {} THEN None ELSE [ids |-> ids, asked |-> FALSE, got |-> NoRows, open |-> {}]

\* The poller is torn down and set up again when the Tasks it polls change.
ShowFeed(f) ==
    /\ feed' = f
    /\ round' = IF Active(f) = Active(feed) THEN round ELSE Fresh(Active(f))

\* What the page misses is over once it shows the row of the server again.
Misses(ts) == missed' = {t \in ts : feed'[t] = None \/ feed'[t] # rows'[t]}

-----------------------------------------------------------------------------
(* The server. *)

Newest == {born[i] : i \in {j \in DOMAIN born : j > Len(born) - MaxList}}

\* Any change of a Task that is not over; some happen within a millisecond.
ServerMoves(t) ==
    /\ rows[t] # None
    /\ ~IsOver(rows[t])
    /\ \E s \in {"active", "succeeded", "failed"}, at \in {rows[t].at, rows[t].at + 1} :
          /\ at <= MaxAt
          /\ rows' = [rows EXCEPT ![t] = [status |-> s, at |-> at]]
    /\ UNCHANGED <<born, feed, listing, round, calls, page, sentFrom, missed>>

AnswerList ==
    /\ listing = <<>>
    /\ listing' = <<[t \in Tasks |-> IF t \in Newest THEN rows[t] ELSE None]>>
    /\ UNCHANGED <<rows, born, feed, round, calls, page, sentFrom, missed>>

Create(c) ==
    \E t \in {x \in Tasks : rows[x] = None} :
        /\ rows' = [rows EXCEPT ![t] = [status |-> "active", at |-> 1]]
        /\ born' = Append(born, t)
        /\ calls' = [calls EXCEPT ![c].task = t, ![c].reply = rows'[t]]
        /\ sentFrom' = [sentFrom EXCEPT ![t] = calls[c].from]

\* A Task that failed or was cancelled is queued again, later than it ended.
Retry(c) ==
    LET t == calls[c].task
    IN /\ UNCHANGED <<born, sentFrom>>
       /\ IF rows[t].status \in {"failed", "cancelled"}
          THEN /\ rows[t].at < MaxAt
               /\ rows' = [rows EXCEPT ![t] = [status |-> "active", at |-> @.at + 1]]
               /\ calls' = [calls EXCEPT ![c].reply = rows'[t]]
          ELSE calls' = [calls EXCEPT ![c].reply = Error] /\ UNCHANGED rows

Cancel(c) ==
    LET t == calls[c].task
    IN /\ UNCHANGED <<born, sentFrom>>
       /\ IF IsOver(rows[t]) THEN UNCHANGED rows
          ELSE \E at \in {rows[t].at, rows[t].at + 1} :
                  at <= MaxAt /\ rows' = [rows EXCEPT ![t] = [status |-> "cancelled", at |-> at]]
       /\ calls' = [calls EXCEPT ![c].reply = rows'[t]]

Serve(c) ==
    /\ calls[c] # None /\ calls[c].reply = None
    /\ CASE calls[c].kind = "submit" -> Create(c)
         [] calls[c].kind = "retry"  -> Retry(c)
         [] calls[c].kind = "cancel" -> Cancel(c)
    /\ UNCHANGED <<feed, listing, round, page, missed>>

-----------------------------------------------------------------------------
(* The page. *)

Init ==
    /\ rows = NoRows /\ born = <<>> /\ feed = NoRows
    /\ listing = <<>> /\ round = None
    /\ calls = [c \in Calls |-> None]
    /\ page = [active |-> Home, list |-> {Home}, tags |-> [t \in Tasks |-> None]]
    /\ sentFrom = [t \in Tasks |-> None] /\ missed = {}

\* Rows that a late list takes back or drops are missed from now on.
ApplyList ==
    /\ listing \notin {None, <<>>}
    /\ ShowFeed(Reloaded(listing[1]))
    /\ listing' = None
    /\ UNCHANGED <<rows, born, calls, page, sentFrom>>
    /\ Misses(missed \cup {t \in Tasks :
                  /\ feed[t] # None
                  /\ feed'[t] = None \/ ~ShouldReplace(feed[t], feed'[t])})

ListFails ==
    /\ listing # None
    /\ listing' = None
    /\ UNCHANGED <<rows, born, feed, round, calls, page, sentFrom, missed>>

\* The outputs of a Task have been copied to a project, and the list is asked again.
Saved ==
    /\ listing = None /\ \E t \in Tasks : feed[t] # None /\ feed[t].status = "succeeded"
    /\ listing' = <<>>
    /\ UNCHANGED <<rows, born, feed, round, calls, page, sentFrom, missed>>

Poll ==
    /\ round # None /\ ~round.asked
    /\ round' = [round EXCEPT !.asked = TRUE, !.open = round.ids]
    /\ UNCHANGED <<rows, born, feed, listing, calls, page, sentFrom, missed>>

\* The details of one Task arrive, or an error; a round waits for all of them.
AnswerPoll(t) ==
    /\ round # None /\ round.asked /\ t \in round.open
    /\ \E row \in {rows[t], None} :
          round' = [round EXCEPT !.got[t] = row, !.open = @ \ {t}]
    /\ UNCHANGED <<rows, born, feed, listing, calls, page, sentFrom, missed>>

ApplyPoll ==
    /\ round # None /\ round.asked /\ round.open = {}
    /\ feed' = Merge(round.got, feed)
    /\ round' = Fresh(Active(feed'))
    /\ UNCHANGED <<rows, born, listing, calls, page, sentFrom>>
    /\ Misses(missed)

Call(kind, t, conv) == [kind |-> kind, task |-> t, conv |-> conv, from |-> conv, reply |-> None]
Start(c, call) == calls[c] = None /\ calls' = [calls EXCEPT ![c] = call]

\* The user sends a generation: the handler's closure holds the conversation
\* shown.  The key is not held back while another request is under way.
Submit(c) ==
    /\ Start(c, Call("submit", None, page.active))
    /\ UNCHANGED <<rows, born, feed, listing, round, page, sentFrom, missed>>

\* The buttons of an item go by the row it shows.
Press(c, kind, t) ==
    /\ feed[t] # None
    /\ IF kind = "retry" THEN feed[t].status \in {"succeeded", "failed"} ELSE ~IsOver(feed[t])
    /\ Start(c, Call(kind, t, page.active))
    /\ UNCHANGED <<rows, born, feed, listing, round, page, sentFrom, missed>>

\* A generation from the home page: the page is opened with a conversation of
\* its own for it and submits it at once.
Handoff(v, c) ==
    /\ v \in Created \ page.list
    /\ page' = [page EXCEPT !.list = @ \cup {v}, !.active = v]
    /\ feed' = NoRows /\ round' = None /\ listing' = <<>>
    /\ calls' = [d \in Calls |-> IF d = c THEN Call("submit", None, v) ELSE None]
    /\ UNCHANGED <<rows, born, sentFrom>>
    /\ Misses({})

\* [mutant] A new Task joins the conversation that is shown when the reply arrives.
TaggedAsShown(t, conv) == [page EXCEPT !.tags[t] = page.active]
Tagged(t, conv) == [page EXCEPT !.tags[t] = conv]

\* A reply arrives: the row joins the feed, a new Task joins its conversation.
Reply(c) ==
    /\ calls[c] # None /\ calls[c].reply # None
    /\ LET call == calls[c]
       IN IF call.reply = Error THEN UNCHANGED <<feed, round, page>>
          ELSE /\ ShowFeed(Merge([NoRows EXCEPT ![call.task] = call.reply], feed))
               /\ page' = IF call.kind = "submit" THEN Tagged(call.task, call.conv) ELSE page
    /\ calls' = [calls EXCEPT ![c] = None]
    /\ UNCHANGED <<rows, born, listing, sentFrom>>
    /\ Misses(missed)

\* A request fails before or after it was served.
CallFails(c) ==
    /\ calls[c] # None
    /\ calls' = [calls EXCEPT ![c] = None]
    /\ UNCHANGED <<rows, born, feed, listing, round, page, sentFrom>>
    /\ Misses(missed \cup ({calls[c].task} \ {None}))

\* The route decides which conversation is shown: the panel, and the browser's
\* own buttons, set it; an unknown one leads home.
Select(v) ==
    /\ v # page.active
    /\ page' = [page EXCEPT !.active = IF v \in page.list THEN v ELSE Home]
    /\ UNCHANGED <<rows, born, feed, listing, round, calls, sentFrom, missed>>

NewConversation(v) ==
    /\ v \in Created \ page.list
    /\ page' = [page EXCEPT !.list = @ \cup {v}, !.active = v]
    /\ UNCHANGED <<rows, born, feed, listing, round, calls, sentFrom, missed>>

\* The tags of a removed conversation stay.
Remove(v) ==
    /\ v \in page.list \ {Home}
    /\ page' = [page EXCEPT !.list = @ \ {v}, !.active = IF @ = v THEN Home ELSE @]
    /\ UNCHANGED <<rows, born, feed, listing, round, calls, sentFrom, missed>>

\* The page is left and opened again, or loaded again: conversations and tags
\* are in local storage, the rest is lost.
Reopen ==
    /\ feed' = NoRows /\ round' = None /\ listing' = <<>>
    /\ calls' = [c \in Calls |-> None]
    /\ UNCHANGED <<rows, born, page, sentFrom>>
    /\ Misses({})

Next ==
    \/ AnswerList \/ ApplyList \/ ListFails \/ Saved \/ Poll \/ ApplyPoll \/ Reopen
    \/ \E t \in Tasks : ServerMoves(t) \/ AnswerPoll(t)
    \/ \E c \in Calls : Serve(c) \/ Submit(c) \/ Reply(c) \/ CallFails(c)
    \/ \E c \in Calls, t \in Tasks, kind \in {"retry", "cancel"} : Press(c, kind, t)
    \/ \E v \in Conversations : Select(v)
    \/ \E v \in Created : NewConversation(v) \/ Remove(v)
    \/ \E v \in Created, c \in Calls : Handoff(v, c)

Spec == Init /\ [][Next]_feedVars

-----------------------------------------------------------------------------
(* Properties *)

FilterTasks(conv) ==
    {t \in Tasks : /\ feed[t] # None
                   /\ IF conv = Home THEN page.tags[t] \in {None, Home} ELSE page.tags[t] = conv}

TypeOK ==
    /\ rows \in Feeds /\ feed \in Feeds
    /\ listing \notin {None, <<>>} => \E f \in Feeds : listing = <<f>>
    /\ round # None => round \in Rounds /\ round.open \subseteq round.ids
    /\ calls \in [Calls -> Requests \cup {None}]
    /\ page \in Pages /\ page.active \in page.list
    /\ sentFrom \in [Tasks -> Conversations \cup {None}]
    /\ missed \subseteq Tasks

\* A row that differs from the server's is one that is polled, or one on which a
\* request of the user is under way; only a lost reply or a list that was read
\* before what the page already showed can leave it behind for good.
FeedIsWatched ==
    /\ Active(feed) = IF round = None THEN {} ELSE round.ids
    /\ \A t \in Tasks :
          feed[t] # None /\ feed[t] # rows[t] =>
              \/ t \in Active(feed)
              \/ \E c \in Calls : calls[c] # None /\ calls[c].task = t
              \/ t \in missed

\* A Task is shown in the conversation in which it was asked for and nowhere
\* else, whatever the user has opened since; without its reply it is at home.
ShownWhereAsked ==
    \A t \in Tasks, v \in Conversations :
        t \in FilterTasks(v) => v = sentFrom[t] \/ (v = Home /\ page.tags[t] = None)
=============================================================================
