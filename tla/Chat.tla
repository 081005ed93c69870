-------------------------------- MODULE Chat --------------------------------
(***************************************************************************)
(* Chat: ChatService and InvokeService.stream answer a turn event by event *)
(* and store the messages; ChatPage shows one conversation and the turn it *)
(* has sent, while the user moves between conversations.                   *)
(*                                                                         *)
(* A turn runs in the server whatever the page does; the events it yields  *)
(* reach the page in their order, until the connection is lost.  The page  *)
(* is one record, and an effect of it runs after every change.             *)
(***************************************************************************)
EXTENDS Naturals, Sequences, FiniteSets

CONSTANTS
    None,
    Convs,
    Turns,
    MaxLoads  \* bound: answers of messages under way to the page

VARIABLES
    convs,    \* the rows of conversations
    messages, \* [conv, turn, role, ok]: the rows of messages
    turn,     \* one call of sendStream or send each
    page,
    loads,    \* answers of loadConversation under way
    left,     \* history: the user left before a conversation had its name or messages
    deleted   \* history: conversations that were deleted

vars == <<convs, messages, turn, page, loads, left, deleted>>

\* at: the next step of the generator; row: the ledger row of its attempt;
\* failed: the stream ended with an error; sent: events under way to the page.
Turn(sent) == [at : {"none", "resolve", "ask", "history", "begin", "stream", "save", "touch", "over", "dead"},
         kind : {"stream", "send"}, conv : Convs \cup {None},
         row : {"none", "pending", "success", "error"},
         failed : BOOLEAN, sent : {sent}, cut : BOOLEAN]
Unused == [at |-> "none", kind |-> "stream", conv |-> None, row |-> "none",
           failed |-> FALSE, sent |-> <<>>, cut |-> FALSE]
\* shown: the conversations and turns whose messages are on the page; told:
\* where the page believes its turns to be; created: streamingCreatedConvRef.
Page == [route : Convs \cup {None}, conv : Convs \cup {None}, shown : SUBSET (Convs \cup Turns),
         sending : Turns \cup {None}, created : Convs \cup {None},
         told : [Turns -> Convs \cup {None}]]
Blank == [route |-> None, conv |-> None, shown |-> {}, sending |-> None,
          created |-> None, told |-> [t \in Turns |-> None]]

Init ==
    /\ \E c \in Convs : convs = {c}
    /\ messages = {}
    /\ turn = [t \in Turns |-> Unused]
    /\ page = Blank /\ loads = {} /\ left = FALSE /\ deleted = {}

-----------------------------------------------------------------------------
(* The server. *)

Goes(t, step) == turn' = [turn EXCEPT ![t].at = step]
Message(t, role, ok) == [conv |-> turn[t].conv, turn |-> t, role |-> role, ok |-> ok]
ServerOnly == UNCHANGED <<page, loads, left, deleted>>

\* A yield.  The controller leaves the loop at the first event after the browser
\* has gone, which closes both generators where they are.
Yields(t, event, step) ==
    turn' = [turn EXCEPT ![t] =
        IF @.kind = "send" THEN [@ EXCEPT !.at = step]
        ELSE IF @.cut THEN [@ EXCEPT !.at = "over"]
        ELSE [@ EXCEPT !.at = step, !.sent = Append(turn[t].sent, event)]]
\* The controller's catch: whatever the service throws is told to the browser.
Throws(t) == Yields(t, "last", "over")

ResolveConversation(t) ==
    /\ turn[t].at = "resolve"
    /\ \/ /\ turn[t].conv = None
          /\ \E c \in Convs \ (convs \cup deleted) :
                /\ \A u \in Turns : turn[u].conv # c
                /\ convs' = convs \cup {c}
                /\ turn' = [turn EXCEPT ![t].conv = c, ![t].at = "ask"]
       \/ /\ turn[t].conv \in convs /\ Goes(t, "ask") /\ UNCHANGED convs
       \/ /\ turn[t].conv \notin convs \cup {None} /\ Throws(t) /\ UNCHANGED convs
    /\ ServerOnly /\ UNCHANGED messages

\* The row of a message has a foreign key to its conversation.
SaveUserMessage(t) ==
    /\ turn[t].at = "ask"
    /\ IF turn[t].conv \in convs
       THEN messages' = messages \cup {Message(t, "user", TRUE)} /\ Goes(t, "history")
       ELSE Throws(t) /\ UNCHANGED messages
    /\ ServerOnly /\ UNCHANGED convs

TellConversation(t) ==
    /\ turn[t].at = "history" /\ Yields(t, "meta", "begin")
    /\ ServerOnly /\ UNCHANGED <<convs, messages>>

\* stream resolves the request and commits the pending row.  A request that is
\* refused leaves an error row, a failed insert none or, if only its
\* acknowledgement was lost, a pending one.
Begin(t) ==
    /\ turn[t].at = "begin"
    /\ \/ turn' = [turn EXCEPT ![t].row = "pending", ![t].at = "stream"]
       \/ \E r \in {"none", "error", "pending"} :
             turn' = [turn EXCEPT ![t].row = r, ![t].failed = TRUE, ![t].at = "save"]
    /\ ServerOnly /\ UNCHANGED <<convs, messages>>

Delta(t) ==
    /\ turn[t].at = "stream" /\ turn[t].kind = "stream" /\ Len(turn[t].sent) < 2
    /\ Yields(t, "delta", "stream")
    /\ ServerOnly /\ UNCHANGED <<convs, messages>>

\* The same without a look at whether the row was updated.
OutcomesUnchecked(row) ==
    {[row |-> row, failed |-> TRUE], [row |-> IF row = "pending" THEN "success" ELSE row, failed |-> FALSE]}
\* finish, fail, markOutcomeUnknown: the row changes while it is pending, and a
\* result that cannot be recorded is an error to the caller.
Outcomes(row) ==
    {[row |-> row, failed |-> TRUE]} \cup
    IF row = "pending"
    THEN {[row |-> "success", failed |-> FALSE], [row |-> "error", failed |-> TRUE]} ELSE {}
StreamEnds(t) ==
    /\ turn[t].at = "stream"
    /\ \E o \in Outcomes(turn[t].row) :
          turn' = [turn EXCEPT ![t].row = o.row, ![t].failed = o.failed, ![t].at = "save"]
    /\ ServerOnly /\ UNCHANGED <<convs, messages>>

SaveReply(t) ==
    /\ turn[t].at = "save"
    /\ IF turn[t].conv \in convs
       THEN messages' = messages \cup {Message(t, "assistant", ~turn[t].failed)} /\ Goes(t, "touch")
       ELSE Throws(t) /\ UNCHANGED messages
    /\ ServerOnly /\ UNCHANGED convs

\* The row is saved whole, so that one deleted meanwhile is inserted again.
TouchConversation(t) ==
    /\ turn[t].at = "touch" /\ Yields(t, "last", "over")
    /\ convs' = convs \cup {turn[t].conv}
    /\ ServerOnly /\ UNCHANGED messages

\* The sweeper closes rows without a Task that are older than its grace period.
Sweep(t) ==
    /\ turn[t].row = "pending"
    /\ turn' = [turn EXCEPT ![t].row = "error"]
    /\ ServerOnly /\ UNCHANGED <<convs, messages>>

\* DELETE from another page of the owner; the messages go with it.
DeleteConversation(c) ==
    /\ c \in convs
    /\ convs' = convs \ {c} /\ messages' = {m \in messages : m.conv # c}
    /\ deleted' = deleted \cup {c}
    /\ UNCHANGED <<turn, page, loads, left>>

Running(t) == turn[t].at \notin {"none", "over", "dead"}
Crash ==
    /\ \E t \in Turns : Running(t)
    /\ turn' = [t \in Turns |-> IF Running(t)
                               THEN [turn[t] EXCEPT !.at = "dead", !.cut = TRUE] ELSE turn[t]]
    /\ ServerOnly /\ UNCHANGED <<convs, messages>>

\* send, called without a page.
SendPlain(t) ==
    /\ turn[t].at = "none"
    /\ \E c \in convs \cup {None} :
          turn' = [turn EXCEPT ![t].at = "resolve", ![t].kind = "send", ![t].conv = c]
    /\ ServerOnly /\ UNCHANGED <<convs, messages>>

-----------------------------------------------------------------------------
(* The page. *)

PageOnly == UNCHANGED <<convs, messages, deleted>>
Stale(ls) == {[x EXCEPT !.current = FALSE] : x \in ls}

\* The effect on the route: it leaves a conversation, or loads another one, or
\* waits for the turn whose conversation this page has just opened.
Settles(p, ls) ==
    IF p.route = None
    THEN /\ page' = IF p.conv # None /\ p.sending = None
                    THEN [p EXCEPT !.conv = None, !.shown = {}] ELSE p
         /\ loads' = Stale(ls)
    ELSE IF p.route = p.conv \/ (p.route = p.created /\ p.sending # None)
    THEN page' = p /\ loads' = ls
    ELSE /\ page' = [p EXCEPT !.conv = p.route]
         /\ loads' = Stale(ls) \cup {[conv |-> p.route, current |-> TRUE]}

\* A turn is being answered whose conversation the server has not named, or the
\* page goes to its root, or back, while it waits for the messages of another one.
Nameless == page.sending # None /\ page.told[page.sending] = None
Abandons(r) == r \in {None, page.created} /\ page.sending # None /\ \E x \in loads : x.current

\* openConv, and the browser's history.
Navigate(r) ==
    /\ r \in (convs \cup {None}) \ {page.route} /\ Cardinality(loads) < MaxLoads
    /\ Settles([page EXCEPT !.route = r], loads)
    /\ left' = (left \/ Nameless \/ Abandons(r))
    /\ PageOnly /\ UNCHANGED turn

NewChat ==
    /\ page.route # None \/ page.shown # {}
    /\ Settles([page EXCEPT !.route = None, !.conv = None, !.shown = {}], Stale(loads))
    /\ left' = (left \/ Nameless)
    /\ PageOnly /\ UNCHANGED turn

\* A reload of the page ends its requests.
Refresh ==
    /\ page.sending # None
    /\ Settles([Blank EXCEPT !.route = page.route, !.told = page.told], {})
    /\ turn' = [turn EXCEPT ![page.sending].cut = TRUE, ![page.sending].sent = <<>>]
    /\ PageOnly /\ UNCHANGED left

Send(t) ==
    /\ turn[t].at = "none" /\ page.sending = None
    /\ turn' = [turn EXCEPT ![t].at = "resolve", ![t].conv = page.conv]
    /\ Settles([page EXCEPT !.shown = @ \cup {t}, !.sending = t, !.told[t] = page.conv], loads)
    /\ PageOnly /\ UNCHANGED left

\* The handlers know the conversation that was open when the turn was sent.
OnMeta(t) ==
    LET cid == turn[t].conv IN
    IF page.told[t] # None THEN UNCHANGED <<page, loads>>
    ELSE Settles([page EXCEPT !.told[t] = cid, !.created = cid, !.conv = cid, !.route = cid], loads)
Hear(t) ==
    /\ page.sending = t /\ turn[t].sent # <<>>
    /\ turn' = [turn EXCEPT ![t].sent = Tail(@)]
    /\ IF Head(turn[t].sent) = "meta" THEN OnMeta(t) ELSE UNCHANGED <<page, loads>>
    /\ PageOnly /\ UNCHANGED left

ConnectionLost(t) ==
    /\ Running(t) /\ turn[t].kind = "stream" /\ ~turn[t].cut
    /\ turn' = [turn EXCEPT ![t].cut = TRUE, ![t].sent = <<>>]
    /\ PageOnly /\ UNCHANGED <<page, loads, left>>

\* The reader is at its end or throws.
SendEnds(t) ==
    /\ page.sending = t /\ turn[t].sent = <<>> /\ (turn[t].cut \/ turn[t].at = "over")
    /\ Settles([page EXCEPT !.sending = None, !.created = None], loads)
    /\ PageOnly /\ UNCHANGED <<turn, left>>

\* Any answer is shown.
LoadedLate(x) == x.conv \in convs /\ page' = [page EXCEPT !.shown = {x.conv}]
\* Only the answer is compared with what is open; a failure clears the page.
Loaded(x) ==
    /\ x.conv \in convs
    /\ page' = IF x.current /\ page.route = x.conv
               THEN [page EXCEPT !.shown = {x.conv}] ELSE page
LoadFails(x) == page' = [page EXCEPT !.shown = {}]
Answer(x) ==
    /\ Loaded(x) \/ LoadFails(x)
    /\ loads' = loads \ {x}
    /\ PageOnly /\ UNCHANGED <<turn, left>>

Next ==
    \/ \E t \in Turns :
          \/ ResolveConversation(t) \/ SaveUserMessage(t) \/ TellConversation(t)
          \/ Begin(t) \/ Delta(t) \/ StreamEnds(t) \/ SaveReply(t) \/ TouchConversation(t)
          \/ Sweep(t) \/ SendPlain(t)
          \/ Send(t) \/ Hear(t) \/ ConnectionLost(t) \/ SendEnds(t)
    \/ Crash \/ NewChat \/ Refresh
    \/ \E c \in Convs : DeleteConversation(c)
    \/ \E r \in Convs \cup {None} : Navigate(r)
    \/ \E x \in loads : Answer(x)

Spec == Init /\ [][Next]_vars

-----------------------------------------------------------------------------
\* The variables have their types.
TypeOK ==
    /\ convs \subseteq Convs /\ deleted \subseteq Convs
    /\ \A m \in messages : m.conv \in Convs /\ m.turn \in Turns
    /\ \A t \in Turns : turn[t] \in Turn(turn[t].sent)
    /\ page \in Page
    /\ \A x \in loads : x \in [conv : Convs, current : BOOLEAN]

\* Once its messages have come, the page shows nothing of a conversation but the
\* one it would send to, however late the answers of others arrive and whichever
\* turn is still being answered.  (At its root address, and at that of the turn,
\* that stays the one it has until the turn has ended.  Who leaves a new
\* conversation before the server has named it is taken to it by the first event
\* all the same; and messages not awaited are not asked for again.)
PageShowsItsConversation ==
    \/ left \/ \E x \in loads : x.current
    \/ \A s \in page.shown :
          IF s \in Convs THEN s = page.conv ELSE page.told[s] \in {None, page.conv}

\* A reply that reads as an answer is one the ledger has as a success, and the
\* other way round: what the vendor completed is stored although the browser has
\* gone, unless the server dies or the conversation is deleted.
RepliesMatchLedger ==
    /\ \A m \in messages : m.role = "assistant" => (m.ok <=> turn[m.turn].row = "success")
    /\ \A t \in Turns :
          turn[t].at = "over" /\ turn[t].row = "success" /\ turn[t].conv \notin deleted =>
              \E m \in messages : m.turn = t /\ m.role = "assistant"
=============================================================================
