----------------------------- MODULE Credentials -----------------------------
(***************************************************************************)
(* The credentials of the channels: CredentialService, which stores,       *)
(* replaces, archives and validates them, and the two resolvers that pick  *)
(* them for a call, CredentialResolverService and                          *)
(* CredentialService.resolveProviderApiContext.                            *)
(*                                                                         *)
(* Every write but the verdict of a validation is a whole SERIALIZABLE     *)
(* transaction under one lock (RegistryBootstrapService.mutateLocal), so   *)
(* that it is one step: a verdict stored in between makes it fail.  A      *)
(* validation reads the row, asks the vendor and stores its verdict if the *)
(* payload is still the one it read.  A call lists its candidates channel  *)
(* by channel, then tries them one by one.                                 *)
(***************************************************************************)
EXTENDS Naturals, SequencesExt

CONSTANTS
    Ids,         \* credentials
    Channels,    \* the channels of a model, by priority: a sequence
    Auth,        \* the authentication method of a channel's provider
    Keys,        \* the secrets a payload holds; Blank and Marker beside them
    Blank,       \* an empty api_key
    Marker,      \* the empty payload of a cli_session
    Foreign,     \* the secrets encrypted under a key this instance does not hold
    None,
    MaxFailover, \* MAX_FAILOVER
    MaxEdits,    \* bound: writes of the administrators
    MaxJobs      \* bound: jobs started

VARIABLES
    row,     \* account.credentials
    used,    \* the order of last_used_at, NULLS FIRST: <<i, j>> if i comes before j
    edits,   \* history: writes so far; names each encryption
    accepts, \* the secrets the vendor accepts
    asked,   \* a validation under way: the row it read
    call,    \* an invocation under way
    jobs     \* the jobs it has started: channel_resource_uid and credential_id

vars == <<row, used, edits, accepts, asked, call, jobs>>

Row == [channel : Range(Channels), key : Keys \cup {Marker}, cipher : 1..MaxEdits,
        enabled : BOOLEAN, archived : BOOLEAN, valid : BOOLEAN, about : 0..MaxEdits]
Candidate == [id : Ids, key : Keys \cup {Marker}, channel : Range(Channels)]
Call == [at : 0..Len(Channels), list : Seq(Candidate), removed : SUBSET Ids]

Init ==
    /\ row = [i \in Ids |-> None] /\ used = {} /\ edits = 0
    /\ accepts = Keys /\ asked = None /\ call = None /\ jobs = {}

-----------------------------------------------------------------------------
\* assertCredentialContract: the payload and type a provider asks for.
ContractHolds(channel, key) ==
    IF Auth[channel] = "api_key" THEN key \in Keys ELSE key = Marker
\* EncryptionService.decrypt throws without the key.
Decryptable(key) == key \notin Foreign
Stored(i) == row[i] # None
Live(i) == Stored(i) /\ ~row[i].archived

Edited == edits < MaxEdits /\ edits' = edits + 1
Wrote(i, r) ==
    /\ row' = [row EXCEPT ![i] = r]
    /\ UNCHANGED <<used, accepts, asked, call, jobs>>

\* create, and the credential of addCredentialWithModels: a row starts as valid.
CreateCredential(i) ==
    /\ ~Stored(i) /\ Edited
    /\ \E c \in Range(Channels), k \in Keys \cup {Blank, Marker}, on \in BOOLEAN :
          /\ ContractHolds(c, k)
          /\ Wrote(i, [channel |-> c, key |-> k, cipher |-> edits', enabled |-> on,
                       archived |-> FALSE, valid |-> TRUE, about |-> 0])

\* update: a new payload, or the old one when it is enabled, meets the contract.
Replaced(r, k) == IF k = None THEN r ELSE [r EXCEPT !.key = k, !.cipher = edits']
UpdateCredential(i) ==
    /\ Live(i) /\ Edited
    /\ \E k \in Keys \cup {Blank, Marker, None}, on \in BOOLEAN \cup {None} :
          /\ k # None => ContractHolds(row[i].channel, k)
          /\ k = None /\ on = TRUE => Decryptable(row[i].key)
          /\ Wrote(i, [Replaced(row[i], k) EXCEPT !.enabled = IF on = None THEN @ ELSE on])

\* remove: the row is archived, and stays.
Deleted(i) == Wrote(i, None)       \* mutant: the row is deleted
Archived(i) == Wrote(i, [row[i] EXCEPT !.enabled = FALSE, !.archived = TRUE])
RemoveCredential(i) == Live(i) /\ Edited /\ Archived(i)

-----------------------------------------------------------------------------
(* validate. *)

Validate(i) ==
    /\ Live(i) /\ asked = None
    /\ asked' = [id |-> i, read |-> row[i]]
    /\ UNCHANGED <<row, used, edits, accepts, call, jobs>>

\* validateDreamina, pingModels: the vendor accepts the secret and can be
\* reached.  A payload that cannot be decrypted is not valid.
Verdicts(r) ==
    IF Auth[r.channel] = "cli_login" THEN BOOLEAN
    ELSE IF Decryptable(r.key) /\ r.key \in accepts THEN BOOLEAN ELSE {FALSE}

\* The condition of the UPDATE; 404 or 409 when it meets no row.
SameCredential(i, r) == Live(i)    \* mutant: by id alone
SameRead(i, r) ==
    Live(i) /\ row[i].channel = r.channel /\ row[i].cipher = r.cipher

StoreVerdict ==
    /\ asked # None
    /\ LET i == asked.id IN \E v \in Verdicts(asked.read) :
          row' = IF SameRead(i, asked.read)
                 THEN [row EXCEPT ![i].valid = v, ![i].about = asked.read.cipher]
                 ELSE row
    /\ asked' = None
    /\ UNCHANGED <<used, edits, accepts, call, jobs>>

-----------------------------------------------------------------------------
(* invoke: listCandidates of both resolvers, and the failover.             *)

EvenRemoved(c) == {i \in Ids : Stored(i) /\ row[i].channel = c}  \* mutant: whatever there is
Eligible(c) == {i \in Ids : Live(i) /\ row[i].channel = c /\ row[i].enabled}

\* ORDER BY last_used_at NULLS FIRST.
Ordered(ids) ==
    {s \in SetToSeqs(ids) : \A m, n \in DOMAIN s : m < n => <<s[n], s[m]>> \notin used}

\* A call begins at the first channel.
Invoke ==
    /\ call = None /\ Cardinality(jobs) < MaxJobs
    /\ call' = [at |-> 0, list |-> <<>>, removed |-> {i \in Ids : Stored(i) /\ row[i].archived}]
    /\ UNCHANGED <<row, used, edits, accepts, asked, jobs>>

\* The rows of the next channel are read and decrypted; one that cannot be
\* fails the call, whatever the others are.
ListCandidates ==
    /\ call # None /\ call.at < Len(Channels)
    /\ LET c == Channels[call.at + 1] IN
       IF \A i \in Eligible(c) : Decryptable(row[i].key)
       THEN \E s \in Ordered(Eligible(c)) :
               call' = [call EXCEPT !.at = @ + 1,
                          !.list = @ \o [n \in DOMAIN s |->
                                            [id |-> s[n], key |-> row[s[n]].key, channel |-> c]]]
       ELSE call' = None
    /\ UNCHANGED <<row, used, edits, accepts, asked, jobs>>

AllListed == call # None /\ call.at = Len(Channels)
\* Of the candidates at most MaxFailover are tried.
InLine == IF Len(call.list) > MaxFailover THEN SubSeq(call.list, 1, MaxFailover) ELSE call.list
Tried == Head(call.list)

MarkUsed(i) == (used \ {<<i, j>> : j \in Ids}) \cup {<<j, i>> : j \in Ids \ {i}}

\* The vendor takes the job.
Accepted ==
    /\ AllListed /\ call.list # <<>> /\ Tried.key \in accepts \cup {Marker}
    /\ used' = MarkUsed(Tried.id)
    /\ jobs' = jobs \cup {[id |-> Tried.id, channel |-> Tried.channel]}
    /\ call' = None
    /\ UNCHANGED <<row, edits, accepts, asked>>

\* A definite refusal that another key may not meet: the next candidate.
FailOver ==
    /\ AllListed /\ call.list # <<>>
    /\ call' = [call EXCEPT !.list = Tail(InLine)]
    /\ UNCHANGED <<row, used, edits, accepts, asked, jobs>>

\* No candidate is left, or the outcome is unknown.
GiveUp ==
    /\ AllListed
    /\ call' = None
    /\ UNCHANGED <<row, used, edits, accepts, asked, jobs>>

\* selectHistorical, for polls and the cancel: switches and the archive do not
\* count.
OnlyEnabled(j) == {i \in Eligible(j.channel) : i = j.id}    \* mutant: as for a new call
SelectHistorical(j) == {i \in Ids : i = j.id /\ Stored(i) /\ row[i].channel = j.channel}

\* The vendor stops accepting a secret.
VendorRevokes ==
    /\ \E k \in accepts : accepts' = accepts \ {k}
    /\ UNCHANGED <<row, used, edits, asked, call, jobs>>

Next ==
    \/ \E i \in Ids : CreateCredential(i) \/ UpdateCredential(i) \/ RemoveCredential(i) \/ Validate(i)
    \/ StoreVerdict
    \/ Invoke \/ ListCandidates \/ Accepted \/ FailOver \/ GiveUp
    \/ VendorRevokes

Spec == Init /\ [][Next]_vars

-----------------------------------------------------------------------------
\* The variables have their types.
TypeOK ==
    /\ row \in [Ids -> Row \cup {None}] /\ used \subseteq Ids \X Ids /\ edits \in 0..MaxEdits
    /\ accepts \subseteq Keys /\ (asked # None => asked.id \in Ids /\ asked.read \in Row)
    /\ (call # None => call \in Call)
    /\ \A j \in jobs : j.id \in Ids /\ j.channel \in Range(Channels)

\* A job that runs at the vendor keeps its credential, on its channel, for the
\* polls and the cancel, whatever the administrators do; and a call that began
\* after a credential was removed never sends with it.
CredentialsServe ==
    /\ \A j \in jobs : SelectHistorical(j) # {}
    /\ call # None => \A n \in DOMAIN call.list : call.list[n].id \notin call.removed

\* A verdict is about the payload it was asked for: one that comes after the
\* payload was replaced changes nothing; and nothing changes a credential that
\* is archived, nor deletes it.
CredentialRowsKept ==
    [][\A i \in Ids : Stored(i) =>
          /\ row'[i] # None
          /\ row[i].archived => row'[i] = row[i]
          /\ row'[i].cipher # row[i].cipher => row'[i].about = row[i].about
          /\ row'[i].about # row[i].about => row'[i].about = row'[i].cipher]_row
==============================================================================
