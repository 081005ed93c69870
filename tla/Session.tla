------------------------------ MODULE Session ------------------------------
(***************************************************************************)
(* SessionService: the sessions of one user in PostgreSQL, and Redis,      *)
(* which judges every request.                                             *)
(*                                                                         *)
(* A session has a row (the source of truth), perhaps a positive cache     *)
(* entry "live" and perhaps a tombstone "revoked".  Every request is a     *)
(* sequence of statements to the one or the other, so requests overlap     *)
(* anywhere, and a process may die (or Redis refuse) between two of them.  *)
(* A key of Redis is present until its TTL ends; time is a small clock and *)
(* rounding to seconds is below its unit.  A token names its session.      *)
(***************************************************************************)
EXTENDS Naturals, FiniteSets

CONSTANTS
    Tokens,      \* session tokens that may be issued
    Devices,     \* client device ids a login may carry
    Requests,    \* requests under way at the same time
    MaxDevices,  \* SESSION_MAX_DEVICES
    Ttl,         \* SESSION_TTL_DAYS
    CacheTtl,    \* SESSION_CACHE_TTL_SEC
    MaxTime,     \* bound of the clock
    Crashes,     \* whether requests may die
    None         \* no token, no device id

VARIABLES
    row,     \* auth_sessions: status, expires_at, device
    live,    \* the positive cache: the expiry in its payload and its own TTL
    tomb,    \* the tombstone: when its TTL ends, and the expiry that gave the TTL
    req,     \* the requests: their next statement and what they have read
    now

vars == <<row, live, tomb, req, now>>

Times == 0..(MaxTime + Ttl)

RowType == [status : {"none", "active", "revoked"}, exp : Times,
            dev : Devices \cup {None}]
EntryType == [exp : Times, until : Times]
Steps == {"idle", "issue", "fill", "evict", "find", "cache", "extend", "recache",
          "update", "kick"}
ReqType == [at : Steps, op : {"issue", "validate", "refresh", "revoke", "all"},
            token : Tokens \cup {None}, dev : Devices \cup {None}, insert : BOOLEAN,
            exp : Times, seen : SUBSET Tokens, left : [Tokens -> Times]]

\* No entry ever written: its TTL is long over.
NoEntry == [exp |-> 0, until |-> 0]
NotDue == [t \in Tokens |-> 0]

Idle == [at |-> "idle", op |-> "validate", token |-> None, dev |-> None,
         insert |-> FALSE, exp |-> 0, seen |-> {}, left |-> NotDue]

Init ==
    /\ row = [t \in Tokens |-> [status |-> "none", exp |-> 0, dev |-> None]]
    /\ live = [t \in Tokens |-> NoEntry]
    /\ tomb = [t \in Tokens |-> NoEntry]
    /\ req = [p \in Requests |-> Idle]
    /\ now = 0

Active == {t \in Tokens : row[t].status = "active"}
Unexpired(t) == row[t].exp > now
Tombed(t) == tomb[t].until > now
Cached(t) == live[t].until > now

\* What a request that presents t would be answered: MGET judges, a miss asks
\* the database.
Accepts(t) ==
    /\ ~Tombed(t)
    /\ IF Cached(t) THEN live[t].exp > now
                    ELSE row[t].status = "active" /\ Unexpired(t)

AtLeastOne(n) == IF n < 1 THEN 1 ELSE n
Remaining(exp) == AtLeastOne(IF exp > now THEN exp - now ELSE 0)

\* [mutant] The cache entry's TTL is not cut at the session's expiry.
LiveTtlUncut(exp) == CacheTtl
LiveTtl(exp) == IF Remaining(exp) < CacheTtl THEN Remaining(exp) ELSE CacheTtl

WriteLive(t, exp) ==
    live' = [live EXCEPT ![t] = [exp |-> exp, until |-> now + LiveTtl(exp)]]

Revoke(S) ==
    row' = [t \in Tokens |-> IF t \in S THEN [row[t] EXCEPT !.status = "revoked"] ELSE row[t]]

\* [mutant] The tombstone lives as long as a cache entry, not as the session.
KickBriefly(t, exp) ==
    /\ tomb' = [tomb EXCEPT ![t] = [exp |-> exp, until |-> now + 1]]
    /\ live' = [live EXCEPT ![t] = NoEntry]
\* KICK_LUA: tombstone and removal of the cache entry, atomically.
Kick(t, exp) ==
    /\ tomb' = [tomb EXCEPT ![t] = [exp |-> exp, until |-> now + Remaining(exp)]]
    /\ live' = [live EXCEPT ![t] = NoEntry]

\* The expiries of the rows of S, as a request reads them.
Expiries(S) == [t \in Tokens |-> IF t \in S THEN row[t].exp ELSE 0]

Continue(p, r) == req' = [req EXCEPT ![p] = r]
End(p) == Continue(p, Idle)
At(p, step) == req[p].at = step

-----------------------------------------------------------------------------
(* issue: one transaction, then the cache, then the evicted sessions.  The  *)
(* transaction reads the device and the active sessions before it writes.   *)

\* The user has a row for this client device id.
KnownDevice(d) == \E t \in Tokens : row[t].dev = d

IssueRead(p, d) ==
    /\ At(p, "idle")
    /\ Continue(p, [Idle EXCEPT !.at = "issue", !.op = "issue", !.dev = d, !.seen = Active,
                                !.insert = d # None /\ ~KnownDevice(d), !.exp = now + Ttl])
    /\ UNCHANGED <<row, live, tomb, now>>

\* uq_device_user_client: another login has inserted the device meanwhile.
DeviceTaken(p) == req[p].insert /\ KnownDevice(req[p].dev)

\* [mutant] A fresh login does not leave room for itself.
\* How many of the n other sessions have to go.
Overflow(n) == IF n + 1 > MaxDevices THEN n + 1 - MaxDevices ELSE 0

\* Sessions of the same device are replaced; of the others the least recently
\* seen are evicted (last_seen_at is not in the model, so any may be).
IssueCommit(p, t, victims) ==
    LET prior  == {s \in req[p].seen : req[p].dev # None /\ row[s].dev = req[p].dev}
        others == req[p].seen \ prior
        gone   == prior \cup victims
    IN /\ At(p, "issue") /\ ~DeviceTaken(p)
       /\ row[t].status = "none"
       /\ victims \subseteq others
       /\ Cardinality(victims) = Overflow(Cardinality(others))
       /\ row' = [s \in Tokens |->
                    IF s = t THEN [status |-> "active", exp |-> req[p].exp, dev |-> req[p].dev]
                    ELSE IF s \in gone THEN [row[s] EXCEPT !.status = "revoked"] ELSE row[s]]
       /\ Continue(p, [req[p] EXCEPT !.at = "fill", !.token = t, !.seen = gone,
                                     !.left = Expiries(gone)])
       /\ UNCHANGED <<live, tomb, now>>

IssueFails(p) ==
    /\ At(p, "issue") /\ DeviceTaken(p)
    /\ End(p)
    /\ UNCHANGED <<row, live, tomb, now>>

IssueFill(p) ==
    /\ At(p, "fill")
    /\ WriteLive(req[p].token, req[p].exp)
    /\ IF req[p].seen = {} THEN End(p) ELSE Continue(p, [req[p] EXCEPT !.at = "evict"])
    /\ UNCHANGED <<row, tomb, now>>

\* issue and revokeAllForUser kick one session after the other.
KickNext(p, t) ==
    /\ At(p, "evict") /\ t \in req[p].seen
    /\ Kick(t, req[p].left[t])
    /\ IF req[p].seen = {t} THEN End(p)
       ELSE Continue(p, [req[p] EXCEPT !.seen = @ \ {t}])
    /\ UNCHANGED <<row, now>>

-----------------------------------------------------------------------------
(* validate, and refresh, which validates first. *)

\* MGET revoked, live.
Judge(p, t, op) ==
    /\ At(p, "idle")
    /\ row[t].status # "none"
    /\ ~Tombed(t)
    /\ IF Cached(t)
       THEN /\ op = "refresh" /\ live[t].exp > now
            /\ Continue(p, [Idle EXCEPT !.at = "extend", !.op = op, !.token = t])
       ELSE Continue(p, [Idle EXCEPT !.at = "find", !.op = op, !.token = t])
    /\ UNCHANGED <<row, live, tomb, now>>

\* A cache miss: only an active, unexpired row counts.
Find(p) ==
    LET t == req[p].token
    IN /\ At(p, "find")
       /\ IF t \in Active /\ Unexpired(t)
          THEN Continue(p, [req[p] EXCEPT !.at = "cache", !.exp = row[t].exp])
          ELSE End(p)
       /\ UNCHANGED <<row, live, tomb, now>>

CacheRow(p) ==
    /\ At(p, "cache")
    /\ WriteLive(req[p].token, req[p].exp)
    /\ IF req[p].op = "refresh" THEN Continue(p, [req[p] EXCEPT !.at = "extend"]) ELSE End(p)
    /\ UNCHANGED <<row, tomb, now>>

\* Sliding renewal: the update is by id alone.
Extend(p) ==
    LET t == req[p].token
    IN /\ At(p, "extend")
       /\ row' = [row EXCEPT ![t].exp = now + Ttl]
       /\ Continue(p, [req[p] EXCEPT !.at = "recache", !.exp = now + Ttl])
       /\ UNCHANGED <<live, tomb, now>>

Recache(p) ==
    /\ At(p, "recache")
    /\ WriteLive(req[p].token, req[p].exp)
    /\ End(p)
    /\ UNCHANGED <<row, tomb, now>>

-----------------------------------------------------------------------------
(* revoke, revokeByToken, revokeAllForUser *)

FindToRevoke(p, t) ==
    /\ At(p, "idle")
    /\ t \in Active
    /\ Continue(p, [Idle EXCEPT !.at = "update", !.op = "revoke", !.token = t,
                                !.exp = row[t].exp])
    /\ UNCHANGED <<row, live, tomb, now>>

UpdateRevoked(p) ==
    /\ At(p, "update") /\ req[p].op = "revoke"
    /\ Revoke({req[p].token})
    /\ Continue(p, [req[p] EXCEPT !.at = "kick"])
    /\ UNCHANGED <<live, tomb, now>>

KickRevoked(p) ==
    /\ At(p, "kick")
    /\ Kick(req[p].token, req[p].exp)
    /\ End(p)
    /\ UNCHANGED <<row, now>>

FindAll(p) ==
    /\ At(p, "idle")
    /\ Active # {}
    /\ Continue(p, [Idle EXCEPT !.at = "update", !.op = "all", !.seen = Active,
                                !.left = Expiries(Active)])
    /\ UNCHANGED <<row, live, tomb, now>>

\* The statement revokes what is active now; the tombstones are for what was
\* active when it was read.
UpdateAll(p) ==
    /\ At(p, "update") /\ req[p].op = "all"
    /\ Revoke(Active)
    /\ Continue(p, [req[p] EXCEPT !.at = "evict"])
    /\ UNCHANGED <<live, tomb, now>>

-----------------------------------------------------------------------------
\* The process dies, or Redis or the database throws.
Crash(p) ==
    /\ Crashes /\ ~At(p, "idle")
    /\ End(p)
    /\ UNCHANGED <<row, live, tomb, now>>

Tick ==
    /\ now < MaxTime
    /\ now' = now + 1
    /\ live' = [t \in Tokens |-> IF live[t].until > now + 1 THEN live[t] ELSE NoEntry]
    /\ tomb' = [t \in Tokens |-> IF tomb[t].until > now + 1 THEN tomb[t]
                                  ELSE [tomb[t] EXCEPT !.until = 0]]
    /\ UNCHANGED <<row, req>>

Next ==
    \/ \E p \in Requests :
        \/ \E d \in Devices \cup {None} : IssueRead(p, d)
        \/ \E t \in Tokens : \E victims \in SUBSET Tokens : IssueCommit(p, t, victims)
        \/ IssueFails(p) \/ IssueFill(p)
        \/ \E t \in Tokens : KickNext(p, t)
        \/ \E t \in Tokens, op \in {"validate", "refresh"} : Judge(p, t, op)
        \/ Find(p) \/ CacheRow(p) \/ Extend(p) \/ Recache(p)
        \/ \E t \in Tokens : FindToRevoke(p, t)
        \/ UpdateRevoked(p) \/ KickRevoked(p)
        \/ FindAll(p) \/ UpdateAll(p)
        \/ Crash(p)
    \/ Tick

Spec == Init /\ [][Next]_vars

-----------------------------------------------------------------------------
TypeOK ==
    /\ row \in [Tokens -> RowType]
    /\ live \in [Tokens -> EntryType]
    /\ tomb \in [Tokens -> EntryType]
    /\ req \in [Requests -> ReqType]
    /\ now \in 0..MaxTime

\* A kick is final (session.service.ts, tombstone and validate): once a session
\* was tombstoned it is never accepted again, also after the tombstone's TTL and
\* although requests that found it alive may still write it to the cache -
\* unless a racing refresh moved the expiry beyond the one the kick had read.
KickIsFinal ==
    \A t \in Tokens : tomb[t] # NoEntry /\ tomb[t].exp >= row[t].exp => ~Accepts(t)

\* A live session is let in (validate over a cache that late writers may fill
\* with an older expiry): an active, unexpired session is refused at most while
\* an entry of the minimal TTL lasts.
ActiveLetIn ==
    \A t \in Active : Unexpired(t) => Accepts(t) \/ live[t].until <= now + 1

\* What the guard's comment promises ("so revocation is instant"), where no
\* request dies: a session is out when no request that revokes sessions is under way any more.
RevocationInstant ==
    \A t \in Tokens :
        /\ row[t].status = "revoked"
        /\ \A p \in Requests : req[p].op \in {"validate", "refresh"}
        => ~Accepts(t)
=============================================================================
