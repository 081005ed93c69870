--------------------------- MODULE ObjectStorage ---------------------------
(***************************************************************************)
(* The object storage settings (ObjectStorageClient): the stored row and   *)
(* the client each instance has built from it.                             *)
(*                                                                         *)
(* A request resolves the secrets it was not given from the stored ones,   *)
(* perhaps probes the storage, and saves.  The save looks at the row and   *)
(* then writes the columns that differ from what it has seen.              *)
(***************************************************************************)
EXTENDS FiniteSets

CONSTANTS
    Requests,
    Configs,  \* endpoint, bucket and the other public settings
    Secrets,
    Instances,
    At,       \* request -> the instance that serves it
    None

VARIABLES
    row,      \* public_config with its verified_at, and the encrypted secrets
    runtime,  \* the client an instance uses, or None
    req,
    probed,   \* history: what the storage has been probed with
    overlap   \* history: a save was overtaken between its look and its write

vars == <<row, runtime, req, probed, overlap>>

Row == [config : Configs, verified : BOOLEAN, secret : Secrets]
Stored == row # None
RequestType == [step : {"idle", "resolve", "probe", "look", "write", "use", "load"},
                test : BOOLEAN, new : Row \cup {None}, secret : Secrets \cup {None},
                config : Configs \cup {None}, seen : Row \cup {None}]
Idle == [step |-> "idle", test |-> FALSE, new |-> None, secret |-> None, config |-> None,
         seen |-> None]
Client(r) == [config |-> r.config, secret |-> r.secret]

Init ==
    /\ row = None /\ probed = {} /\ overlap = FALSE
    /\ runtime = [i \in Instances |-> None]
    /\ req = [p \in Requests |-> Idle]

Continue(p, r) == req' = [req EXCEPT ![p] = r]

-----------------------------------------------------------------------------
(* updateSettings and testSettings. *)

Ask(p) ==
    /\ req[p] = Idle
    /\ \E c \in Configs, s \in Secrets \cup {None}, t \in BOOLEAN :
          Continue(p, [Idle EXCEPT !.step = "resolve", !.config = c, !.secret = s, !.test = t])
    /\ UNCHANGED <<row, runtime, probed, overlap>>

KeepsMark(t) == t \/ (Stored /\ row.verified)  \* mutant: an update keeps the mark of the row
\* resolveCandidate starts from an unverified candidate; testSettings marks it later.
Marked(t) == t

Resolve(p) ==
    LET s == IF req[p].secret # None THEN req[p].secret
             ELSE IF Stored THEN row.secret ELSE None
        new == [config |-> req[p].config, verified |-> Marked(req[p].test), secret |-> s] IN
    /\ req[p].step = "resolve"
    /\ \/ s = None /\ Continue(p, Idle)
       \/ /\ s # None
          /\ Continue(p, [Idle EXCEPT !.step = IF req[p].test THEN "probe" ELSE "look",
                                      !.new = new])
    /\ UNCHANGED <<row, runtime, probed, overlap>>

\* Put, head and delete of a probe object; any failure ends the request.
Probe(p) ==
    /\ req[p].step = "probe"
    /\ \/ Continue(p, [req[p] EXCEPT !.step = "look"]) /\ probed' = probed \cup {Client(req[p].new)}
       \/ Continue(p, Idle) /\ UNCHANGED probed
    /\ UNCHANGED <<row, runtime, overlap>>

\* persistResolved: save finds the row, compares, and writes.
Look(p) ==
    /\ req[p].step = "look"
    /\ Continue(p, [req[p] EXCEPT !.step = "write", !.seen = row])
    /\ UNCHANGED <<row, runtime, probed, overlap>>

\* The payload is encrypted anew and always differs; a verified_at is a new time.
\* Two saves that have both seen no row cannot both insert it.
Write(p) ==
    LET new == req[p].new seen == req[p].seen
        same == seen # None /\ new.config = seen.config /\ ~new.verified /\ ~seen.verified IN
    /\ req[p].step = "write"
    /\ \/ /\ (seen = None) => ~Stored
          /\ row' = IF same THEN [row EXCEPT !.secret = new.secret] ELSE new
          /\ overlap' = (overlap \/ row # seen)
          /\ Continue(p, [req[p] EXCEPT !.step = "use", !.seen = None])
       \/ Continue(p, Idle) /\ UNCHANGED <<row, overlap>>
    /\ UNCHANGED <<runtime, probed>>

Use(p) ==
    /\ req[p].step = "use"
    /\ runtime' = [runtime EXCEPT ![At[p]] = Client(req[p].new)]
    /\ Continue(p, Idle)
    /\ UNCHANGED <<row, probed, overlap>>

-----------------------------------------------------------------------------
(* getRuntime, of every operation on an object. *)

ReadRow(p) ==
    /\ req[p] = Idle /\ runtime[At[p]] = None /\ Stored
    /\ Continue(p, [Idle EXCEPT !.step = "load", !.seen = row])
    /\ UNCHANGED <<row, runtime, probed, overlap>>

SetRuntime(p) ==
    /\ req[p].step = "load"
    /\ runtime' = [runtime EXCEPT ![At[p]] = Client(req[p].seen)]
    /\ Continue(p, Idle)
    /\ UNCHANGED <<row, probed, overlap>>

Restart(i) ==
    /\ runtime' = [runtime EXCEPT ![i] = None]
    /\ req' = [p \in Requests |-> IF At[p] = i THEN Idle ELSE req[p]]
    /\ UNCHANGED <<row, probed, overlap>>

Next ==
    \/ \E p \in Requests :
          \/ Ask(p) \/ Resolve(p) \/ Probe(p) \/ Look(p) \/ Write(p) \/ Use(p)
          \/ ReadRow(p) \/ SetRuntime(p)
    \/ \E i \in Instances : Restart(i)

Spec == Init /\ [][Next]_vars

-----------------------------------------------------------------------------
\* The variables have their types.
TypeOK ==
    /\ row = None \/ row \in Row
    /\ req \in [Requests -> RequestType]
    /\ \A i \in Instances : runtime[i] = None \/ runtime[i] \in [config : Configs, secret : Secrets]
    /\ probed \subseteq [config : Configs, secret : Secrets]
    /\ overlap \in BOOLEAN

\* What is stored as verified - the readiness of the setup rests on it - was
\* probed with these very settings and secrets, whatever else is saved between
\* the probe and its save.  Excepted are saves that overlap: each writes the
\* columns that differ from the row it has seen.
VerifiedWasProbed == Stored /\ row.verified /\ ~overlap => Client(row) \in probed
=============================================================================
