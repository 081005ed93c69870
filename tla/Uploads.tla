------------------------------ MODULE Uploads ------------------------------
(***************************************************************************)
(* One upload: AssetUploadService, AssetUploadCleanupService and the asset *)
(* the upload becomes (AssetService), over the object storage.             *)
(*                                                                         *)
(* The client puts the source and a poster under two staging keys.         *)
(* complete() locks the draft's row, copies both objects to the final keys *)
(* - the same two keys for every attempt - and writes the asset.  Requests *)
(* may complete the draft at once, and a cleanup pass may meet any of them.*)
(***************************************************************************)
EXTENDS FiniteSets

CONSTANTS
    Requests,
    Cleaners,  \* the instances that run the cleanup
    Contents,  \* what a client can put as the source, one ETag each
    Poster,    \* what it puts as the poster
    Declared,  \* the contents of the declared size and type
    None

VARIABLES
    draft,   \* the row of the upload draft
    late,    \* the clock has passed expires_at
    staged,  \* staging key of a part -> content, or None
    final,   \* final key of a part -> content, or None
    asset,   \* the row of the asset, or None
    locks,   \* the requests whose transaction holds the draft's row
    req,
    pass,    \* the cleanup pass of an instance
    undone,  \* history: an attempt lost its transaction and may still copy or discard
    reput    \* history: something was put after the draft was completed

vars == <<draft, late, staged, final, asset, locks, req, pass, undone, reput>>

Parts == {"source", "thumb"}
DraftType == [status : {"none", "pending", "completed", "expired", "deleted"},
              cleaned : BOOLEAN]
AssetType == [source : Contents, thumb : BOOLEAN, deleted : BOOLEAN]
RequestType == [at : {"idle", "lock", "head", "copy", "verify", "thumb", "write",
                      "discard", "clean", "poster"},
                head : Contents \cup {None}, promoted : SUBSET Parts,
                read : AssetType \cup {None}]
Idle == [at |-> "idle", head |-> None, promoted |-> {}, read |-> None]
PassType == [at : {"rest", "delete", "close"}, status : {"completed", "expired"}]
Rest == [at |-> "rest", status |-> "expired"]
Nothing == [k \in Parts |-> None]

Init ==
    /\ draft = [status |-> "none", cleaned |-> FALSE] /\ late = FALSE
    /\ staged = Nothing /\ final = Nothing /\ asset = None
    /\ locks = {}
    /\ req = [p \in Requests |-> Idle]
    /\ pass = [c \in Cleaners |-> Rest]
    /\ undone = FALSE /\ reput = FALSE

\* createIntent.
CreateIntent ==
    /\ draft.status = "none"
    /\ draft' = [draft EXCEPT !.status = "pending"]
    /\ UNCHANGED <<late, staged, final, asset, locks, req, pass, undone, reput>>

\* A presigned URL lives 15 minutes, the draft 60.
Put(k, v) ==
    /\ draft.status \in {"pending", "completed"} /\ ~late
    /\ staged' = [staged EXCEPT ![k] = v]
    /\ reput' = (reput \/ draft.status = "completed")
    /\ UNCHANGED <<draft, late, final, asset, locks, req, pass, undone>>

Expire ==
    /\ draft.status # "none" /\ ~late /\ late' = TRUE
    /\ UNCHANGED <<draft, staged, final, asset, locks, req, pass, undone, reput>>

-----------------------------------------------------------------------------
(* complete. *)

At(p, step) == req' = [req EXCEPT ![p].at = step]
Done(p) == req' = [req EXCEPT ![p] = Idle]
Release(p) == locks' = locks \ {p}

\* The transaction is rolled back; what was promoted is discarded afterwards.
Fail(p) ==
    /\ Release(p)
    /\ IF req[p].promoted = {} THEN Done(p) ELSE At(p, "discard")
    /\ undone' = (undone \/ req[p].promoted # {})

\* An asset that exists answers at once.
Complete(p) ==
    /\ req[p].at = "idle" /\ draft.status # "none" /\ asset = None
    /\ At(p, "lock")
    /\ UNCHANGED <<draft, late, staged, final, asset, locks, pass, undone, reput>>

ReadDraft == TRUE        \* mutant: the row is read without its lock
LockDraft == locks = {}

Locked(p) ==
    /\ req[p].at = "lock" /\ LockDraft
    /\ \/ /\ asset = None /\ draft.status = "pending" /\ ~late
          /\ locks' = locks \cup {p} /\ At(p, "head")
       \/ Done(p) /\ UNCHANGED locks \* materialized, expired, gone or not allowed
    /\ UNCHANGED <<draft, late, staged, final, asset, pass, undone, reput>>

\* A source that is not there or not as declared is discarded, as far as the
\* storage answers.
Head(p) ==
    /\ req[p].at = "head"
    /\ \/ /\ staged["source"] \in Declared
          /\ req' = [req EXCEPT ![p].at = "copy", ![p].head = staged["source"]]
          /\ UNCHANGED <<staged, locks, undone>>
       \/ /\ staged["source"] \notin Declared
          /\ \E D \in SUBSET Parts :
                staged' = [k \in Parts |-> IF k \in D THEN None ELSE staged[k]]
          /\ Fail(p)
    /\ UNCHANGED <<draft, late, final, asset, pass, reput>>

Promote(p, k, next) ==
    /\ final' = [final EXCEPT ![k] = staged[k]]
    /\ req' = [req EXCEPT ![p].at = next, ![p].promoted = @ \cup {k}]

\* Copied only while the staged object still has the ETag of the head.
CopySource(p) ==
    /\ req[p].at = "copy" /\ staged["source"] = req[p].head
    /\ Promote(p, "source", "verify")
    /\ UNCHANGED <<draft, late, staged, asset, locks, pass, undone, reput>>

Verify(p) ==
    /\ req[p].at = "verify"
    /\ \/ /\ final["source"] \in Declared
          /\ req' = [req EXCEPT ![p].at = "thumb", ![p].head = final["source"]]
          /\ UNCHANGED <<locks, undone>>
       \/ final["source"] \notin Declared /\ Fail(p)
    /\ UNCHANGED <<draft, late, staged, final, asset, pass, reput>>

\* A poster that was not asked for, is missing or is not one is left out.
CopyThumb(p) ==
    /\ req[p].at = "thumb"
    /\ \/ staged["thumb"] # None /\ Promote(p, "thumb", "write")
       \/ At(p, "write") /\ UNCHANGED final
    /\ UNCHANGED <<draft, late, staged, asset, locks, pass, undone, reput>>

\* The storage throws or the ETag has changed; a copy that was made may be
\* reported as failed, and is then not among the promoted ones.
CallFails(p) ==
    /\ req[p].at \in {"head", "copy", "verify", "thumb"}
    /\ \/ UNCHANGED final
       \/ req[p].at = "copy" /\ staged["source"] = req[p].head
          /\ final' = [final EXCEPT !["source"] = staged["source"]]
       \/ req[p].at = "thumb" /\ staged["thumb"] # None
          /\ final' = [final EXCEPT !["thumb"] = staged["thumb"]]
    /\ Fail(p)
    /\ UNCHANGED <<draft, late, staged, asset, pass, reput>>

\* uk_assets_upload_draft_id.
Materialize(p) ==
    /\ asset = None
    /\ asset' = [source |-> req[p].head, thumb |-> "thumb" \in req[p].promoted,
                 deleted |-> FALSE]
    /\ draft' = [draft EXCEPT !.status = "completed"]

Write(p) ==
    /\ req[p].at = "write" /\ p \in locks
    /\ Materialize(p)
    /\ Release(p)
    /\ \/ At(p, "clean") /\ UNCHANGED undone
       \/ At(p, "discard") /\ undone' = TRUE \* the acknowledgement is lost
    /\ UNCHANGED <<late, staged, final, pass, reput>>

WriteFails(p) ==
    /\ req[p].at = "write"
    /\ Fail(p)
    /\ UNCHANGED <<draft, late, staged, final, asset, pass, reput>>

\* The connection is lost: the row is free, the request learns of it at the
\* next query.
Disconnect(p) ==
    /\ p \in locks /\ Release(p) /\ undone' = TRUE
    /\ UNCHANGED <<draft, late, staged, final, asset, req, pass, reput>>

\* discardKeys, as far as the storage answers.
Discard(p) ==
    /\ req[p].at = "discard"
    /\ \E D \in SUBSET req[p].promoted :
          final' = [k \in Parts |-> IF k \in D THEN None ELSE final[k]]
    /\ Done(p)
    /\ UNCHANGED <<draft, late, staged, asset, locks, pass, undone, reput>>

\* cleanCompleted, of a row that no one has cleaned yet; nothing tells its two
\* writes apart.
Clean(p) ==
    /\ req[p].at = "clean"
    /\ \/ draft.cleaned /\ UNCHANGED <<staged, draft>>
       \/ ~draft.cleaned /\ staged' = Nothing /\ draft' = [draft EXCEPT !.cleaned = TRUE]
       \/ ~draft.cleaned /\ staged' \in {staged, [staged EXCEPT !["source"] = None]} /\ UNCHANGED draft
    /\ Done(p)
    /\ UNCHANGED <<late, final, asset, locks, pass, undone, reput>>

\* The process dies; its transaction is rolled back.
Crash(p) ==
    /\ req[p].at # "idle"
    /\ Release(p) /\ Done(p)
    /\ undone' = (undone \/ (req[p].promoted # {} /\ req[p].at # "clean"))
    /\ UNCHANGED <<draft, late, staged, final, asset, pass, reput>>

-----------------------------------------------------------------------------
(* runOnce. *)

ClaimAny == late                    \* mutant: takes a row that is locked
Claim == late /\ locks = {}        \* FOR UPDATE SKIP LOCKED

\* A pending row that is late becomes expired; then the expired row, or the
\* completed one whose staging is not cleaned, is worked on.
RunOnce(c) ==
    /\ pass[c].at = "rest"
    /\ \/ /\ draft.status = "pending" /\ Claim
          /\ draft' = [draft EXCEPT !.status = "expired"]
          /\ pass' = [pass EXCEPT ![c] = [at |-> "delete", status |-> "expired"]]
       \/ /\ draft.status = "expired" \/ (draft.status = "completed" /\ ~draft.cleaned)
          /\ pass' = [pass EXCEPT ![c] = [at |-> "delete", status |-> draft.status]]
          /\ UNCHANGED draft
    /\ UNCHANGED <<late, staged, final, asset, locks, req, undone, reput>>

DeleteStagingOrNot(c) == pass' = [pass EXCEPT ![c].at = "close"] \* mutant: an error is passed over
DeleteFailed(c) == pass' = [pass EXCEPT ![c] = Rest]

\* deleteStaging: the source, then the poster; an error leaves the row as it is.
DeleteStaging(c) ==
    /\ pass[c].at = "delete"
    /\ \/ staged' = Nothing /\ pass' = [pass EXCEPT ![c].at = "close"]
       \/ staged' \in {staged, [staged EXCEPT !["source"] = None]} /\ DeleteFailed(c)
    /\ UNCHANGED <<draft, late, final, asset, locks, req, undone, reput>>

\* The expired row is deleted, the completed one marked; a row that has changed
\* meanwhile is left alone.
Close(c) ==
    /\ pass[c].at = "close"
    /\ pass' = [pass EXCEPT ![c] = Rest]
    /\ draft' = IF draft.status # pass[c].status THEN draft
                ELSE IF draft.status = "expired" THEN [draft EXCEPT !.status = "deleted"]
                ELSE [draft EXCEPT !.cleaned = TRUE]
    /\ UNCHANGED <<late, staged, final, asset, locks, req, undone, reput>>

StopPass(c) ==
    /\ pass[c].at # "rest"
    /\ pass' = [pass EXCEPT ![c] = Rest]
    /\ UNCHANGED <<draft, late, staged, final, asset, locks, req, undone, reput>>

-----------------------------------------------------------------------------
(* The asset later on.  Its whole row is saved, as it was read. *)

PosterRead(p) ==
    /\ req[p].at = "idle" /\ asset # None /\ ~asset.deleted
    /\ req' = [req EXCEPT ![p].at = "poster", ![p].read = asset]
    /\ UNCHANGED <<draft, late, staged, final, asset, locks, pass, undone, reput>>

\* completeThumbnail, of a poster the client has put under a key of the asset's.
PosterSave(p) ==
    /\ req[p].at = "poster"
    /\ \/ asset' = [req[p].read EXCEPT !.thumb = FALSE]  \* now outside the draft's keys
       \/ UNCHANGED asset                                \* nothing was put
    /\ Done(p)
    /\ UNCHANGED <<draft, late, staged, final, locks, pass, undone, reput>>

\* softDelete keeps the object.
SoftDelete ==
    /\ asset # None /\ ~asset.deleted
    /\ asset' = [asset EXCEPT !.deleted = TRUE]
    /\ UNCHANGED <<draft, late, staged, final, locks, req, pass, undone, reput>>

Next ==
    \/ CreateIntent \/ Expire \/ SoftDelete
    \/ Put("thumb", Poster) \/ \E v \in Contents : Put("source", v)
    \/ \E p \in Requests :
          \/ Complete(p) \/ Locked(p) \/ Head(p) \/ CopySource(p) \/ Verify(p)
          \/ CopyThumb(p) \/ CallFails(p) \/ Write(p) \/ WriteFails(p) \/ Disconnect(p)
          \/ Discard(p) \/ Clean(p) \/ Crash(p) \/ PosterRead(p) \/ PosterSave(p)
    \/ \E c \in Cleaners : RunOnce(c) \/ DeleteStaging(c) \/ Close(c) \/ StopPass(c)

Spec == Init /\ [][Next]_vars

-----------------------------------------------------------------------------
\* The variables have their types.
TypeOK ==
    /\ draft \in DraftType /\ late \in BOOLEAN
    /\ staged \in [Parts -> Contents \cup {Poster, None}]
    /\ final \in [Parts -> Contents \cup {Poster, None}]
    /\ asset \in AssetType \cup {None}
    /\ locks \subseteq Requests
    /\ req \in [Requests -> RequestType]
    /\ pass \in [Cleaners -> PassType]
    /\ undone \in BOOLEAN /\ reput \in BOOLEAN

\* However attempts, cleanups and new uploads interleave, the object of an asset
\* is the very content that was verified for it, and its poster is there; what
\* can take them away is an attempt whose transaction is gone: it copies until its
\* next query, and its discard names the keys every attempt uses.
AssetHasItsObject ==
    asset # None /\ ~undone =>
        /\ final["source"] = asset.source
        /\ asset.thumb => final["thumb"] # None

\* A client that is told its upload has expired does not find the asset later:
\* the cleanup takes no draft an attempt is completing, and no attempt a draft the
\* cleanup has taken.
ExpiredStaysExpired ==
    [][draft.status \in {"expired", "deleted"} =>
          asset' = None /\ draft'.status \in {"expired", "deleted"}]_vars

\* No staged object is forgotten: a row that a later cleanup selects knows of it,
\* unless the client used its URL again after the draft was completed.
StagingReclaimable ==
    staged # Nothing /\ ~reput =>
        \/ draft.status \in {"pending", "expired"}
        \/ draft.status = "completed" /\ ~draft.cleaned
=============================================================================
