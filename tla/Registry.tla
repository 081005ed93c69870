------------------------------ MODULE Registry ------------------------------
(***************************************************************************)
(* RegistryBootstrapService in each instance: the writes of the catalog    *)
(* and the snapshot the instance serves from its memory.                   *)
(*                                                                         *)
(* A write is one SERIALIZABLE transaction under an advisory lock, in      *)
(* which the next snapshot is built; only after the commit is it put in    *)
(* place.  The operations of one instance queue behind each other; nothing *)
(* tells the other instances.                                              *)
(***************************************************************************)
EXTENDS Catalog

CONSTANTS
    None,
    Instances,
    InUse,      \* a catalog with local resources
    Bundle,     \* the release embedded in the build an instance runs
    MaxEpoch,   \* bound: activations
    MaxHead     \* bound: revisions of a resource

VARIABLES
    db,
    epoch,   \* catalog_epoch
    snap,    \* the snapshot an instance serves
    pending, \* snapshots built by an instance and not yet put in place
    own,     \* history: the last epoch an instance has heard of having committed
    pins     \* the Task that is followed: its pin, the epoch, and its route

vars == <<db, epoch, snap, pending, own, pins>>

Snapshot == [epoch : 0..MaxEpoch, catalog : CatalogType]
emptySnapshot == [epoch |-> 0, catalog |-> Empty]
Ready(i) == snap[i] # emptySnapshot
NoRoute == [channel |-> None, revision |-> 0]

Init ==
    /\ db \in {Empty, InUse}
    /\ epoch = IF db = Empty THEN 0 ELSE 1
    /\ snap = [i \in Instances |-> emptySnapshot]
    /\ pending = [i \in Instances |-> {}]
    /\ own = [i \in Instances |-> 0]
    /\ pins = {}

-----------------------------------------------------------------------------
\* enqueue: an operation starts when the one before it has ended.
Overtaking(i) == TRUE              \* mutant: operations do not queue
Queued(i) == pending[i] = {}

BuildsLater(d) == TRUE             \* mutant: the snapshot is built after the commit
BuildsNow(d) == Builds(d)

\* The epoch is committed with the catalog; the acknowledgement may be lost.
CommitEpoch(i, d, e) ==
    /\ e <= MaxEpoch
    /\ BuildsNow(d)
    /\ db' = d /\ epoch' = e
    /\ \/ /\ pending' = [pending EXCEPT ![i] = @ \cup {[epoch |-> e, catalog |-> d]}]
          /\ own' = [own EXCEPT ![i] = e]
       \/ UNCHANGED <<pending, own>>
    /\ UNCHANGED <<snap, pins>>

\* Whatever is written takes an epoch of its own.
MutateLocal(i) ==
    /\ Ready(i) /\ Queued(i)
    /\ \E d \in LocalWrites(db) :
          /\ \A u \in Resources : HeadOf(d, u) <= MaxHead
          /\ CommitEpoch(i, d, epoch + 1)

\* A bundle older than the active release leaves that one in place.
Imported(i) ==
    IF db.release > Bundle[i] THEN {db}
    ELSE IF MayActivate(db, Bundle[i]) THEN {Activate(db, Bundle[i])} ELSE {}

EpochKept(d) == epoch              \* mutant: a release is activated in its epoch
EpochOf(d) == IF d = db THEN epoch ELSE epoch + 1

\* reload: the bootstrap, and on request.
Reload(i) ==
    /\ Queued(i)
    /\ \E d \in Imported(i) : CommitEpoch(i, d, EpochOf(d))

\* setSnapshot.
SetSnapshot(i) ==
    /\ \E x \in pending[i] :
          snap' = [snap EXCEPT ![i] = x] /\ pending' = [pending EXCEPT ![i] = @ \ {x}]
    /\ UNCHANGED <<db, epoch, own, pins>>

\* The process ends and is started again.
Restart(i) ==
    /\ Ready(i) \/ pending[i] # {}
    /\ snap' = [snap EXCEPT ![i] = emptySnapshot]
    /\ pending' = [pending EXCEPT ![i] = {}]
    /\ own' = [own EXCEPT ![i] = 0]
    /\ UNCHANGED <<db, epoch, pins>>

\* A Task is created and keeps the pin; one Task is followed.
TakePin(i) ==
    /\ pins = {}
    /\ \E m \in Models :
          /\ Available(snap[i].catalog, m)
          /\ pins' = {[pin |-> PinOf(snap[i].catalog, m), epoch |-> snap[i].epoch,
                       route |-> NoRoute]}
    /\ UNCHANGED <<db, epoch, snap, pending, own>>

\* Some instance sends it to the vendor and keeps the channel's revision.
Dispatch(i) ==
    /\ \E x \in pins : \E c \in Candidates(snap[i].catalog, x.pin, db) :
          /\ x.route = NoRoute
          /\ pins' = {[x EXCEPT !.route = RouteOf(snap[i].catalog, c)]}
    /\ UNCHANGED <<db, epoch, snap, pending, own>>

Next ==
    \E i \in Instances :
        \/ MutateLocal(i) \/ Reload(i) \/ SetSnapshot(i) \/ Restart(i)
        \/ TakePin(i) \/ Dispatch(i)

Spec == Init /\ [][Next]_vars

-----------------------------------------------------------------------------
\* The variables have their types.
TypeOK ==
    /\ db \in CatalogType /\ epoch \in 0..MaxEpoch
    /\ snap \in [Instances -> Snapshot] /\ own \in [Instances -> 0..MaxEpoch]
    /\ \A i \in Instances : \A x \in pending[i] : x \in Snapshot
    /\ \A x \in pins : x.epoch \in 1..MaxEpoch

\* Whatever the administrators do, in whatever order and on whichever instance,
\* the stored catalog can be built into a snapshot, so an instance that restarts
\* on it finds its models.
StoredCatalogBuilds == db # Empty => Builds(db)

\* A Task that was accepted keeps its model and price, and one that was sent
\* keeps its way to the vendor, for polls and the cancel: through updates, new
\* prices, other adapters, switches and retirement, until something is revoked.
TaskStaysReachable ==
    \A x \in pins, i \in Instances :
        LET d == snap[i].catalog
            Gone(us) == \E u \in us : Revoked(d, u) IN
        snap[i].epoch >= x.epoch =>
            \/ Gone({x.pin.model, Owner[x.pin.model], RateOf[x.pin.model]})
            \/ /\ Resolves(d, x.pin)
               /\ \/ x.route = NoRoute \/ Gone({x.route.channel})
                  \/ Reaches(d, x.pin, x.route, db)

\* An instance whose operations have ended serves its own writes: no older
\* snapshot is put in place after a newer one.
OwnWritesServed ==
    \A i \in Instances : pending[i] = {} => snap[i].epoch >= own[i]

\* An epoch names one content, on every instance and in the database, for the
\* pins that record it and the revision that is published.
EpochNamesContent ==
    LET held == (UNION {pending[i] \cup {snap[i]} : i \in Instances})
                    \cup {[epoch |-> epoch, catalog |-> db]} IN
    \A x, y \in held : x.epoch = y.epoch => x.catalog = y.catalog
=============================================================================
