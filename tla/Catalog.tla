------------------------------- MODULE Catalog -------------------------------
(***************************************************************************)
(* The model catalog: providers, their channels and models, the rate cards *)
(* of the models and the credentials of the channels, as the services      *)
(* write them and as RegistrySnapshotFactory reads them.                   *)
(*                                                                         *)
(* A catalog d is the content of the tables: every revision of every       *)
(* resource, the active official release, the runtime settings and the     *)
(* credentials.  The operators say what a write makes of it, whether a     *)
(* snapshot can be built from it, and what that snapshot answers.          *)
(***************************************************************************)
EXTENDS Naturals, SequencesExt

CONSTANTS
    Providers, Channels, Models,
    Owner,      \* the provider of a channel or model
    RateOf,     \* the rate card of a model: its slug is the model's
    Name,       \* the slug of a provider, the model_id of a model
    Official,   \* the resources of the embedded bundles
    Bundles,    \* release sequence -> [resource -> [revision, document]]
    Adapters,
    AuthMethods

Rates == {RateOf[m] : m \in Models}
Resources == Providers \cup Channels \cup Models \cup Rates
Local == Resources \ Official
Releases == DOMAIN Bundles

Document == [life : {"active", "retired", "revoked"}, adapters : SUBSET Adapters,
             auth : AuthMethods \cup {"none"}, uses : SUBSET Channels, priced : BOOLEAN]
Active == [life |-> "active", adapters |-> {}, auth |-> "none", uses |-> {},
           priced |-> FALSE]
CatalogType == [revs : [Resources -> Seq(Document)], release : Releases \cup {0},
                enabled : [Providers \cup Channels \cup Models -> BOOLEAN],
                cred : [Channels -> {"none", "disabled", "enabled"}]]
Empty == [revs |-> [u \in Resources |-> <<>>], release |-> 0,
          enabled |-> [u \in Providers \cup Channels \cup Models |-> FALSE],
          cred |-> [c \in Channels |-> "none"]]

Exists(d, u) == d.revs[u] # <<>>
HeadOf(d, u) == Len(d.revs[u])
Doc(d, u) == Last(d.revs[u])
Current(d, u) == Exists(d, u) /\ Doc(d, u).life = "active"
Revoked(d, u) == Exists(d, u) /\ Doc(d, u).life = "revoked"

-----------------------------------------------------------------------------
(* CatalogLocalWriterService. *)

Appended(d, u, doc) == [d EXCEPT !.revs[u] = Append(@, doc)]
CreateWith(d, u, doc, on) == [Appended(d, u, doc) EXCEPT !.enabled[u] = on]
\* Terminal revisions are appended, never deleted.
Retire(d, u) == Appended(d, u, [Doc(d, u) EXCEPT !.life = "retired"])
RetireSettled(d, u) == [Retire(d, u) EXCEPT !.enabled[u] = FALSE]

NameFree(d, kind, u) == \A v \in kind : Exists(d, v) => Name[v] # Name[u]
Compatible(d, u, doc) ==
    /\ doc.uses # {}
    /\ \A c \in doc.uses :
          Current(d, c) /\ Owner[c] = Owner[u] /\ doc.adapters \subseteq Doc(d, c).adapters
DeclaredBy(d, u, doc) ==
    Current(d, Owner[u]) /\ doc.adapters # {} /\ doc.adapters \subseteq Doc(d, Owner[u]).adapters

\* ProviderService, ChannelService.
Speaking(doc, A, a) == [doc EXCEPT !.adapters = A, !.auth = a]
CreatedProviders(d) ==
    {CreateWith(d, u, Speaking(Active, A, a), on) :
        u \in {v \in Providers \cap Local : ~Exists(d, v) /\ NameFree(d, Providers, v)},
        A \in (SUBSET Adapters) \ {{}}, a \in AuthMethods, on \in BOOLEAN}

\* The authentication method changes only while no credential is stored.
AuthMayChange(d, p) ==
    \A c \in Channels : Owner[c] = p /\ Current(d, c) => d.cred[c] = "none"
UpdatedProviders(d) ==
    {Appended(d, x[1], Speaking(Doc(d, x[1]), x[2], x[3])) :
        x \in {y \in (Providers \cap Local) \X ((SUBSET Adapters) \ {{}}) \X AuthMethods :
                  /\ Current(d, y[1])
                  /\ y[3] # Doc(d, y[1]).auth => AuthMayChange(d, y[1])}}
RemovedProviders(d) ==
    {RetireSettled(d, u) :
        u \in {v \in Providers \cap Local :
                  /\ Current(d, v)
                  /\ \A w \in Channels \cup Models : Owner[w] = v => ~Current(d, w)}}

CreatedChannels(d) ==
    {CreateWith(d, x[1], x[2], on) : on \in BOOLEAN,
        x \in {y \in (Channels \cap Local) \X {[Active EXCEPT !.adapters = A] : A \in SUBSET Adapters} :
                  ~Exists(d, y[1]) /\ DeclaredBy(d, y[1], y[2])}}
UpdatedChannels(d) ==
    {Appended(d, x[1], x[2]) :
        x \in {y \in (Channels \cap Local) \X {[Active EXCEPT !.adapters = A] : A \in SUBSET Adapters} :
                  Current(d, y[1]) /\ DeclaredBy(d, y[1], y[2])}}
RemovedChannels(d) ==
    {RetireSettled(d, u) :
        u \in {v \in Channels \cap Local :
                  /\ Current(d, v)
                  /\ \A m \in Models : Current(d, m) => v \notin Doc(d, m).uses}}

-----------------------------------------------------------------------------
(* ModelDefinitionService, and the models imported with a credential. *)

ModelDoc(a, C, b) == [Active EXCEPT !.adapters = {a}, !.uses = C, !.priced = b]
ModelDocs ==
    {ModelDoc(a, C, b) : a \in Adapters, C \in (SUBSET Channels) \ {{}}, b \in BOOLEAN}

\* The rate card comes first, linked by the model that is created after it.
WithRate(d, m, doc) == IF doc.priced THEN Appended(d, RateOf[m], Active) ELSE d
CreatedModels(d) ==
    {CreateWith(WithRate(d, x[1], x[2]), x[1], x[2], on) : on \in BOOLEAN,
        x \in {y \in (Models \cap Local) \X ModelDocs :
                  /\ ~Exists(d, y[1]) /\ NameFree(d, Models, y[1])
                  /\ DeclaredBy(d, y[1], y[2]) /\ Compatible(d, y[1], y[2])}}

\* A card that was retired keeps its slug, so that the model cannot be priced
\* again; a price that stays priced may be a new revision of the card.
Reprices(d, m, doc) ==
    IF doc.priced
    THEN IF Doc(d, m).priced THEN {d, Appended(d, RateOf[m], Active)}
         ELSE IF Exists(d, RateOf[m]) THEN {} ELSE {Appended(d, RateOf[m], Active)}
    ELSE IF Doc(d, m).priced THEN {Retire(d, RateOf[m])} ELSE {d}
StructuralUpdates(d) ==
    UNION {{Appended(e, x[1], x[2]) : e \in Reprices(d, x[1], x[2])} :
              x \in {y \in (Models \cap Local) \X ModelDocs :
                        Current(d, y[1]) /\ DeclaredBy(d, y[1], y[2]) /\ Compatible(d, y[1], y[2])}}
\* New prices on the same card, or another order in the list, leave the model
\* at its revision.
UpdatedModels(d) ==
    StructuralUpdates(d) \cup
    UNION {Reprices(d, m, Doc(d, m)) : m \in {n \in Models \cap Local : Current(d, n)}}

ForkedModels(d) ==
    {CreateWith(WithRate(d, x[1], Doc(d, x[2])), x[1], Doc(d, x[2]), FALSE) :
        x \in {y \in (Models \cap Local) \X Models :
                  /\ ~Exists(d, y[1]) /\ NameFree(d, Models, y[1])
                  /\ Current(d, y[2]) /\ Owner[y[1]] = Owner[y[2]]
                  /\ Doc(d, y[2]).priced => Current(d, RateOf[y[2]])}}

RetireRate(d, m) == IF Doc(d, m).priced THEN Retire(d, RateOf[m]) ELSE d
RemovedModels(d) ==
    {RetireSettled(RetireRate(d, u), u) : u \in {m \in Models \cap Local : Current(d, m)}}

-----------------------------------------------------------------------------
(* Settings and credentials. *)

Switched(d) ==
    {[d EXCEPT !.enabled[u] = ~@] : u \in {v \in DOMAIN d.enabled : Current(d, v)}}

CredentialOwned(d, c) == Current(d, c) /\ Current(d, Owner[c])
CredentialsSet(d) ==
    {[d EXCEPT !.cred[c] = s] : c \in {k \in Channels : CredentialOwned(d, k)},
                                s \in {"disabled", "enabled"}}
CredentialsArchived(d) ==
    {[d EXCEPT !.cred[c] = "none"] : c \in {k \in Channels : d.cred[k] # "none"}}

\* addCredentialWithModels: the credential, its channel and provider enabled,
\* and the official models that were picked.
SwitchedOn(d, us) == [u \in DOMAIN d.enabled |-> d.enabled[u] \/ u \in us]
Onboarded(d) ==
    {[d EXCEPT !.cred[x[1]] = "enabled",
               !.enabled = SwitchedOn(d, {x[1], Owner[x[1]]} \cup x[2])] :
        x \in {y \in Channels \X SUBSET (Models \cap Official) :
                  /\ CredentialOwned(d, y[1])
                  /\ \A m \in y[2] : Current(d, m) /\ y[1] \in Doc(d, m).uses}}

\* The catalogs one mutation may leave.
LocalWrites(d) ==
    UNION {CreatedProviders(d), UpdatedProviders(d), RemovedProviders(d),
           CreatedChannels(d), UpdatedChannels(d), RemovedChannels(d),
           CreatedModels(d), UpdatedModels(d), ForkedModels(d), RemovedModels(d),
           Switched(d), CredentialsSet(d), CredentialsArchived(d), Onboarded(d)}

-----------------------------------------------------------------------------
(* The official release. *)

Continues(d, u, b) ==
    \/ HeadOf(d, u) = b[u].revision /\ (Exists(d, u) => Doc(d, u) = b[u].document)
    \/ /\ HeadOf(d, u) + 1 = b[u].revision
       /\ Revoked(d, u) => b[u].document.life = "revoked"
       /\ Exists(d, u) /\ Doc(d, u).life = "retired" => b[u].document.life # "active"

\* No resource is left out and every revision is the stored one or the next.
MayActivate(d, n) ==
    /\ \A u \in Official : Exists(d, u) => u \in DOMAIN Bundles[n]
    /\ \A u \in DOMAIN Bundles[n] : Continues(d, u, Bundles[n])

Activate(d, n) ==
    [d EXCEPT !.release = n,
              !.revs = [u \in Resources |->
                 IF u \in DOMAIN Bundles[n] /\ HeadOf(d, u) < Bundles[n][u].revision
                 THEN Append(d.revs[u], Bundles[n][u].document) ELSE d.revs[u]]]

-----------------------------------------------------------------------------
(* RegistrySnapshotFactory. *)

\* Two active models of one model_id, two providers of one slug.
NamesUnique(d) ==
    /\ \A u, v \in Models : Current(d, u) /\ Current(d, v) /\ Name[u] = Name[v] => u = v
    /\ \A u, v \in Providers : Exists(d, u) /\ Exists(d, v) /\ Name[u] = Name[v] => u = v
CredentialsOwned(d) ==
    \A c \in Channels : d.cred[c] = "enabled" => CredentialOwned(d, c)
ChannelsOwned(d) ==
    \A c \in Channels : Exists(d, c) =>
        Exists(d, Owner[c]) /\ Doc(d, c).adapters \subseteq Doc(d, Owner[c]).adapters
RatesLinked(d) ==
    \A m \in Models : Current(d, RateOf[m]) => Current(d, m) /\ Doc(d, m).priced
ModelsServable(d) ==
    \A m \in Models : Current(d, m) =>
        /\ DeclaredBy(d, m, Doc(d, m)) /\ Compatible(d, m, Doc(d, m))
        /\ Doc(d, m).priced => Current(d, RateOf[m])

\* build throws otherwise.
Builds(d) ==
    /\ NamesUnique(d) /\ CredentialsOwned(d) /\ ChannelsOwned(d)
    /\ RatesLinked(d) /\ ModelsServable(d)

\* byRevisionId: what was active once and is not revoked since.
ByRevisionNow(d) == {x \in Models \X (1..3) : Current(d, x[1]) /\ x[2] = HeadOf(d, x[1])} \* mutant: current ones only
ByRevision(d) ==
    {x \in UNION {{m} \X DOMAIN d.revs[m] : m \in Models} :
        /\ d.revs[x[1]][x[2]].life = "active"
        /\ ~Revoked(d, x[1]) /\ ~Revoked(d, Owner[x[1]])}
RateRevisions(d) ==
    {x \in UNION {{r} \X DOMAIN d.revs[r] : r \in Rates} :
        d.revs[x[1]][x[2]].life = "active" /\ ~Revoked(d, x[1])}

-----------------------------------------------------------------------------
(* RegistryService. *)

\* resolveTaskPin: byId and the head of the rate card.
PinOf(d, m) == [model |-> m, revision |-> HeadOf(d, m),
              rate |-> IF Doc(d, m).priced THEN HeadOf(d, RateOf[m]) ELSE 0]
Pinnable(d) == {m \in Models : Current(d, m) /\ d.enabled[m]}

\* requirePinnedEntry.
Resolves(d, pin) ==
    /\ <<pin.model, pin.revision>> \in ByRevision(d)
    /\ pin.rate # 0 => <<RateOf[pin.model], pin.rate>> \in RateRevisions(d)
    /\ d.revs[pin.model][pin.revision].priced <=> pin.rate # 0

-----------------------------------------------------------------------------
(* ModelAvailabilityService, ChannelResolverService, CredentialResolver-   *)
(* Service: the channel and credential of a request.                       *)

\* The channels of a model's document that are enabled and current.
Serving(d, m, doc) ==
    {c \in doc.uses : /\ Current(d, c) /\ d.enabled[c] /\ Owner[c] = Owner[m]
                      /\ doc.adapters \subseteq Doc(d, c).adapters}
Keyed(d, c) == d.cred[c] = "enabled"
\* requireCurrent: a Task is accepted for a model that can be served now.
Available(d, m) ==
    /\ m \in Pinnable(d)
    /\ Current(d, Owner[m]) /\ d.enabled[Owner[m]]
    /\ \E c \in Serving(d, m, Doc(d, m)) : Keyed(d, c)

\* A pinned request: the model and its provider may be switched off or retired
\* by now, the channel may not, and its credential is read from the database.
Candidates(d, pin, now) ==
    IF Resolves(d, pin)
    THEN {c \in Serving(d, pin.model, d.revs[pin.model][pin.revision]) : Keyed(now, c)}
    ELSE {}
RouteOf(d, c) == [channel |-> c, revision |-> HeadOf(d, c)]

\* getHistoricalRoute: poll and cancel of what was sent.  Only a revocation
\* takes the route away, however the channel has changed since.
HistoricalNow(d, pin, route, now) ==             \* mutant: the channel of today
    route.channel \in Serving(d, pin.model, d.revs[pin.model][pin.revision])
Historical(d, pin, route, now) ==
    LET doc == d.revs[pin.model][pin.revision]
        sent == now.revs[route.channel][route.revision] IN
    /\ Exists(d, route.channel) /\ ~Revoked(d, route.channel)
    /\ Owner[route.channel] = Owner[pin.model] /\ route.channel \in doc.uses
    /\ doc.adapters \subseteq sent.adapters /\ sent.life # "revoked"

\* PollService, CancelService: the request that goes to the vendor with the
\* Task's own credential, disabled or archived as it may be by now.
Reaches(d, pin, route, now) == Resolves(d, pin) /\ Historical(d, pin, route, now)
=============================================================================
