------------------------------ MODULE MCPages ------------------------------
(***************************************************************************)
(* The instances of Credentials, Onboarding, FeatureModels, Inputs, Params *)
(* and GenerationFeed that TLC checks, side by side in one run as in       *)
(* MCSecrets: pages and forms of the web client with the services they     *)
(* call.                                                                   *)
(***************************************************************************)
EXTENDS Naturals, Sequences, FiniteSets, TLC

CONSTANTS
    None,
    CredentialIds, Route, AuthOf, Secrets, Blank, Marker, Foreign,    \* Credentials
    MaxFailover, MaxEdits, MaxJobs,
    Ways, Compatible, Vendor, Listed, Presets, Allowed, MaxSaves,     \* Onboarding
    Bound, Suitable, Admins, Editor,                                  \* FeatureModels
    Tasks, Followed, Home, Created, Calls, MaxList, MaxAt,            \* GenerationFeed
    NodeKinds, InputContracts, Upstream, Assets, AssetType,           \* Inputs
    LibraryEntries, EntryKind, MaterialType, MaxReferences, MaxRefs, MaxUnits,
    Fields, Hidden, Numbers, ParamContracts, Conditions,              \* Params
    main, cli, spare, good, foreign, text, image, preset, picture, voice, hero  \* the small instances

-----------------------------------------------------------------------------
(* A vendor with a key, and one that is reached through its CLI.  Two      *)
(* channels at which the vendor lists different models, and an official    *)
(* model of the first.                                                     *)

SmallRoute == <<main, cli>>
SmallAuthOf == (main :> "api_key") @@ (cli :> "cli_login")
SmallListed == (main :> {text}) @@ (spare :> {image})
SmallAllowed == preset :> {main}

-----------------------------------------------------------------------------
(* What the forms are about. *)

\* The contracts proposed for a model: a mode without slots beside one with two
\* images and a mask; a list of images beside a voiced mode; and two that the
\* catalog does not take.
Slot(name, type, required, min, max, lib) ==
    [slot |-> name, type |-> type, required |-> required, min |-> min, max |-> max, lib |-> lib]
Lib(kind, forms) == [kinds |-> {kind}, forms |-> forms]
Mode(id, slots) == [id |-> id, slots |-> slots]
Source(type, required, min, max, lib) == Slot("source_image", type, required, min, max, lib)

SmallInputContracts ==
    <<[default |-> None,
      modes |-> <<Mode("text_to_image", <<>>),
                  Mode("image_to_image", <<Source("image", TRUE, None, 2, Lib("character", {"material"})),
                                           Slot("mask", "mask", FALSE, None, 1, None)>>)>>],
     [default |-> "image_to_image",
      modes |-> <<Mode("image_to_image", <<Source("image_list", TRUE, None, None, None)>>),
                  Mode("voiced",
                       <<Source("image", FALSE, None, 2, Lib("style", {"material", "provider_ref"})),
                         Slot("driving_audio", "audio", TRUE, None, 1, None)>>)>>],
     [default |-> None,
      modes |-> <<Mode("image_to_image", <<Source("image", TRUE, 2, 1, None)>>)>>],
     [default |-> None,
      modes |-> <<Mode("image_to_image", <<Source("image", TRUE, None, 1, None),
                                           Source("image", FALSE, None, 1, None)>>)>>]>>

\* An edge that carries the picture, or none.
SmallUpstream == {<<>>, <<[slot |-> "reference_image", type |-> "image", asset |-> picture,
                      entry |-> None, units |-> 0]>>}
SmallAssetType == (picture :> "image") @@ (voice :> "audio")
SmallEntryKind == hero :> "character"
SmallMaterialType == hero :> "image"

\* The parameters proposed for a model.
Num(n) == <<"num", n>>
Str(n) == <<"str", n>>
Def(type, options, default, min, max) ==
    [type |-> type, options |-> options, default |-> default, min |-> min, max |-> max,
     hidden |-> FALSE, when |-> None]
Is(field, values) == [op |-> "in", field |-> field, values |-> values]
Action(type, target) ==
    [type |-> type, target |-> target, values |-> {}, min |-> None, max |-> None, required |-> FALSE]
Narrow(target, values) == [Action("restrict_options", target) EXCEPT !.values = values]
Between(target, min, max) == [Action("set_range", target) EXCEPT !.min = min, !.max = max]
Require(target) == [Action("set_required", target) EXCEPT !.required = TRUE]
Schema(props, required, defaults) ==
    [props |-> props, required |-> required,
     defaults |-> [f \in Fields |-> IF f \in DOMAIN defaults THEN defaults[f] ELSE None]]
Plain(schema) == [schema |-> schema, constraints |-> <<>>]

\* Three constraints that overlap; options written as numbers; a default that is
\* no option; and two that the catalog does not take.
SmallParamContracts ==
    <<[schema |-> Schema(("mode" :> Def("enum", <<Str(1), Str(2)>>, None, None, None))
                        @@ ("size" :> Def("enum", <<Str(1), Str(2)>>, Str(2), None, None))
                        @@ ("steps" :> [Def("integer", None, None, 1, 2) EXCEPT
                                          !.when = [op |-> "not", of |-> <<Is("mode", {Str(2)})>>]]),
                        {"size"}, "mode" :> Str(1)),
      constraints |->
        <<[when |-> Is("mode", {Str(1)}),
           do |-> <<Narrow("size", {Str(2)}), Between("steps", 1, 1), Require("steps")>>],
          [when |-> [op |-> "or", of |-> <<Is("size", {Str(1)}),
                                           [op |-> "gte", field |-> "steps", values |-> {Num(2)}]>>],
           do |-> <<Action("hide", "steps"), Between("steps", None, 2), Action("disable", "size")>>],
          [when |-> [op |-> "nin", field |-> "mode", values |-> {Str(1)}],
           do |-> <<Action("show", "steps"), Narrow("size", {Str(1), Str(2)}),
                    Action("set_required", "size")>>]>>],
     Plain(Schema(("size" :> Def("enum", <<Num(2), Num(1)>>, None, None, None))
                  @@ ("steps" :> Def("boolean", None, None, None, None)), {}, "size" :> Num(3))),
     [schema |-> Schema(("size" :> Def("enum", <<Str(1)>>, Str(3), None, None))
                        @@ ("steps" :> Def("enum", <<Str(2), Str(1)>>, None, None, None)), {}, <<>>),
      constraints |->
        <<[when |-> [op |-> "and", of |-> <<Is("size", {Str(3)}),
                                            [op |-> "lt", field |-> "steps", values |-> {Num(2)}]>>],
           do |-> <<Action("set_value", "size")>>]>>],
     Plain(Schema("size" :> Def("slider", None, None, 2, 1), {}, <<>>)),
     Plain(Schema("size" :> Def("slider", None, None, 1, 2), {"steps"}, <<>>))>>

\* The conditions in a contract, which nest to a depth of two, and their parts.
Whens(c) ==
    {c.constraints[i].when : i \in DOMAIN c.constraints}
    \cup ({c.schema.props[f].when : f \in DOMAIN c.schema.props} \ {None})
PartsOf(conditions) ==
    UNION {{c.of[i] : i \in DOMAIN c.of} : c \in {x \in conditions : x.op \in {"and", "or", "not"}}}
AllWhens == UNION {Whens(SmallParamContracts[i]) : i \in DOMAIN SmallParamContracts}
SmallConditions == AllWhens \cup PartsOf(AllWhens)

-----------------------------------------------------------------------------
VARIABLES scope,
          row, used, edits, accepts, asked, call, jobs,
          bound, on, enabled, keys, wizard, asking, import, lists, strayed,
          config, bindings, tx, feature, begun, saved, joined,
          rows, born, feed, listing, round, calls, page, sentFrom, missed,
          contract, form, upload, library, task, chosen, crossed,
          offered, fields, sent

C == INSTANCE Credentials WITH
        Ids <- CredentialIds, Channels <- Route, Auth <- AuthOf, Keys <- Secrets
O == INSTANCE Onboarding WITH Channels <- Ways
M == INSTANCE FeatureModels WITH Models <- Bound, Compatible <- Suitable, page <- feature
F == INSTANCE GenerationFeed
R == INSTANCE Inputs WITH
        Kinds <- {"quick"} \cup NodeKinds, Revisions <- DOMAIN InputContracts,
        ContractOf <- InputContracts, Entries <- LibraryEntries
P == INSTANCE Params WITH
        Forms <- {"quick", "node"}, Revisions <- DOMAIN ParamContracts,
        ContractOf <- ParamContracts, form <- fields

\* The tables and limits of each component, and that None is no record of it.
ASSUME CredentialLimits ==
    /\ IsFiniteSet(CredentialIds) /\ None \notin CredentialIds
    /\ Route \in Seq(DOMAIN AuthOf)
    /\ MaxEdits \in Nat /\ MaxFailover \in Nat \ {0}
    /\ None \notin C!Row
ASSUME ProviderLimits ==
    /\ None \notin Ways /\ Compatible \subseteq Ways /\ Vendor \cap Presets = {}
    /\ Listed \in [Ways -> SUBSET Vendor] /\ Allowed \in [Presets -> SUBSET Ways]
    /\ MaxSaves \in Nat
    /\ None \notin O!List /\ None \notin O!Post
ASSUME FeatureLimits ==
    /\ IsFiniteSet(Bound) /\ Suitable \subseteq Bound /\ Editor \in Admins
    /\ None \notin Admins \cup Bound \cup BOOLEAN \cup M!Forms
    /\ None \notin [model : Bound, priority : Nat, by : Admins \cup {None}]
ASSUME FeedLimits ==
    /\ Home \notin Created /\ None \notin Created \cup {Home} /\ None \notin Tasks
    /\ MaxAt \in Nat \ {0} /\ MaxList \in Nat
    /\ None \notin F!Rows \cup F!Rounds \cup F!Requests

ASSUME InputLimits ==
    /\ \A c \in DOMAIN InputContracts :
          c # None /\ InputContracts[c] # None /\ InputContracts[c].modes \in Seq(R!Modes)
    /\ Upstream \subseteq {up \in Seq(R!Outputs) :
          \A i \in DOMAIN up : AssetType[up[i].asset] = R!ReferenceAssetType(up[i].type)}
    /\ AssetType \in [Assets -> R!Media]
    /\ MaxReferences \in Nat /\ MaxRefs \in Nat /\ MaxUnits \in Nat
    /\ None \notin R!Modes \cup R!Slots \cup STRING \cup {"accepted", "refused"}
    /\ None \notin R!ReferenceTypes \cup Assets \cup LibraryEntries
ASSUME ParamLimits ==
    /\ \A c \in DOMAIN ParamContracts :
          c # None /\ ParamContracts[c] # None /\ P!IsContract(ParamContracts[c])
    /\ None \notin P!Values \cup Seq(P!Values) \cup P!Actions \cup P!Specs \cup {"accepted", "refused"}

credentialVars == <<row, used, edits, accepts, asked, call, jobs>>
onboardingVars == <<bound, on, enabled, keys, wizard, asking, import, lists, strayed>>
featureVars    == <<config, bindings, tx, feature, begun, saved, joined>>
feedVars       == <<rows, born, feed, listing, round, calls, page, sentFrom, missed>>
inputsVars     == <<contract, form, upload, library, task, chosen, crossed>>
paramsVars     == <<offered, fields, sent>>

\* The components that do not move are in one fixed state.
FeaturesRest ==
    /\ config = None /\ bindings = {} /\ tx = None /\ feature = None /\ begun = {} /\ saved = {}
    /\ joined = FALSE
InputsRest ==
    /\ contract = None /\ form = None /\ upload = None /\ library = None
    /\ task = None /\ chosen = None /\ crossed = None
ParamsRest == offered = None /\ fields = None /\ sent = None

FeedScopes == {"feed", "conversations"}
FeatureScopes == {"features", "saves"}

Init ==
    /\ scope \in {"credentials", "onboarding", "inputs", "params"} \cup FeedScopes \cup FeatureScopes
    /\ C!Init /\ O!Init /\ F!Init
    /\ IF scope \in FeatureScopes THEN M!Init ELSE FeaturesRest
    /\ IF scope = "inputs" THEN R!Init ELSE InputsRest
    /\ IF scope = "params" THEN P!Init ELSE ParamsRest

\* Bound: two lists of the vendor are under way.
OnboardingBounded == Cardinality(lists') <= 2

\* Bound: the page and one more save, or three saves with the page closed.  Those
\* without a page leave the feature enabled and do not wait for the answer, and
\* the form is edited before or after the other save.
FeaturesBounded ==
    /\ feature'.editing \notin {None, feature.editing} => \A a \in Admins : tx[a].at = "idle"
    /\ \A a \in begun' \ {Editor} : tx'[a].enabled /\ tx'[a].at # "idle"
    /\ IF scope = "features" THEN begun' \subseteq {Editor, CHOOSE a \in Admins : a # Editor}
       ELSE feature' = feature /\ Cardinality(begun') <= 3

\* Bound: nothing is followed once a row is behind for good.  The rows of the
\* Followed in one conversation, or Tasks that do not move in any conversations.
FeedBounded ==
    /\ missed = {}
    /\ IF scope = "feed" THEN page'.list = {Home} /\ \A t \in Tasks \ Followed : rows'[t] = None
       ELSE /\ \A t \in Tasks : rows'[t] # None => rows'[t] = [status |-> "active", at |-> 1]
            /\ round' # None => ~round'.asked

\* Bound: once the references have changed under an upload, nothing but its answer
\* changes them.
InputsBounded == crossed => form'.refs = form.refs \/ upload' # upload

Next ==
    /\ UNCHANGED scope
    /\ \/ /\ scope = "credentials" /\ C!Next
          /\ UNCHANGED <<onboardingVars, featureVars, feedVars, inputsVars, paramsVars>>
       \/ /\ scope = "onboarding" /\ O!Next /\ OnboardingBounded
          /\ UNCHANGED <<credentialVars, featureVars, feedVars, inputsVars, paramsVars>>
       \/ /\ scope \in FeatureScopes /\ M!Next /\ FeaturesBounded
          /\ UNCHANGED <<credentialVars, onboardingVars, feedVars, inputsVars, paramsVars>>
       \/ /\ scope \in FeedScopes /\ F!Next /\ FeedBounded
          /\ UNCHANGED <<credentialVars, onboardingVars, featureVars, inputsVars, paramsVars>>
       \/ /\ scope = "inputs" /\ R!Next /\ InputsBounded
          /\ UNCHANGED <<credentialVars, onboardingVars, featureVars, feedVars, paramsVars>>
       \/ /\ scope = "params" /\ P!Next
          /\ UNCHANGED <<credentialVars, onboardingVars, featureVars, feedVars, inputsVars>>

vars == <<scope, credentialVars, onboardingVars, featureVars, feedVars, inputsVars, paramsVars>>
Spec == Init /\ [][Next]_vars

Symmetry == Permutations(CredentialIds) \cup Permutations(Bound)

-----------------------------------------------------------------------------
\* The variables have their types.
TypeOK ==
    /\ scope = "credentials" => C!TypeOK
    /\ scope = "onboarding" => O!TypeOK
    /\ scope \in FeatureScopes => M!TypeOK
    /\ scope \in FeedScopes => F!TypeOK
    /\ scope = "inputs" => R!TypeOK
    /\ scope = "params" => P!TypeOK

\* A running job keeps its credential, and a new call takes none that was removed
\* before (Credentials).
CredentialsServe == scope = "credentials" => C!CredentialsServe
\* A verdict is about the payload it was asked for, and an archived credential
\* stays as it is (Credentials).
CredentialRowsKept == C!CredentialRowsKept
\* A model that comes into use has a channel to be called through (Onboarding),
\* and the chain of a feature is the chain of one save (FeatureModels).
ModelsServe ==
    /\ scope = "onboarding" => O!ModelsCanBeCalled
    /\ scope \in FeatureScopes => M!ChainIsOfOneSave
\* Rows of the feed that are behind are being polled, and a Task is shown in the
\* conversation it was asked for in (GenerationFeed).
FeedAgrees == scope \in FeedScopes => F!FeedIsWatched /\ F!ShownWhereAsked
\* What a form lets through the server accepts, the references of a mode (Inputs)
\* and the values of the parameters (Params); and it holds what was picked and not
\* taken back (Inputs).
FormsAgree ==
    /\ scope = "inputs" => R!SentIsAccepted /\ R!FormHoldsChosen
    /\ scope = "params" => P!ParamsAccepted
\* The last constraint on a field decides its state (Params).
EngineDecides == scope = "params" => P!EngineDecides
=============================================================================
