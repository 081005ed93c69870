------------------------------ MODULE Onboarding ------------------------------
(***************************************************************************)
(* How a provider's models come into use: ProviderModelsService and        *)
(* ProviderCatalogWritesService, and the two pages that call them, the     *)
(* credential wizard (useCredentialWizard) and VendorModelImport.          *)
(*                                                                         *)
(* A page asks the vendor which models a channel has, lets the user pick,  *)
(* and writes.  The list comes for the channel that was asked for, and may *)
(* arrive when the page shows another; the write names the channel shown.  *)
(* The server takes a write whole or not at all; its answer may be lost.   *)
(***************************************************************************)
EXTENDS Naturals, FiniteSets

CONSTANTS
    Channels,   \* the channels of a provider
    Compatible, \* those with the adapter of the vendor profile, openai-compat
    Vendor,     \* the ids its /models answers may hold
    Listed,     \* channel -> the ids the vendor lists there
    Presets,    \* its official models
    Allowed,    \* preset -> the channels it may be called through
    None,
    MaxSaves    \* bound: credentials stored

VARIABLES
    bound,   \* vendor id -> the channel of the model imported for it
    on,      \* the enabled official models
    enabled, \* the enabled channels
    keys,    \* channel -> the number of its credentials
    wizard,  \* the page of the wizard, or None
    asking,  \* the wizard waits for a list: the button is disabled, closed or not
    import,  \* the page of the import
    lists,   \* answers of the vendor under way to a page
    strayed  \* history: the ids written from a page that showed another channel's list

vars == <<bound, on, enabled, keys, wizard, asking, import, lists, strayed>>

Items == Vendor \cup Presets
\* A list holds per id whether it was imported when the server looked.
List == UNION {[V -> BOOLEAN] : V \in SUBSET Vendor}
Closed == [open |-> FALSE, channel |-> None, list |-> None, loading |-> FALSE, picked |-> {},
           confirmed |-> FALSE, astray |-> FALSE, posted |-> None]

Init ==
    /\ bound = [v \in Vendor |-> None] /\ on = {} /\ enabled = {}
    /\ keys = [c \in Channels |-> 0]
    /\ wizard = None /\ asking = FALSE /\ import = Closed /\ lists = {} /\ strayed = {}

-----------------------------------------------------------------------------
(* The server. *)

\* markImported: whatever channel the model of an id is bound to.
MarkImported(ids) == [v \in ids |-> bound[v] # None]

\* probeModels with the typed key, listVendorModels with a stored one; both may
\* fail, and answer with a note and no model.
Nothing == [v \in {} |-> FALSE]
Probed(c) == IF c \in Compatible THEN {MarkImported(Listed[c]), Nothing} ELSE {Nothing}
HasKey(c) == c \in enabled /\ keys[c] > 0
VendorModels(c) == IF HasKey(c) THEN Probed(c) ELSE {Nothing}

\* importVendorModelsInTransaction: an id that has a model is skipped.
Import(c, ids) == bound' = [v \in Vendor |-> IF v \in ids /\ bound[v] = None THEN c ELSE bound[v]]
MayImport(c, ids) == ids # {} => c \in Compatible
MayEnable(c, ps) == \A p \in ps : c \in Allowed[p]

\* prepareCredentialChannelInTransaction: the channel is switched on.
AsItWas(c) == enabled              \* mutant: the channel is left as it is
PrepareChannel(c) == enabled \cup {c}

\* addCredentialWithModels, in one transaction.
AddCredentialWithModels(c, picked) ==
    /\ MayImport(c, picked \cap Vendor) /\ MayEnable(c, picked \cap Presets)
    /\ keys[c] < MaxSaves
    /\ enabled' = PrepareChannel(c)
    /\ keys' = [keys EXCEPT ![c] = @ + 1]
    /\ Import(c, picked \cap Vendor)
    /\ on' = on \cup (picked \cap Presets)

-----------------------------------------------------------------------------
(* The wizard. *)

\* The effect that follows the catalog and the channel.
KeepPicks(c) == [wizard EXCEPT !.channel = c]          \* mutant: the picks are kept
Reset(c) == [channel |-> c, known |-> on, list |-> None, picked |-> {}, confirmed |-> FALSE,
             astray |-> FALSE, posted |-> wizard.posted]

WizardOnly == UNCHANGED <<bound, on, enabled, keys, import, strayed>>

\* Opened, with the catalog loaded and the first channel chosen.  Bound: the two
\* pages are of two routes, and followed one after the other.
OpenWizard ==
    /\ wizard = None /\ import = Closed /\ \A x \in lists : x.page = "wizard"
    /\ \E c \in Channels :
          wizard' = [channel |-> c, known |-> on, list |-> None, picked |-> {},
                     confirmed |-> FALSE, astray |-> FALSE, posted |-> None]
    /\ UNCHANGED <<asking, lists>> /\ WizardOnly

\* The page cannot be closed while it saves.
CloseWizard ==
    /\ wizard # None /\ wizard.posted = None
    /\ wizard' = None
    /\ UNCHANGED <<asking, lists>> /\ WizardOnly

ChooseChannel(c) ==
    /\ wizard # None /\ c # wizard.channel
    /\ wizard' = Reset(c)
    /\ UNCHANGED <<asking, lists>> /\ WizardOnly

\* probe.
Probe ==
    /\ wizard # None /\ ~asking /\ wizard.channel \in Compatible
    /\ asking' = TRUE
    /\ \E models \in Probed(wizard.channel) :
          lists' = lists \cup {[page |-> "wizard", channel |-> wizard.channel, models |-> models]}
    /\ UNCHANGED wizard /\ WizardOnly

\* items: what can be toggled; a preset is an item while its channel allows it.
WizardItems ==
    {p \in Presets : wizard.channel \in Allowed[p] /\ p \notin wizard.known}
    \cup IF wizard.list = None \/ ~wizard.confirmed \/ wizard.channel \notin Compatible THEN {}
         ELSE {v \in DOMAIN wizard.list : ~wizard.list[v]}
Toggled(set, x) == IF x \in set THEN set \ {x} ELSE set \cup {x}

ToggleModel(x) ==
    /\ wizard # None /\ x \in WizardItems
    /\ wizard' = [wizard EXCEPT !.picked = Toggled(@, x)]
    /\ UNCHANGED <<asking, lists>> /\ WizardOnly

\* confirmVendorContract: without it no vendor model stays picked.
ConfirmVendorContract ==
    /\ wizard # None /\ wizard.list # None /\ wizard.channel \in Compatible
    /\ \E v \in DOMAIN wizard.list : ~wizard.list[v]
    /\ wizard' = [wizard EXCEPT !.confirmed = ~@,
                    !.picked = IF wizard.confirmed THEN @ \cap Presets ELSE @]
    /\ UNCHANGED <<asking, lists>> /\ WizardOnly

\* save: the form as it is now.
Save ==
    /\ wizard # None /\ wizard.posted = None
    /\ wizard.picked \cap Vendor # {} => wizard.confirmed
    /\ wizard' = [wizard EXCEPT !.posted = [channel |-> wizard.channel, picked |-> wizard.picked,
                                            astray |-> wizard.astray]]
    /\ UNCHANGED <<asking, lists>> /\ WizardOnly

NewlyStray(post) == IF post.astray THEN post.picked \cap Vendor ELSE {}

\* Stored, and the page closes; or the answer is lost, and it can be saved again.
Saved ==
    /\ wizard # None /\ wizard.posted # None
    /\ AddCredentialWithModels(wizard.posted.channel, wizard.posted.picked)
    /\ wizard' \in {None, [wizard EXCEPT !.posted = None]}
    /\ strayed' = strayed \cup NewlyStray(wizard.posted)
    /\ UNCHANGED <<asking, import, lists>>

NotSaved ==
    /\ wizard # None /\ wizard.posted # None
    /\ wizard' = [wizard EXCEPT !.posted = None]
    /\ UNCHANGED <<asking, lists>> /\ WizardOnly

-----------------------------------------------------------------------------
(* The import; what it holds while it is closed is not kept.               *)

ImportOnly == UNCHANGED <<on, enabled, keys, wizard, asking>>

\* loadModels: opening the page, and another channel.
LoadModels(c) ==
    /\ c \in Compatible /\ (import.open => c # import.channel)
    /\ wizard = None /\ \A x \in lists : x.page = "import"
    /\ import' = [Closed EXCEPT !.open = TRUE, !.channel = c, !.loading = TRUE,
                                !.posted = import.posted]
    /\ \E models \in VendorModels(c) :
          lists' = lists \cup {[page |-> "import", channel |-> c, models |-> models]}
    /\ UNCHANGED <<bound, strayed>> /\ ImportOnly

CloseImport ==
    /\ import.open
    /\ import' = [Closed EXCEPT !.posted = import.posted]
    /\ UNCHANGED <<bound, lists, strayed>> /\ ImportOnly

Pickable == import.open /\ ~import.loading /\ import.list # None /\ import.list # Nothing
PickVendorModel(v) ==
    /\ Pickable /\ v \in DOMAIN import.list /\ ~import.list[v]
    /\ import' = [import EXCEPT !.picked = Toggled(@, v)]
    /\ UNCHANGED <<bound, lists, strayed>> /\ ImportOnly

ConfirmContract ==
    /\ Pickable
    /\ import' = [import EXCEPT !.confirmed = ~@]
    /\ UNCHANGED <<bound, lists, strayed>> /\ ImportOnly

\* doImport.
DoImport ==
    /\ import.open /\ import.posted = None /\ import.picked # {} /\ import.confirmed
    /\ import' = [import EXCEPT !.posted = [channel |-> import.channel, picked |-> import.picked,
                                            astray |-> import.astray]]
    /\ UNCHANGED <<bound, lists, strayed>> /\ ImportOnly

\* Imported, which closes the page; or refused, or not known.
Imported ==
    /\ import.posted # None
    /\ \/ Import(import.posted.channel, import.posted.picked)
       \/ UNCHANGED bound
    /\ strayed' = strayed \cup NewlyStray(import.posted)
    /\ import' \in {Closed, [import EXCEPT !.posted = None]}
    /\ UNCHANGED lists /\ ImportOnly

-----------------------------------------------------------------------------
\* A list arrives: it is shown whatever the page has come to show.
ListArrives(x) ==
    /\ lists' = lists \ {x}
    /\ IF x.page = "wizard"
       THEN /\ asking' = FALSE
            /\ wizard' = IF wizard = None THEN None
                         ELSE [wizard EXCEPT !.list = x.models,
                                             !.astray = @ \/ wizard.channel # x.channel]
            /\ UNCHANGED import
       ELSE /\ import' = IF ~import.open THEN import
                         ELSE [import EXCEPT !.list = x.models, !.loading = FALSE,
                                             !.astray = @ \/ import.channel # x.channel]
            /\ UNCHANGED <<wizard, asking>>
    /\ UNCHANGED <<bound, on, enabled, keys, strayed>>

Next ==
    \/ OpenWizard \/ CloseWizard \/ Probe \/ ConfirmVendorContract \/ Save \/ Saved \/ NotSaved
    \/ \E c \in Channels : ChooseChannel(c) \/ LoadModels(c)
    \/ \E x \in Items : ToggleModel(x)
    \/ CloseImport \/ ConfirmContract \/ DoImport \/ Imported
    \/ \E v \in Vendor : PickVendorModel(v)
    \/ \E x \in lists : ListArrives(x)

Spec == Init /\ [][Next]_vars

-----------------------------------------------------------------------------
\* The variables have their types.
Post == [channel : Channels, picked : SUBSET Items, astray : BOOLEAN]
TypeOK ==
    /\ bound \in [Vendor -> Channels \cup {None}] /\ on \subseteq Presets
    /\ enabled \subseteq Channels /\ keys \in [Channels -> 0..MaxSaves]
    /\ asking \in BOOLEAN /\ strayed \subseteq Vendor
    /\ wizard # None => wizard.picked \subseteq Items /\ wizard.posted \in Post \cup {None}
    /\ import.picked \subseteq Vendor /\ import.posted \in Post \cup {None}
    /\ \A x \in lists : x.channel \in Channels /\ x.models \in List

\* A model that was imported is bound to a channel at which the vendor has it,
\* which is switched on and has a credential; and an official model that was
\* enabled with a credential has a channel to be called through.  Only a list
\* that arrives when its page shows another channel leads astray: the pages drop
\* what was picked from one channel when another is chosen.
ModelsCanBeCalled ==
    /\ \A v \in Vendor :
          bound[v] # None /\ v \notin strayed => v \in Listed[bound[v]] /\ HasKey(bound[v])
    /\ \A p \in on : \E c \in Allowed[p] : HasKey(c)
===============================================================================
