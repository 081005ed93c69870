------------------------------- MODULE Inputs -------------------------------
(***************************************************************************)
(* The references of a generation: what the two forms of the web client    *)
(* (the node form of the canvas, the command bar of quick generation)      *)
(* collect for the mode of a model's input contract, what they send, and   *)
(* what the server makes of it: the public check of the Task's inputs, the *)
(* expansion of library entries, and the check against the contract that   *)
(* the Task is pinned to.                                                  *)
(*                                                                         *)
(* A contract is [default, modes]; a mode is [id, slots]; a slot is        *)
(* [slot, type, required, min, max, lib], lib being None or [kinds, forms].*)
(* A reference is [slot, type, asset, entry, units], with an asset or a    *)
(* library entry.                                                          *)
(***************************************************************************)
EXTENDS Naturals, Sequences, FiniteSets, SequencesExt, Subsequence

CONSTANTS
    None,
    Kinds,              \* forms: kinds of node, and "quick"
    Revisions,          \* what may be proposed as a revision of a model ...
    ContractOf,         \* ... and the contract of each
    Upstream,           \* outputs the edges into a node may carry
    Assets, AssetType,  \* assets of the workspace, and their media
    Entries, EntryKind, MaterialType,
    MaxReferences,      \* references the public API takes at once (32)
    MaxRefs, MaxUnits   \* bounds: references in a form, assets of an entry

Media == {"image", "video", "audio", "json"}
ReferenceTypes == Media \cup {"image_list", "mask", "style_token", "entity_ref", "library_ref"}

\* What contracts and the outputs of nodes are made of.
Optional(S) == S \cup {None}
Slots ==
    [slot : STRING, type : ReferenceTypes, required : BOOLEAN, min : Optional(Nat), max : Optional(Nat),
     lib : Optional([kinds : SUBSET STRING, forms : SUBSET STRING])]
Modes == [id : STRING, slots : Seq(Slots)]
Outputs ==
    [slot : STRING, type : Media \cup {"image_list"}, asset : Assets, entry : {None}, units : {0}]

VARIABLES
    contract,  \* the model's current revision
    form,      \* what the client holds: its kind and mode, the revision it has loaded,
               \* the references picked, the assets mentioned, the upstream outputs
    upload,    \* a file that is on its way to a slot, or None
    library,   \* the entries of the library: their assets and vendor bindings
    task,      \* the Task that was sent, or None
    chosen,    \* what the user picked and did not take back
    crossed    \* the references changed while an upload was under way

inputsVars == <<contract, form, upload, library, task, chosen, crossed>>

OrElse(x, default) == IF x = None THEN default ELSE x
First(seq) == IF seq = <<>> THEN None ELSE seq[1]
Item(ref) == IF ref.entry = None THEN ref.asset ELSE ref.entry
UnitsOf(r) == IF r.entry = None \/ r.units = 0 THEN 1 ELSE r.units
Units(refs, slot) == Total([i \in DOMAIN refs |-> IF refs[i].slot = slot THEN UnitsOf(refs[i]) ELSE 0])

-----------------------------------------------------------------------------
(* Contracts *)

SlotValid(s) ==
    LET least == OrElse(s.min, IF s.required THEN 1 ELSE 0)
    IN /\ s.type \in ReferenceTypes
       /\ (s.min # None /\ s.max # None) => s.min <= s.max
       /\ IF s.required THEN least >= 1 ELSE least = 0
       /\ s.max # None => s.max >= least
       /\ s.lib # None => s.lib.kinds # {} /\ s.lib.forms # {}

\* What the catalog's schema takes for a contract.
ContractValid(c) ==
    /\ c.modes # <<>>
    /\ \A i, j \in DOMAIN c.modes : c.modes[i].id = c.modes[j].id => i = j
    /\ c.default # None => \E i \in DOMAIN c.modes : c.modes[i].id = c.default
    /\ \A i \in DOMAIN c.modes :
          LET slots == c.modes[i].slots
          IN /\ \A k \in DOMAIN slots : SlotValid(slots[k])
             /\ \A k, l \in DOMAIN slots : slots[k].slot = slots[l].slot => k = l

Contract(revision) == IF revision = None THEN None ELSE ContractOf[revision]

ModeOf(c, id) ==
    LET found == Select(c.modes, LAMBDA m : m.id = id) IN First(found)

\* The mode a form sends: its own if the contract has it.
EnsureInputMode(c, mode) ==
    IF c = None THEN mode
    ELSE IF mode # None /\ ModeOf(c, mode) # None THEN mode
    ELSE OrElse(c.default, First(c.modes).id)

ModeContract(c, mode) ==
    IF c = None THEN None
    ELSE OrElse(ModeOf(c, OrElse(mode, OrElse(c.default, First(c.modes).id))), First(c.modes))

-----------------------------------------------------------------------------
(* What a kind of node declares of its own, for models without a contract. *)

Declared(port, type, slot, advanced) ==
    [port |-> port, advanced |-> advanced, required |-> FALSE,
     slot |-> slot, type |-> type, min |-> None, max |-> None, lib |-> None]

GenImageForm ==
    [slots |-> <<Declared("reference", "image_list", "source_image", FALSE),
                 Declared("mask", "mask", "mask", TRUE)>>,
     requires |-> [id \in {"image_to_image"} |-> {"reference"}],
     first |-> "text_to_image"]

GenVideoForm ==
    [slots |-> <<Declared("reference", "image_list", "reference_image", FALSE),
                 Declared("audio_ref", "audio", "driving_audio", TRUE)>>,
     requires |-> [id \in {"image_to_video", "first_last_frame", "reference_to_video"} |-> {"reference"}]
                  @@ [id \in {"audio_driven_video"} |-> {"reference", "audio_ref"}],
     first |-> "text_to_video"]

NodeForm(kind) == IF kind = "gen_image" THEN GenImageForm ELSE GenVideoForm

\* The slots of a mode: those of the contract or, if that has none, those the
\* node declares, which are needed unless the mode says which ports it needs.
SlotsForMode(mode, kind, id) ==
    LET own == NodeForm(kind)
        ports == IF id \in DOMAIN own.requires THEN own.requires[id] ELSE None
        active(s) == ports # None /\ s.port \in ports
        declared == Select(own.slots, LAMBDA s : ~s.advanced \/ active(s))
    IN IF mode # None /\ mode.slots # <<>> THEN mode.slots
       ELSE IF kind = "quick" THEN <<>>
       ELSE [i \in DOMAIN declared |->
               [declared[i] EXCEPT !.required = IF ports # None THEN active(declared[i])
                                                ELSE ~declared[i].advanced]]

ReferenceTypeMatches(actual, expected) ==
    IF expected \in {"image", "image_list"} THEN actual \in {"image", "image_list"}
    ELSE actual = expected

FilterRefsForSlots(refs, slots) ==
    LET Fits(r) == \E i \in DOMAIN slots :
            /\ slots[i].slot = r.slot
            /\ IF r.entry # None THEN slots[i].lib # None
               ELSE r.type # "library_ref" /\ ReferenceTypeMatches(r.type, slots[i].type)
    IN Select(refs, Fits)

MissingRequiredSlots(slots, refs) ==
    Select(slots, LAMBDA s : s.required /\ Units(refs, s.slot) < OrElse(s.min, 1))

\* The outputs of the upstream nodes, by the role the mode gives them.
MapReferences(kind, mode, upstream) ==
    LET of(types) == Select(upstream, LAMBDA r : r.type \in types)
        upTo(refs, n) == SubSeq(refs, 1, IF Len(refs) < n THEN Len(refs) ELSE n)
        as(refs, slot) == [i \in DOMAIN refs |-> [refs[i] EXCEPT !.slot = slot]]
        images == of({"image", "image_list"})
        all == as(upTo(images, 9), "reference_image") \o as(upTo(of({"video"}), 3), "source_video")
               \o as(upTo(of({"audio"}), 3), "driving_audio")
        still == IF mode = "text_to_image" THEN <<>>
                 ELSE as(upTo(images, 10), IF mode = "image_to_image" THEN "source_image" ELSE "reference_image")
    IN IF kind = "gen_image" THEN still
       ELSE CASE mode = "image_to_video" -> as(upTo(images, 1), "source_image")
         [] mode = "first_last_frame" ->
              [i \in DOMAIN upTo(images, 2) |->
                 [images[i] EXCEPT !.slot = IF i = 1 THEN "first_frame" ELSE "last_frame"]]
         [] mode \in {"reference_to_video", "audio_driven_video"} -> all
         [] OTHER -> <<>>

\* The slot an asset mentioned in the prompt goes to: the preferred one of its
\* media first, else the first that takes it and has room.
MentionSlot(asset, slots, refs) ==
    LET media == AssetType[asset]
        preferred(s) == <<media, s.slot>> \in {<<"audio", "driving_audio">>, <<"video", "source_video">>}
        ordered == Select(slots, preferred) \o Select(slots, LAMBDA s : ~preferred(s))
    IN First(Select(ordered, LAMBDA s :
           /\ s.type = media \/ (media = "image" /\ s.type = "image_list")
           /\ s.max = None \/ Units(refs, s.slot) < s.max))

Picked(s, item) == [slot |-> s.slot, type |-> s.type, asset |-> item, entry |-> None, units |-> 0]

MentionRefs(mentions, slots) ==
    LET upTo[n \in 0..Len(mentions)] ==
          LET refs == upTo[n - 1]
              s == MentionSlot(mentions[n], slots, refs)
          IN IF n = 0 THEN <<>> ELSE IF s = None THEN refs ELSE Append(refs, Picked(s, mentions[n]))
    IN upTo[Len(mentions)]

HasItem(refs, slot, item) == \E i \in DOMAIN refs : refs[i].slot = slot /\ Item(refs[i]) = item

\* [mutant] References are counted without the assets of an entry.
MergeByReferences(explicit, more, slots) ==
    LET all == explicit \o more
        joins(refs, r) ==
            LET of == Select(slots, LAMBDA s : s.slot = r.slot)
            IN /\ slots = <<>> \/ of # <<>>
               /\ ~HasItem(refs, r.slot, Item(r))
               /\ of # <<>> /\ of[1].max # None =>
                     Len(Select(refs, LAMBDA x : x.slot = r.slot)) + 1 <= of[1].max
        upTo[n \in 0..Len(all)] ==
            IF n = 0 THEN <<>>
            ELSE IF joins(upTo[n - 1], all[n]) THEN Append(upTo[n - 1], all[n]) ELSE upTo[n - 1]
    IN upTo[Len(all)]

\* One list for the request: no slot the mode lacks, nothing twice in a slot,
\* nothing beyond what a slot holds.
Joins(refs, r, slots) ==
    LET of == Select(slots, LAMBDA s : s.slot = r.slot)
    IN /\ r.entry # None \/ r.type # "library_ref"
       /\ slots = <<>> \/ of # <<>>
       /\ ~HasItem(refs, r.slot, Item(r))
       /\ of # <<>> /\ of[1].max # None => Units(refs, r.slot) + UnitsOf(r) <= of[1].max
MergeReferences(explicit, more, slots) ==
    LET all == explicit \o more
        upTo[n \in 0..Len(all)] ==
            IF n = 0 THEN <<>>
            ELSE IF Joins(upTo[n - 1], all[n], slots) THEN Append(upTo[n - 1], all[n]) ELSE upTo[n - 1]
    IN upTo[Len(all)]

-----------------------------------------------------------------------------
(* The server. *)

\* What the public API takes: no more than so many references.
PublicInputsValid(refs) == Len(refs) <= MaxReferences

MediaOfKind(kind) == IF kind = "voice" THEN "audio" ELSE "image"

ReferenceAssetType(type) ==
    IF type \in {"video", "audio", "json"} THEN type
    ELSE IF type = "library_ref" THEN None ELSE "image"

\* A reference as the adapter will see it: an asset, the assets of a library
\* entry or, if that has none, its verified binding at a vendor.
ExpandReference(r) ==
    LET entry == library[r.entry]
        type == MediaOfKind(EntryKind[r.entry])
    IN IF r.entry = None
       THEN <<[slot |-> r.slot, type |-> r.type, media |-> AssetType[r.asset], kind |-> None]>>
       ELSE IF entry.units > 0
       THEN [i \in 1..entry.units |->
               [slot |-> r.slot, type |-> type, media |-> MaterialType[r.entry],
                kind |-> EntryKind[r.entry]]]
       ELSE IF entry.bound
       THEN <<[slot |-> r.slot, type |-> type, media |-> None, kind |-> EntryKind[r.entry]]>>
       ELSE <<>>

ResolveInputs(refs) == FlattenSeq([i \in DOMAIN refs |-> ExpandReference(refs[i])])

ResolutionFails(refs) ==
    \/ \E i \in DOMAIN refs : ExpandReference(refs[i]) = <<>>
    \/ \E i \in DOMAIN ResolveInputs(refs) :
          LET r == ResolveInputs(refs)[i]
          IN r.media # None /\ ReferenceAssetType(r.type) \notin {None, r.media}

\* The resolved references against the contract the Task is pinned to.
ContractAccepts(c, id, refs) ==
    LET mode == ModeOf(c, OrElse(id, OrElse(c.default, First(c.modes).id)))
    IN /\ mode # None
       /\ \A i \in DOMAIN refs : \E k \in DOMAIN mode.slots : mode.slots[k].slot = refs[i].slot
       /\ \A k \in DOMAIN mode.slots :
             LET s == mode.slots[k]
                 n == Total([i \in DOMAIN refs |-> IF refs[i].slot = s.slot THEN 1 ELSE 0])
             IN /\ s.required => n >= OrElse(s.min, 1)
                /\ s.max = None \/ n <= s.max
                /\ \A i \in {j \in DOMAIN refs : refs[j].slot = s.slot} :
                      LET r == refs[i]
                      IN /\ r.type = s.type \/ (s.type = "image" /\ r.type = "image_list")
                         /\ r.kind = None
                            \/ /\ s.lib # None
                               /\ r.kind \in s.lib.kinds
                               /\ (IF r.media # None THEN "material" ELSE "provider_ref") \in s.lib.forms

-----------------------------------------------------------------------------
(* The forms. *)

ShownMode == EnsureInputMode(Contract(form.seen), form.mode)
ShownSlots == SlotsForMode(ModeContract(Contract(form.seen), ShownMode), form.kind, ShownMode)
AcceptOf(type) == IF type \in {"video", "audio"} THEN type ELSE "image"

\* Outputs that fill a slot of a node: those of its type, one each for slots
\* that hold one.
UpstreamUnits(i) ==
    LET s == ShownSlots[i]
        matched == Select(form.upstream, LAMBDA r : ReferenceTypeMatches(r.type, s.type))
        max == OrElse(s.max, 1)
        offset == Cardinality({j \in 1..(i - 1) :
                      OrElse(ShownSlots[j].max, 1) <= 1
                      /\ ReferenceTypeMatches(s.type, ShownSlots[j].type)})
    IN IF max > 1 THEN IF Len(matched) < max THEN Len(matched) ELSE max
       ELSE IF Len(matched) > offset THEN 1 ELSE 0

\* Units a slot still takes: a slot of a node without a limit takes one.
HasRoom(i, units) ==
    LET s == ShownSlots[i]
    IN IF form.kind = "quick" THEN s.max # None => Units(form.refs, s.slot) + units <= s.max
       ELSE UpstreamUnits(i) + Units(form.refs, s.slot) + units <= OrElse(s.max, 1)

PickedEntry(s, e) ==
    [slot |-> s.slot, type |-> "library_ref", asset |-> None, entry |-> e, units |-> library[e].units]

\* Of a form only what leads to its first submission is followed.
Init ==
    /\ contract \in {c \in Revisions : ContractValid(ContractOf[c])}
    /\ \E kind \in Kinds, up \in Upstream :
          form = [kind |-> kind, mode |-> IF kind = "quick" THEN None ELSE NodeForm(kind).first,
                  seen |-> None, ready |-> FALSE, refs |-> <<>>, mentions |-> <<>>,
                  upstream |-> IF kind = "quick" THEN <<>> ELSE up]
    /\ upload = None
    /\ library = [e \in Entries |-> [units |-> MaxUnits, bound |-> FALSE]]
    /\ task = None
    /\ chosen = {} /\ crossed = FALSE

\* The schema of the selected model arrives: a mode the contract lacks gives way.
LoadContract ==
    /\ task = None /\ ~form.ready
    /\ form' = [form EXCEPT !.seen = contract, !.ready = TRUE,
                            !.mode = EnsureInputMode(ContractOf[contract], form.mode)]
    /\ UNCHANGED <<contract, upload, library, task, chosen, crossed>>

LoadFails ==
    /\ task = None /\ ~form.ready
    /\ form' = [form EXCEPT !.seen = None, !.ready = TRUE]
    /\ UNCHANGED <<contract, upload, library, task, chosen, crossed>>

\* The model is chosen again: what was loaded goes, the references stay.
SelectModel ==
    /\ task = None /\ form.ready
    /\ form' = [form EXCEPT !.seen = None, !.ready = FALSE]
    /\ UNCHANGED <<contract, upload, library, task, chosen, crossed>>

SwitchMode(i) ==
    /\ task = None /\ form.seen # None /\ i \in DOMAIN ContractOf[form.seen].modes
    /\ form' = [form EXCEPT !.mode = ContractOf[form.seen].modes[i].id]
    /\ UNCHANGED <<contract, upload, library, task, chosen, crossed>>

\* Another kind of output in the command bar empties it.
SwitchOutput ==
    /\ task = None /\ form.kind = "quick" /\ form.refs # <<>>
    /\ form' = [form EXCEPT !.mode = None, !.seen = None, !.ready = FALSE, !.refs = <<>>]
    /\ chosen' = {} /\ crossed' = (crossed \/ upload # None)
    /\ UNCHANGED <<contract, upload, library, task>>

Pick(i, asset) ==
    /\ task = None /\ Len(form.refs) < MaxRefs
    /\ i \in DOMAIN ShownSlots
    /\ LET s == ShownSlots[i]
       IN /\ AssetType[asset] = AcceptOf(s.type)
          /\ HasRoom(i, 1) /\ ~HasItem(form.refs, s.slot, asset)
          /\ form' = [form EXCEPT !.refs = Append(@, Picked(s, asset))]
          /\ chosen' = chosen \cup {<<s.slot, asset>>}
    /\ crossed' = (crossed \/ upload # None)
    /\ UNCHANGED <<contract, upload, library, task>>

\* Only entries of the slot's kinds with material are offered.
PickEntry(i, entry) ==
    /\ task = None /\ Len(form.refs) < MaxRefs
    /\ i \in DOMAIN ShownSlots
    /\ LET s == ShownSlots[i]
           units == library[entry].units
       IN /\ s.lib # None /\ "material" \in s.lib.forms /\ EntryKind[entry] \in s.lib.kinds
          /\ units > 0 /\ HasRoom(i, units) /\ ~HasItem(form.refs, s.slot, entry)
          /\ form' = [form EXCEPT !.refs = Append(@, PickedEntry(s, entry))]
          /\ chosen' = chosen \cup {<<s.slot, entry>>}
    /\ crossed' = (crossed \/ upload # None)
    /\ UNCHANGED <<contract, upload, library, task>>

\* [mutant] The item is taken out of every slot that holds it.
WithoutItem(refs, gone) == Select(refs, LAMBDA r : Item(r) # Item(gone))
Without(refs, gone) ==
    Select(refs, LAMBDA r : ~(r.slot = gone.slot /\ Item(r) = Item(gone)))

TakeBack(i) ==
    /\ task = None /\ i \in DOMAIN ShownSlots
    /\ LET slot == ShownSlots[i].slot
           first == First(Select(form.refs, LAMBDA r : r.slot = slot))
       IN /\ first # None
          /\ form' = [form EXCEPT !.refs = Without(@, first)]
          /\ chosen' = chosen \ {<<slot, Item(first)>>}
    /\ crossed' = (crossed \/ upload # None)
    /\ UNCHANGED <<contract, upload, library, task>>

\* A file is sent from a slot; the answer will be handled by the form as it is now.
StartUpload(i, asset) ==
    /\ task = None /\ upload = None /\ Len(form.refs) < MaxRefs
    /\ i \in DOMAIN ShownSlots
    /\ LET s == ShownSlots[i]
       IN /\ AssetType[asset] = AcceptOf(s.type)
          /\ HasRoom(i, 1) /\ ~HasItem(form.refs, s.slot, asset)
          /\ upload' = [refs |-> form.refs, ref |-> Picked(s, asset)]
    /\ UNCHANGED <<contract, form, library, task, chosen, crossed>>

\* The new reference joins the list of when the file was sent, which replaces
\* the list of now.
FinishUpload ==
    /\ task = None /\ upload # None
    /\ form' = [form EXCEPT !.refs = Append(upload.refs, upload.ref)]
    /\ chosen' = chosen \cup {<<upload.ref.slot, upload.ref.asset>>}
    /\ upload' = None
    /\ UNCHANGED <<contract, library, task, crossed>>

UploadFails ==
    /\ task = None /\ upload # None
    /\ upload' = None
    /\ UNCHANGED <<contract, form, library, task, chosen, crossed>>

\* The canvas parks mentions; the command bar offers any asset. One mention,
\* written before the first pick.
Mention(asset) ==
    /\ task = None /\ form.kind = "quick" /\ form.mentions = <<>>
    /\ form.refs = <<>> /\ upload = None
    /\ form' = [form EXCEPT !.mentions = <<asset>>]
    /\ UNCHANGED <<contract, upload, library, task, chosen, crossed>>

\* What a form makes of its references under the contract of a revision.
Body(revision) ==
    LET c == Contract(revision)
        mode == EnsureInputMode(c, form.mode)
        slots == SlotsForMode(ModeContract(c, mode), form.kind, mode)
        picked == FilterRefsForSlots(form.refs, slots)
        refs == IF form.kind = "quick"
                THEN MergeReferences(picked, MentionRefs(form.mentions, slots), slots)
                ELSE MergeReferences(
                        FilterRefsForSlots(MapReferences(form.kind, mode, form.upstream), slots), picked, slots)
    IN [mode |-> mode, refs |-> refs, missing |-> MissingRequiredSlots(slots, refs)]

\* A submission with a prompt. The command bar goes by what it has loaded, a
\* node fetches the contract again and does without if that fails.
Submit ==
    /\ task = None
    /\ form.kind = "quick" => form.ready
    /\ \E c \in IF form.kind = "quick" THEN {form.seen} ELSE {contract, None} : \E body \in {Body(c)} :
          LET outdated(r) == r.entry # None /\ r.units # library[r.entry].units
          IN /\ body.missing = <<>>
             /\ task' = [for |-> c, pin |-> None, verdict |-> None,
                         edited |-> \E k \in DOMAIN body.refs : outdated(body.refs[k]),
                         mode |-> body.mode, refs |-> body.refs]
    /\ upload' = None
    /\ UNCHANGED <<contract, form, library, chosen, crossed>>

\* The Task is checked and pinned to the revision of that moment.
Create ==
    /\ task # None /\ task.verdict = None /\ task.pin = None
    /\ task' = IF PublicInputsValid(task.refs) THEN [task EXCEPT !.pin = contract]
               ELSE [task EXCEPT !.verdict = "refused"]
    /\ UNCHANGED <<contract, form, upload, library, chosen, crossed>>

\* The Task runs: its inputs are resolved now, against the contract of its pin.
Execute ==
    /\ task # None /\ task.verdict = None /\ task.pin # None
    /\ task' = [task EXCEPT !.verdict =
                  IF ~ResolutionFails(task.refs)
                     /\ ContractAccepts(ContractOf[task.pin], task.mode, ResolveInputs(task.refs))
                  THEN "accepted" ELSE "refused"]
    /\ UNCHANGED <<contract, form, upload, library, chosen, crossed>>

\* A new revision, followed while the form still holds the former one.
Republish(c) ==
    /\ form.seen = contract
    /\ c # contract /\ ContractValid(ContractOf[c])
    /\ contract' = c
    /\ UNCHANGED <<form, upload, library, task, chosen, crossed>>

\* One entry is edited, and once, after it was picked.
EditEntry(e, units, bound) ==
    /\ \E i \in DOMAIN form.refs : form.refs[i].entry = e
    /\ \A f \in Entries : library[f] = [units |-> MaxUnits, bound |-> FALSE]
    /\ units < MaxUnits /\ (bound => units = 0)
    /\ library' = [library EXCEPT ![e] = [units |-> units, bound |-> bound]]
    /\ task' = IF task = None THEN None ELSE [task EXCEPT !.edited = TRUE]
    /\ UNCHANGED <<contract, form, upload, chosen, crossed>>

Next ==
    \/ LoadContract \/ LoadFails \/ SelectModel \/ SwitchOutput
    \/ FinishUpload \/ UploadFails \/ Submit \/ Create \/ Execute
    \/ \E i \in 1..3 : SwitchMode(i) \/ TakeBack(i)
    \/ \E i \in 1..3, a \in Assets : Pick(i, a) \/ StartUpload(i, a)
    \/ \E i \in 1..3, e \in Entries : PickEntry(i, e)
    \/ \E a \in Assets : Mention(a)
    \/ \E c \in Revisions : Republish(c)
    \/ \E e \in Entries, n \in 0..(MaxUnits - 1), b \in BOOLEAN : EditEntry(e, n, b)

Spec == Init /\ [][Next]_inputsVars

-----------------------------------------------------------------------------
(* Properties *)

TypeOK ==
    /\ contract \in Revisions
    /\ form.kind \in Kinds /\ form.ready \in BOOLEAN /\ form.seen \in Revisions \cup {None}
    /\ Len(form.refs) <= MaxRefs + 1
    /\ upload = None \/ upload.ref.asset \in Assets
    /\ DOMAIN library = Entries
    /\ task = None \/ task.verdict \in {None, "accepted", "refused"}
    /\ crossed \in BOOLEAN

\* Where the two sides are known to differ: the forms take an image for a list
\* of images, offer slots of their own for a mode without any, count no total,
\* show images for every slot that is neither video nor audio, and do not look
\* at the kind or the media of a library entry again after it was picked.
KnownGap(t) ==
    LET mode == ModeOf(ContractOf[t.pin], t.mode)
        slotOf(r) == First(Select(mode.slots, LAMBDA s : s.slot = r.slot))
    IN \/ Len(t.refs) > MaxReferences
       \/ mode = None \/ mode.slots = <<>>
       \/ \E i \in DOMAIN t.refs :
             LET r == t.refs[i]
                 s == slotOf(r)
             IN \/ s = None
                \/ r.type = "image" /\ s.type = "image_list"
                \/ s.type = "json"
                \/ r.entry # None /\ s.lib = None
                \/ r.entry # None /\ (\/ EntryKind[r.entry] \notin s.lib.kinds
                                      \/ "material" \notin s.lib.forms
                                      \/ s.type # MediaOfKind(EntryKind[r.entry])
                                      \/ MaterialType[r.entry] # MediaOfKind(EntryKind[r.entry]))

\* What a form lets through the server accepts: the slots, the counts and the
\* types of the references agree with the contract the Task is pinned to, unless
\* a revision was published or an entry edited in between, the form had no
\* contract to go by, or the case is one of the known gaps.
SentIsAccepted ==
    task # None /\ task.verdict = "refused" =>
        \/ Len(task.refs) > MaxReferences
        \/ task.for # task.pin \/ task.edited \/ KnownGap(task)

\* The references of a form are those picked and not taken back: only an upload
\* that ended after another change can bring one back or lose one.
FormHoldsChosen ==
    ~crossed => {<<form.refs[i].slot, Item(form.refs[i])>> : i \in DOMAIN form.refs} = chosen
=============================================================================
