------------------------------- MODULE Params -------------------------------
(***************************************************************************)
(* The parameters of a generation: the schema and the constraints that a   *)
(* model's revision declares, the engine that derives from them the state  *)
(* of every field, the controls the two forms of the web client make of    *)
(* the schema, what of the values survives a change of model, and the      *)
(* server's check of what was sent.                                        *)
(*                                                                         *)
(* A value is <<kind, n>>: n written as a "num" or a "str", or a "bool";   *)
(* lists and empty texts are not among the values.                         *)
(* A schema is [props, required, defaults]; props maps a field to [type,   *)
(* options, default, min, max, hidden, when]; a constraint is [when, do]   *)
(* and an action [type, target, values, min, max, required].               *)
(***************************************************************************)
EXTENDS Integers, FiniteSets, SequencesExt, Subsequence

CONSTANTS
    None,
    Forms,      \* kinds of form: "quick" and "node"
    Revisions,  \* what may be proposed as a revision of a model ...
    ContractOf, \* ... and its [schema, constraints]
    Conditions, \* the conditions in them, with the parts of each
    Fields,     \* names of parameters
    Hidden,     \* those with a control of their own: prompt, mode, references
    Numbers     \* bound: numbers a user can give

Numeric == {"number", "integer", "slider"}
OrElse(x, default) == IF x = None THEN default ELSE x
Alike(v, w) == v = w \/ (v[2] = w[2] /\ "bool" \notin {v[1], w[1]})
Entries(seq) == {seq[i] : i \in DOMAIN seq}

\* What contracts are made of.
Values == {"num", "str", "bool"} \X Int
Optional(S) == S \cup {None}
Definitions ==
    [type : STRING, options : Optional(Seq(Values)), default : Optional(Values),
     min : Optional(Int), max : Optional(Int), hidden : BOOLEAN, when : Optional(Conditions)]
Actions ==
    [type : STRING, target : Fields, values : SUBSET Values,
     min : Optional(Int), max : Optional(Int), required : BOOLEAN]
Specs ==
    [control : {"chips", "number", "slider", "toggle"}, options : Seq(Values), default : Optional(Values),
     min : Optional(Int), max : Optional(Int)]
IsSchema(s) ==
    /\ DOMAIN s.props \subseteq Fields /\ s.props \in [DOMAIN s.props -> Definitions]
    /\ s.required \subseteq Fields /\ s.defaults \in [Fields -> Optional(Values)]
IsContract(c) == IsSchema(c.schema) /\ c.constraints \in Seq([when : Conditions, do : Seq(Actions)])

VARIABLES
    offered,  \* the current revision of the selected model
    form,     \* its kind, the revision it has loaded, the values it holds
    sent      \* the Task: what it is pinned to, its values and the verdict

paramsVars == <<offered, form, sent>>

-----------------------------------------------------------------------------
(* The engine. *)

EvaluateCondition(condition, values) ==
    LET number(v) == v # None /\ v[1] = "num"
        holds[c \in Conditions] ==
            CASE c.op = "and" -> \A i \in DOMAIN c.of : holds[c.of[i]]
              [] c.op = "or"  -> \E i \in DOMAIN c.of : holds[c.of[i]]
              [] c.op = "not" -> ~holds[c.of[1]]
              [] c.op = "in"  -> values[c.field] \in c.values
              [] c.op = "nin" -> values[c.field] \notin c.values
              [] c.op = "gte" -> number(values[c.field]) /\ \A x \in c.values : values[c.field][2] >= x[2]
              [] c.op = "lt"  -> number(values[c.field]) /\ \A x \in c.values : values[c.field][2] < x[2]
    IN holds[condition]

InitFieldStates(schema) ==
    [f \in DOMAIN schema.props |->
        LET def == schema.props[f]
            ranged == def.type \in Numeric
        IN [visible  |-> ~def.hidden,
            disabled |-> FALSE,
            required |-> f \in schema.required,
            options  |-> IF def.type \in {"enum", "multi_enum"} THEN def.options ELSE None,
            min      |-> IF ranged THEN def.min ELSE None,
            max      |-> IF ranged THEN def.max ELSE None]]

\* The options of the definition that are allowed, whatever was left of them.
Restricted(options, allowed, current) ==
    IF options = None THEN current ELSE Only(options, allowed)

\* [mutant] A range stands for both bounds, the one it leaves open included.
ApplyWholeRange(states, a, schema) ==
    IF a.target \notin DOMAIN states THEN states
    ELSE LET state == states[a.target]
         IN [states EXCEPT ![a.target] =
               CASE a.type = "restrict_options" ->
                      [state EXCEPT !.options = Restricted(schema.props[a.target].options, a.values, @)]
                 [] a.type = "set_range" -> [state EXCEPT !.min = a.min, !.max = a.max]
                 [] a.type = "disable" -> [state EXCEPT !.disabled = TRUE]
                 [] a.type = "show" -> [state EXCEPT !.visible = TRUE]
                 [] a.type = "hide" -> [state EXCEPT !.visible = FALSE]
                 [] a.type = "set_required" -> [state EXCEPT !.required = a.required]
                 [] OTHER -> state]
ApplyAction(states, a, schema) ==
    IF a.target \notin DOMAIN states THEN states
    ELSE LET state == states[a.target]
         IN [states EXCEPT ![a.target] =
               CASE a.type = "restrict_options" ->
                      [state EXCEPT !.options = Restricted(schema.props[a.target].options, a.values, @)]
                 [] a.type = "set_range" ->
                      [state EXCEPT !.min = OrElse(a.min, @), !.max = OrElse(a.max, @)]
                 [] a.type = "disable" -> [state EXCEPT !.disabled = TRUE]
                 [] a.type = "show" -> [state EXCEPT !.visible = TRUE]
                 [] a.type = "hide" -> [state EXCEPT !.visible = FALSE]
                 [] a.type = "set_required" -> [state EXCEPT !.required = a.required]
                 [] OTHER -> state]

\* The actions of the constraints that hold, in their order.
Applying(constraints, values) ==
    FlattenSeq([i \in DOMAIN constraints |->
        IF EvaluateCondition(constraints[i].when, values) THEN constraints[i].do ELSE <<>>])

\* The states after some actions.
After(actions, schema) ==
    LET upTo[n \in 0..Len(actions)] ==
          IF n = 0 THEN InitFieldStates(schema) ELSE ApplyAction(upTo[n - 1], actions[n], schema)
    IN upTo[Len(actions)]

EvaluateConstraints(values, schema, constraints) ==
    LET applied == After(Applying(constraints, values), schema)
        when(f) == schema.props[f].when
    IN [f \in DOMAIN applied |->
          [applied[f] EXCEPT !.visible = @ /\ (when(f) # None => EvaluateCondition(when(f), values))]]

\* A value against the definition and the state of its field.
FieldValueValid(v, def, state) ==
    LET min == OrElse(state.min, def.min)
        max == OrElse(state.max, def.max)
    IN CASE def.type \in Numeric ->
              /\ v[1] = "num"
              /\ min # None => v[2] >= min
              /\ max # None => v[2] <= max
         [] def.type = "boolean" -> v[1] = "bool"
         [] def.type = "enum" ->
              LET options == OrElse(state.options, def.options)
              IN options # None => v \in Entries(options)
         [] def.type \in {"string", "text", "file"} -> v[1] = "str"
         [] def.type \in {"multi_enum", "file_list"} -> FALSE
         [] OTHER -> TRUE

\* What is given, completed by the defaults.
Resolved(params, schema) ==
    [f \in Fields |->
        IF f \notin DOMAIN schema.props THEN None
        ELSE OrElse(params[f], OrElse(schema.props[f].default, schema.defaults[f]))]

\* Fields that are not visible are not looked at.
InvalidFields(params, schema, constraints) ==
    LET resolved == Resolved(params, schema)
        states == EvaluateConstraints(resolved, schema, constraints)
    IN {f \in DOMAIN schema.props :
          /\ states[f].visible
          /\ IF resolved[f] = None THEN states[f].required
             ELSE ~FieldValueValid(resolved[f], schema.props[f], states[f])}

-----------------------------------------------------------------------------
(* Contracts: what the catalog takes. *)

ConditionFields(condition) ==
    LET named[c \in Conditions] ==
          IF c.op \in {"and", "or", "not"} THEN UNION {named[c.of[i]] : i \in DOMAIN c.of}
          ELSE {c.field}
    IN named[condition]

Ordered(min, max) == min # None /\ max # None => min <= max

ParamContractValid(c) ==
    LET fields == DOMAIN c.schema.props
    IN /\ c.schema.required \subseteq fields
       /\ \A f \in Fields : c.schema.defaults[f] # None => f \in fields
       /\ \A f \in fields :
             LET def == c.schema.props[f]
             IN /\ Ordered(def.min, def.max)
                /\ def.when # None => ConditionFields(def.when) \subseteq fields
       /\ \A i \in DOMAIN c.constraints :
             LET k == c.constraints[i]
             IN /\ k.do # <<>> /\ ConditionFields(k.when) \subseteq fields
                /\ \A j \in DOMAIN k.do : k.do[j].target \in fields /\ Ordered(k.do[j].min, k.do[j].max)

-----------------------------------------------------------------------------
(* The forms. *)

Contract(revision) == IF revision = None THEN None ELSE ContractOf[revision]

\* The control of a field, or None: chips for options, numbers, toggles.
SpecOf(c, f) ==
    LET def == c.schema.props[f]
        options == OrElse(def.options, <<>>)
    IN IF c = None \/ f \in Hidden \/ f \notin DOMAIN c.schema.props THEN None
       ELSE IF options # <<>>
       THEN [control |-> "chips", options |-> options, default |-> OrElse(def.default, options[1]),
             min |-> None, max |-> None]
       ELSE IF def.type \in Numeric
       THEN [control |-> IF def.type = "slider" \/ (def.min # None /\ def.max # None) THEN "slider" ELSE "number",
             options |-> <<>>, default |-> def.default, min |-> def.min, max |-> def.max]
       ELSE IF def.type = "boolean"
       THEN [control |-> "toggle", options |-> <<>>, default |-> OrElse(def.default, <<"bool", 0>>),
             min |-> None, max |-> None]
       ELSE None

\* Options are compared by what they look like.
IsValidParamValue(spec, v) ==
    /\ v # None
    /\ spec.options # <<>> => \E i \in DOMAIN spec.options : Alike(spec.options[i], v)

FirstUsable(spec, candidates) ==
    LET usable == {n \in DOMAIN candidates : IsValidParamValue(spec, candidates[n])}
    IN IF usable = {} THEN None ELSE candidates[Min(usable)]

\* [mutant] What the user had set survives wherever the field exists.
KeepParams(c, values) ==
    [f \in Fields |->
        LET spec == SpecOf(c, f)
        IN IF spec = None THEN None
           ELSE OrElse(OrElse(values[f], c.schema.defaults[f]), spec.default)]
\* The command bar: what the user had set survives where the new model takes it.
ReconcileParams(c, values) ==
    [f \in Fields |->
        LET spec == SpecOf(c, f)
            current == OrElse(values[f], c.schema.defaults[f])
        IN IF spec = None THEN None
           ELSE IF IsValidParamValue(spec, current) THEN current ELSE spec.default]

\* The node form: values the model does not take are overwritten in the node.
FillMissing(c, values) ==
    [f \in Fields |->
        LET spec == SpecOf(c, f)
        IN IF spec = None THEN values[f]
           ELSE IF IsValidParamValue(spec, OrElse(values[f], c.schema.defaults[f])) THEN values[f]
           ELSE OrElse(OrElse(c.schema.defaults[f], spec.default), values[f])]

\* The node's submission: exactly what the fresh schema declares.
SelectCatalogModelParams(c, values) ==
    [f \in Fields |->
        IF SpecOf(c, f) = None THEN None
        ELSE FirstUsable(SpecOf(c, f), <<values[f], c.schema.defaults[f], SpecOf(c, f).default>>)]

\* What a control yields.  The number box of a node serves toggles too.
Yields(kind, spec) ==
    IF spec.options # <<>> THEN Entries(spec.options)
    ELSE IF kind = "quick" /\ spec.control = "toggle" THEN {<<"bool", n>> : n \in {0, 1}}
    ELSE IF kind = "quick" /\ spec.control = "slider"
    THEN {<<"num", n>> : n \in {x \in Numbers : /\ x >= OrElse(spec.min, 0)
                                                /\ spec.max # None => x <= spec.max}}
    ELSE {<<"num", n>> : n \in Numbers} \cup {None}

NoValues == [f \in Fields |-> None]

\* A node may hold a value of any earlier model.
Init ==
    /\ offered \in {c \in Revisions : ParamContractValid(ContractOf[c])}
    /\ \E kind \in Forms : form = [kind |-> kind, seen |-> None, ready |-> FALSE, values |-> NoValues]
    /\ sent = None

LoadSchema ==
    /\ sent = None /\ ~form.ready
    /\ form' = [form EXCEPT !.seen = offered, !.ready = TRUE,
                            !.values = IF form.kind = "quick" THEN ReconcileParams(ContractOf[offered], @)
                                       ELSE FillMissing(ContractOf[offered], @)]
    /\ UNCHANGED <<offered, sent>>

LoadFails ==
    /\ sent = None /\ ~form.ready
    /\ form' = [form EXCEPT !.seen = None, !.ready = TRUE]
    /\ UNCHANGED <<offered, sent>>

\* Another model, or another revision of it: the values stay.
SelectModel(c) ==
    /\ sent = None /\ form.ready /\ ParamContractValid(ContractOf[c]) /\ c # offered
    /\ offered' = c
    /\ form' = [form EXCEPT !.seen = None, !.ready = FALSE]
    /\ UNCHANGED sent

\* Another kind of output empties the command bar.
SwitchOutput ==
    /\ sent = None /\ form.kind = "quick" /\ form.ready
    /\ form' = [form EXCEPT !.seen = None, !.ready = FALSE, !.values = NoValues]
    /\ UNCHANGED <<offered, sent>>

SetParam(f, v) ==
    /\ sent = None /\ form.seen # None
    /\ LET spec == SpecOf(ContractOf[form.seen], f)
       IN spec # None /\ v \in Yields(form.kind, spec)
    /\ form' = [form EXCEPT !.values[f] = v]
    /\ UNCHANGED <<offered, sent>>

\* The command bar sends its values; a node fetches the schema again and sends
\* its own values if that fails.  Fields without a control come with the inputs.
Submit(inputs) ==
    /\ sent = None
    /\ \E c \in IF form.kind = "quick" THEN {form.seen} ELSE {offered, None} :
          /\ form.kind = "quick" => form.ready
          /\ LET params == IF form.kind = "quick" \/ c = None THEN form.values
                           ELSE SelectCatalogModelParams(ContractOf[c], form.values)
             IN sent' = [for |-> c, pin |-> None, verdict |-> None,
                         values |-> [f \in Fields |-> IF f \in Hidden THEN inputs[f] ELSE params[f]]]
    /\ UNCHANGED <<offered, form>>

Create ==
    /\ sent # None /\ sent.pin = None
    /\ sent' = [sent EXCEPT !.pin = offered]
    /\ UNCHANGED <<offered, form>>

\* The values are checked against the schema of the pinned revision.
Execute ==
    /\ sent # None /\ sent.pin # None /\ sent.verdict = None
    /\ sent' = [sent EXCEPT !.verdict =
                  IF InvalidFields(sent.values, ContractOf[sent.pin].schema, ContractOf[sent.pin].constraints) = {}
                  THEN "accepted" ELSE "refused"]
    /\ UNCHANGED <<offered, form>>

\* A new revision is published between the submission and the Task.
Republish(c) ==
    /\ sent # None /\ sent.pin = None /\ sent.for = offered
    /\ ParamContractValid(ContractOf[c]) /\ c # offered
    /\ offered' = c
    /\ UNCHANGED <<form, sent>>

Next ==
    \/ LoadSchema \/ LoadFails \/ SwitchOutput \/ Create \/ Execute
    \/ \E c \in Revisions : SelectModel(c) \/ Republish(c)
    \/ \E f \in Fields, v \in {<<k, n>> : k \in {"num", "str", "bool"}, n \in Numbers} \cup {None} : SetParam(f, v)
    \/ \E inputs \in [Fields -> {None, <<"str", 1>>, <<"str", 2>>}] :
          (\A f \in Fields \ Hidden : inputs[f] = None) /\ Submit(inputs)

Spec == Init /\ [][Next]_paramsVars

-----------------------------------------------------------------------------
(* Properties *)

TypeOK ==
    /\ offered \in Revisions
    /\ form.kind \in Forms /\ form.ready \in BOOLEAN
    /\ DOMAIN form.values = Fields
    /\ sent # None => sent.verdict \in {None, "accepted", "refused"}

\* The state of a field, said without an order of evaluation: the last action
\* of its kind that applies to the field decides, else the definition does; and
\* a condition for being visible can only hide.
OfType(actions, f, types) == {n \in DOMAIN actions : actions[n].target = f /\ actions[n].type \in types}
LastOf(actions, those) == IF those = {} THEN None ELSE actions[Max(those)]

DecidedByLast(values, c) ==
    LET applying == Applying(c.constraints, values)
        states == EvaluateConstraints(values, c.schema, c.constraints)
    IN \A f \in DOMAIN c.schema.props :
          LET def == c.schema.props[f]
              last(types) == LastOf(applying, OfType(applying, f, types))
              shows == last({"show", "hide"})
              needs == last({"set_required"})
              keeps == last({"restrict_options"})
              low   == LastOf(applying, {n \in OfType(applying, f, {"set_range"}) : applying[n].min # None})
          IN /\ states[f].visible <=>
                   /\ IF shows = None THEN ~def.hidden ELSE shows.type = "show"
                   /\ def.when = None \/ EvaluateCondition(def.when, values)
             /\ states[f].required <=> IF needs = None THEN f \in c.schema.required ELSE needs.required
             /\ def.type = "enum" /\ def.options # None =>
                   Entries(states[f].options) =
                   {o \in Entries(def.options) : keeps # None => o \in keeps.values}
             /\ def.type \in Numeric => states[f].min = IF low = None THEN def.min ELSE low.min
             /\ states[f].disabled <=> last({"disable"}) # None

EngineDecides ==
    LET c == ContractOf[OrElse(form.seen, offered)]
    IN DecidedByLast(Resolved(form.values, c.schema), c)

\* Where the two sides are known to differ: the forms take a value without
\* options as it is, whatever its type and range; they know nothing of fields
\* without a control, of constraints on the options or of defaults that are no
\* option; and they compare options by their looks.
KnownGap(t, f) ==
    LET c == ContractOf[t.pin]
        schema == c.schema
        def == schema.props[f]
        v == Resolved(t.values, schema)[f]
        states == EvaluateConstraints(Resolved(t.values, schema), schema, c.constraints)
    IN \/ def.options \in {None, <<>>} \/ f \in Hidden \/ def.type # "enum"
       \/ states[f].options # def.options
       \/ /\ v # None /\ v \notin Entries(def.options)
          /\ \/ v \in {def.default, schema.defaults[f]}
             \/ \E i \in DOMAIN def.options : Alike(v, def.options[i])

\* A chosen option is one the server takes, whatever models the form has gone
\* through: values of another model do not survive where they do not fit. Only
\* a schema that was not loaded, a new revision and the known gaps differ.
ParamsAccepted ==
    sent # None /\ sent.verdict = "refused" =>
        \/ sent.for # sent.pin
        \/ LET c == ContractOf[sent.pin]
           IN \A f \in InvalidFields(sent.values, c.schema, c.constraints) : KnownGap(sent, f)
=============================================================================
