------------------------------ MODULE ToolInputs ------------------------------
(****************************************************************************)
(* Tools whose inputs hold objects or arrays, and models that cannot write   *)
(* them (stringify_nested_tool_inputs): the model is told that such a value  *)
(* is a JSON string, what it writes is parsed when it answers and once more  *)
(* when the tool runs, and is made a string again when the model is shown    *)
(* its call (src/agent/message.rs, src/agent.rs).  The user may change the   *)
(* model, and with it the option, between any two of these.                  *)
(*                                                                          *)
(* A value is its kind and, of a string, what its text is as JSON.  anyOf,   *)
(* oneOf and allOf are one list; descriptions are left out but for "(JSON    *)
(* string)".                                                                 *)
(****************************************************************************)
EXTENDS Naturals, Sequences, FiniteSets, SequencesExt

CONSTANT ToolSchemas    \* the input schemas of the tools

VARIABLES
    tool_schema,        \* of the tool that is called
    compat,             \* stringify_nested_tool_inputs of the current model
    told_schema,        \* the tool as the last request describes it
    asked_compat,       \* the option of that request
    model_input,        \* the input the model wrote
    stored_input,       \* the input in the history
    given_input,        \* the input the tool was run with
    read_back           \* the input as the last request shows it

inputVars == <<tool_schema, compat, told_schema, asked_compat, model_input, stored_input,
               given_input, read_back>>

\* No input yet.
Unwritten == <<>>

InputInit ==
    /\ tool_schema \in ToolSchemas /\ compat \in BOOLEAN
    /\ told_schema = <<>> /\ asked_compat = FALSE
    /\ model_input = Unwritten /\ stored_input = Unwritten
    /\ given_input = Unwritten /\ read_back = Unwritten

-----------------------------------------------------------------------------
(* Schemas: types, properties, items and additional (none or one), any_of *)

Nested == {"object", "array"}

RECURSIVE schema_is_object_or_array(_)
schema_is_object_or_array(s) ==
    \/ s.types \cap Nested # {}
    \/ DOMAIN s.properties # {} \/ s.items # <<>>
    \/ \E n \in DOMAIN s.any_of : schema_is_object_or_array(s.any_of[n])

JsonString ==
    [types |-> {"string"}, properties |-> <<>>, items |-> <<>>, additional |-> <<>>,
     any_of |-> <<>>, json |-> TRUE]

RECURSIVE stringify_nested_schema_in_place(_, _)
stringify_nested_schema_in_place(s, depth) ==
    IF depth > 0 /\ schema_is_object_or_array(s) THEN JsonString
    ELSE LET each(f) == [k \in DOMAIN f |-> stringify_nested_schema_in_place(f[k], depth + 1)]
         IN  [s EXCEPT !.properties = each(@), !.items = each(@), !.additional = each(@),
                       !.any_of = each(@)]

stringify_nested_tool_schema(s) == stringify_nested_schema_in_place(s, 0)

-----------------------------------------------------------------------------
(* Inputs: a value for each key, or a value that is no object *)

Text(t)  == [kind |-> "string", text |-> t]
Value(k) == [kind |-> k, text |-> "none"]

Property(k) == k \in DOMAIN tool_schema.properties

\* Mutant of parse_stringified: whatever is JSON is parsed.
parse_any(k, v) ==
    IF Property(k) /\ v.kind = "string" /\ v.text # "plain" THEN Value(v.text) ELSE v

\* Texts that are no JSON stay as they are.
parse_stringified(k, v) ==
    IF /\ Property(k) /\ schema_is_object_or_array(tool_schema.properties[k])
       /\ v.kind = "string" /\ v.text # "plain"
    THEN Value(v.text) ELSE v

stringify_value(k, v) ==
    IF /\ Property(k) /\ schema_is_object_or_array(tool_schema.properties[k])
       /\ v.kind \in Nested
    THEN Text(v.kind) ELSE v

parse_stringified_tool_input(i) == [k \in DOMAIN i |-> parse_stringified(k, i[k])]
stringify_tool_input_value(i)   == [k \in DOMAIN i |-> stringify_value(k, i[k])]

-----------------------------------------------------------------------------
(* What a model may write: an input that is as the tool was described to it *)

RECURSIVE KindsOf(_)
KindsOf(s) ==
    s.types \cup (IF DOMAIN s.properties # {} THEN {"object"} ELSE {})
            \cup (IF s.items # <<>> THEN {"array"} ELSE {})
            \cup UNION {KindsOf(s.any_of[n]) : n \in DOMAIN s.any_of}

\* Of a value that is described as a JSON string, the text is a value of the property's
\* own schema; any other string may read as JSON or not.
Fits(v, told, own) ==
    IF told.json THEN v.kind = "string" /\ v.text \in KindsOf(own)
    ELSE v.kind \in KindsOf(told) /\ (v.kind = "string") = (v.text # "none")

Values ==
    {Text(t) : t \in {"plain", "number", "object", "array"}}
        \cup {Value(k) : k \in {"number", "object", "array"}}

Obeys(i, told) ==
    \A k \in DOMAIN i : Fits(i[k], told.properties[k], tool_schema.properties[k])

-----------------------------------------------------------------------------
(* Requests, answers and executions *)

ModelIsChanged ==
    /\ compat' = ~compat
    /\ UNCHANGED <<tool_schema, told_schema, asked_compat, model_input, stored_input, given_input,
                   read_back>>

\* The options of a request are those of the model at its start.
RequestShows ==
    /\ told_schema' = IF compat THEN stringify_nested_tool_schema(tool_schema) ELSE tool_schema
    /\ asked_compat' = compat
    /\ read_back' = IF compat THEN stringify_tool_input_value(stored_input) ELSE stored_input
    /\ UNCHANGED <<tool_schema, compat, model_input, stored_input, given_input>>

AnswerIsStored ==
    /\ told_schema # <<>> /\ model_input = Unwritten
    /\ model_input' \in {i \in [DOMAIN tool_schema.properties -> Values] : Obeys(i, told_schema)}
    /\ stored_input' = IF asked_compat THEN parse_stringified_tool_input(model_input') ELSE model_input'
    /\ UNCHANGED <<tool_schema, compat, told_schema, asked_compat, given_input, read_back>>

normalize_tool_input_for_execution ==
    /\ model_input # Unwritten
    /\ given_input' = IF compat THEN parse_stringified_tool_input(stored_input)
                      ELSE stored_input
    /\ UNCHANGED <<tool_schema, compat, told_schema, asked_compat, model_input, stored_input,
                   read_back>>

InputNext ==
    \/ ModelIsChanged \/ RequestShows \/ AnswerIsStored
    \/ normalize_tool_input_for_execution

-----------------------------------------------------------------------------
\* A property that takes a string as well as an object or array: its strings are parsed
\* if they read as JSON, so nothing can be said of it.  One that takes a number as well is
\* shown back as a number, although it is described as a string.
Ambiguous(s) == schema_is_object_or_array(s) /\ "string" \in KindsOf(s)
Mixed(s)     == schema_is_object_or_array(s) /\ ~(KindsOf(s) \subseteq Nested)

\* If the model keeps to what it was told of a tool, the tool is run with an input of
\* its schema, and the model is shown a call that keeps to what it is told then, however
\* the option changes between the request, the answer, the run and the next request.
ToolGetsWhatItAskedFor ==
    \A k \in DOMAIN tool_schema.properties : LET own == tool_schema.properties[k] IN
        /\ given_input # Unwritten /\ ~Ambiguous(own) => given_input[k].kind \in KindsOf(own)
        /\ read_back # Unwritten /\ ~Mixed(own) => Fits(read_back[k], told_schema.properties[k], own)
=============================================================================
