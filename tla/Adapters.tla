------------------------------ MODULE Adapters ------------------------------
(***************************************************************************)
(* The adapters of jquery.validate.unobtrusive.js: how the data-val-*      *)
(* attributes of one input become jQuery Validate rules.                   *)
(*                                                                         *)
(* An element is a record [name, type, attrs].  Its name is the sequence   *)
(* of its dotted parts; attrs maps <<"regex">> to the message of           *)
(* data-val-regex and <<"regex", "pattern">> to the value of               *)
(* data-val-regex-pattern.  An adapter is the record of its name, of the   *)
(* parameters to look up and of what its function captures.                *)
(*                                                                         *)
(* A JavaScript value that may be undefined is a sequence of at most one   *)
(* member.                                                                 *)
(***************************************************************************)
EXTENDS Naturals, Sequences, SequencesExt

Undefined == <<>>
True == <<"true">>
Truthy(text) == text \notin {Undefined, <<"">>}

Attr(element, path) ==
    IF path \in DOMAIN element.attrs THEN <<element.attrs[path]>> ELSE Undefined

(* adapters.add and its three shorthands.                                  *)
Adapter(name, params, adapt, rules, reads) ==
    [name |-> name, params |-> params, adapt |-> adapt,
     rules |-> rules, reads |-> reads]

Bool(name) == Adapter(name, {}, "bool", <<name>>, <<>>)

(* The lookup uses minAttribute and maxAttribute, the function it          *)
(* registers reads params.min and params.max whatever they are.            *)
MinMax(name, rules, minAttribute, maxAttribute) ==
    Adapter(name, {minAttribute, maxAttribute}, "minmax", rules, <<"min", "max">>)

SingleVal(name, attribute, ruleName) ==
    Adapter(name, {IF attribute = "" THEN "val" ELSE attribute}, "single",
            <<ruleName>>, <<attribute>>)

(* The adapters the library registers, in order, on a page that loads      *)
(* jquery.validate without its additional methods.                         *)
Registered ==
    << SingleVal("extension", "extension", "accept"),
       SingleVal("regex", "pattern", "regex"),
       Bool("creditcard"), Bool("date"), Bool("digits"), Bool("email"),
       Bool("number"), Bool("url"),
       MinMax("length", <<"minlength", "maxlength", "rangelength">>, "min", "max"),
       MinMax("range", <<"min", "max", "range">>, "min", "max"),
       MinMax("minlength", <<"minlength", "undefined", "undefined">>, "min", "max"),
       MinMax("maxlength", <<"minlength", "maxlength", "undefined">>, "min", "max"),
       Adapter("equalto", {"other"}, "equalto", <<"equalTo">>, <<>>),
       Adapter("required", {}, "required", <<"required">>, <<>>),
       Adapter("remote", {"url", "type", "additionalfields"}, "remote", <<"remote">>, <<>>),
       Adapter("password", {"min", "nonalphamin", "regex"}, "password",
               <<"minlength", "nonalphamin", "regex">>, <<"min", "nonalphamin", "regex">>),
       Adapter("fileextensions", {"extensions"}, "single", <<"extension">>, <<"extensions">>) >>

(* The rules of a field are a sequence in order of insertion.  Setting a   *)
(* rule again keeps its place, and its message when the new one is empty.  *)
SetValidationValues(rules, message, ruleName, value) ==
    LET i == SelectInSeq(rules, LAMBDA r : r.name = ruleName)
        kept == IF i = 0 THEN "" ELSE rules[i].message
        rule == [name |-> ruleName, param |-> value,
                 message |-> IF message = "" THEN kept ELSE message]
    IN  IF i = 0 THEN Append(rules, rule) ELSE [rules EXCEPT ![i] = rule]

GetModelPrefix(fieldName) == Front(fieldName)
AppendModelPrefix(value, prefix) ==
    IF Head(value) = "*" THEN prefix \o Tail(value) ELSE value

(* The params that are present, each with the rule it sets.                *)
SetPresent(rules, message, adapter, params) ==
    LET Set(rs, i) ==
            LET value == params[adapter.reads[i]]
            IN  IF Truthy(value)
                THEN SetValidationValues(rs, message, adapter.rules[i], value)
                ELSE rs
    IN  Set(Set(Set(rules, 1), 2), 3)

Param(params, name) == IF name \in DOMAIN params THEN params[name] ELSE Undefined

(* adapt(): the function of each adapter.  inputs are the names of the     *)
(* inputs the form contains while the element is parsed.                   *)
Adapt(adapter, rules, element, message, params, inputs) ==
    LET Set(i, value) == SetValidationValues(rules, message, adapter.rules[i], value)
        min == Param(params, "min")
        max == Param(params, "max")
        prefix == GetModelPrefix(element.name)
        Full(name) == AppendModelPrefix(name, prefix)
        additional == Param(params, "additionalfields")
        fields == IF additional = Undefined THEN <<element.name>> ELSE additional[1]
    IN  CASE adapter.adapt = "bool" -> Set(1, True)
          [] adapter.adapt = "single" -> Set(1, Param(params, adapter.reads[1]))
          [] adapter.adapt = "minmax" /\ Truthy(min) /\ Truthy(max) -> Set(3, <<min \o max>>)
          [] adapter.adapt = "minmax" /\ Truthy(min) /\ ~Truthy(max) -> Set(1, min)
          [] adapter.adapt = "minmax" /\ ~Truthy(min) /\ Truthy(max) -> Set(2, max)
          [] adapter.adapt = "equalto" ->
                LET other == Full(params["other"][1])
                IN  Set(1, IF other \in inputs THEN <<other>> ELSE Undefined)
          [] adapter.adapt = "required" /\ element.type # "checkbox" -> Set(1, True)
          [] adapter.adapt = "remote" ->
                Set(1, <<[url |-> Param(params, "url"),
                          type |-> IF Truthy(Param(params, "type"))
                                   THEN params["type"] ELSE <<"GET">>,
                          data |-> {Full(name) : name \in ToSet(fields)}]>>)
          [] adapter.adapt = "password" -> SetPresent(rules, message, adapter, params)
          [] OTHER -> rules

(* The loop of parseElement over the adapters.                             *)
AdapterRules(element, inputs) ==
    LET Apply(rules, adapter) ==
            LET message == Attr(element, <<adapter.name>>)
                params == [p \in adapter.params |-> Attr(element, <<adapter.name, p>>)]
            IN  IF message = Undefined THEN rules
                ELSE Adapt(adapter, rules, element, message[1], params, inputs)
    IN  FoldLeft(Apply, <<>>, Registered)

(* It ends with a rule that always passes, so that no field has just one.  *)
Dummy == [name |-> "__dummy__", param |-> True, message |-> ""]

AdaptedRules(element, inputs) == Append(AdapterRules(element, inputs), Dummy)

(* What the attributes of an input ask for.                                *)
Requires(element) == <<"required">> \in DOMAIN element.attrs /\ element.type # "checkbox"
=============================================================================
