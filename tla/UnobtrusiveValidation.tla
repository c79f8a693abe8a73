----------------------- MODULE UnobtrusiveValidation -----------------------
(***************************************************************************)
(* One form under jquery.validate.unobtrusive.js: parsing its inputs,      *)
(* attaching the validator, showing and clearing errors, reset, submission.*)
(*                                                                         *)
(* The library keeps two copies of the rules of a form: `options', which   *)
(* every parse updates, and `settings', the deep copy the validator of     *)
(* jQuery Validate takes of it once, when it is created.  The functions of *)
(* jQuery Validate the library is called from are modelled from            *)
(* jquery.validate.js of the same directory.                               *)
(*                                                                         *)
(* The page is the environment: the user changes values, presses keys,     *)
(* leaves fields, submits and resets; page scripts add, show, hide, enable *)
(* and disable inputs, call parse, parseElement and the validate function  *)
(* kept for unobtrusive Ajax, and destroy the validator.  An event handler *)
(* runs to its end undisturbed.                                            *)
(***************************************************************************)
EXTENDS Adapters

CONSTANTS Elements, \* the inputs the form may contain, by name
          Replaces, \* those whose message container has data-valmsg-replace=true
          Hideable, Disableable, \* what page scripts hide or disable
          Values,   \* what a user may enter
          Breaks    \* the <<rule, parameter, value>> at which a method fails

Fields == DOMAIN Elements
Target(f) == AppendModelPrefix(Elements[f].attrs[<<"equalto", "other">>], GetModelPrefix(f))
Confirms(f) == <<"equalto">> \in DOMAIN Elements[f].attrs

TextTypes == {"text", "password", "email", "url", "tel", "search", "textarea"}

ASSUME ElementsAssumption ==
    /\ Replaces \subseteq Fields
    /\ Hideable \subseteq Fields /\ Disableable \subseteq Fields
    /\ "" \in Values
    \* no buttons, and no inputs that are clicked
    /\ \A f \in Fields : Elements[f].type \in TextTypes \cup {"hidden"}
    \* equalTo is bound to its target by the first input that compares with it
    /\ \A f, g \in Fields :
         Confirms(f) /\ Confirms(g) /\ Target(f) = Target(g) => f = g

VARIABLES page,       \* "loading", "open", or "posted" once a submission went through
          present,    \* the inputs in the form, all with data-val=true
          hidden,     \* the inputs that are not displayed
          disabled,   \* those that are disabled
          value,      \* what each holds
          info,       \* whether the form has its validationInfo
          options,    \* info.options: the rules of the inputs parsed so far
          attached,   \* whether the form has a validator
          settings,   \* the validator's own rules
          handlers,   \* the reset handlers bound to the form
          resetting,  \* the __jquery_unobtrusive_validation_form_reset flag
          submitted,  \* validator.submitted: the fields found invalid so far
          invalid,    \* validator.invalid: its keys
          watched,    \* <<target, field>>: blur on target checks field
          container,  \* the class and the text of each message container
          summary     \* the class of the summary and the messages it lists

inputVars == <<present, hidden, disabled>>
pageVars == <<page, inputVars, value>>
ruleVars == <<info, options, attached, settings, handlers>>
checkVars == <<submitted, invalid, watched>>
shownVars == <<container, summary>>
vars == <<pageVars, ruleVars, resetting, checkVars, shownVars>>

None == <<>> \* the rules of no input

Init ==
    /\ page = "loading"
    /\ present \in SUBSET Fields
    /\ hidden \in SUBSET Hideable
    /\ disabled \in SUBSET Disableable
    /\ value = [f \in Fields |-> ""]
    /\ info = FALSE
    /\ options = None
    /\ attached = FALSE
    /\ settings = None
    /\ handlers = 0
    /\ resetting = FALSE
    /\ submitted = {}
    /\ invalid = {}
    /\ watched = {}
    /\ container = [f \in Fields |->
                      [class |-> "valid", text |-> IF f \in Replaces THEN "" ELSE "static"]]
    /\ summary = [class |-> "valid", items |-> {}]

-----------------------------------------------------------------------------
(* Parsing.  The copy the validator makes leaves out what is undefined;    *)
(* the other rules keep their places.                                      *)
DeepCopy(rules) ==
    [f \in DOMAIN rules |-> RestrictValues(rules[f], LAMBDA r : r.param # Undefined)]

RulesAmong == [inputs \in SUBSET Fields |->
                 [f \in Fields |-> AdaptedRules(Elements[f], inputs)]]

(* A parse that forgets what was parsed before.                            *)
ParsedOptionsAnew(S) == [f \in S |-> RulesAmong[present][f]]

ParsedOptions(S) ==
    [f \in DOMAIN options \cup S |-> IF f \in S THEN RulesAmong[present][f] ELSE options[f]]

(* An off that does not recognise the handler removes nothing.             *)
HandlersKept(bound) == bound

(* off finds the handler again, the one proxy the form's validationInfo    *)
(* was made with; validate returns an existing validator and ignores its   *)
(* argument.                                                               *)
HandlersOff(bound) == 0

AttachValidation(rules) ==
    /\ handlers' = HandlersOff(handlers) + 1
    /\ attached' = TRUE
    /\ settings' = IF attached THEN settings ELSE DeepCopy(rules)

ParseElement(f, skipAttach) ==
    /\ page # "posted"
    /\ f \in present
    /\ info' = TRUE
    /\ options' = ParsedOptions({f})
    /\ IF skipAttach THEN UNCHANGED <<handlers, attached, settings>>
                     ELSE AttachValidation(options')
    /\ UNCHANGED <<pageVars, resetting, checkVars, shownVars>>

(* S are the inputs below the selector; a form with inputs elsewhere is    *)
(* attached even when there are none.                                      *)
Parse(S) ==
    /\ S \subseteq present
    /\ IF present = {}
       THEN UNCHANGED ruleVars
       ELSE /\ info' = TRUE
            /\ options' = ParsedOptions(S)
            /\ AttachValidation(options')
    /\ UNCHANGED <<inputVars, value, resetting, checkVars, shownVars>>

Ready == page = "loading" /\ page' = "open" /\ Parse(present)

ParseAgain(S) == page = "open" /\ UNCHANGED page /\ Parse(S)

-----------------------------------------------------------------------------
(* Checking: the rules in force are tried up to the first that fails.      *)
RulesOf(f) == IF f \in DOMAIN settings THEN settings[f] ELSE None

(* In order of insertion, but with required in front.                      *)
Turn(f, i) == IF RulesOf(f)[i].name = "required" THEN 0 ELSE i

Outcome(f, rule) ==
    CASE rule.name = "__dummy__" -> "passes"
      [] rule.name = "equalTo" -> IF value[f] = value[rule.param[1]] THEN "passes" ELSE "fails"
      [] rule.name = "required" -> IF value[f] = "" THEN "fails" ELSE "passes"
      [] rule.name = "nonalphamin" /\ value[f] = "" -> "fails"
      [] rule.name = "regex" /\ value[f] = "" -> "passes"
      [] rule.name \notin {"__dummy__", "equalTo", "required", "nonalphamin", "regex"}
            /\ value[f] = "" -> "mismatch"
      [] OTHER -> IF <<rule.name, rule.param, value[f]>> \in Breaks THEN "fails" ELSE "passes"

(* Every empty input taken for an optional one.                            *)
FailsFilled(f) ==
    {i \in DOMAIN RulesOf(f) : value[f] # "" /\ Outcome(f, RulesOf(f)[i]) = "fails"}

Fails(f) == {i \in DOMAIN RulesOf(f) : Outcome(f, RulesOf(f)[i]) = "fails"}
Broken(f) == Fails(f) # {}
FirstBroken(f) ==
    LET fails == Fails(f)
    IN  CHOOSE i \in fails : \A j \in fails : Turn(f, i) <= Turn(f, j)

(* A single rule that is optional at this value neither fails nor succeeds *)
Skipped(f) ==
    \E i \in DOMAIN RulesOf(f) :
        DOMAIN RulesOf(f) = {i} /\ Outcome(f, RulesOf(f)[i]) = "mismatch"

Says(rule) == IF rule.message = "" THEN rule.name ELSE rule.message
Message(f) == Says(RulesOf(f)[FirstBroken(f)])

OnError(c, f, message) ==
    [class |-> "error", text |-> IF f \in Replaces THEN message ELSE c.text]

OnSuccess(c, f) ==
    [class |-> "valid", text |-> IF f \in Replaces THEN "" ELSE c.text]

(* No label of an earlier check is found again, so that a success, too, is *)
(* first placed as an error.                                               *)
ShowLabel(f) ==
    IF Broken(f) THEN OnError(container[f], f, Message(f))
    ELSE IF RulesOf(f) # None /\ ~Skipped(f)
    THEN OnSuccess(OnError(container[f], f, ""), f)
    ELSE container[f]

(* The target of f's equalTo, when that rule is reached.                   *)
Compared(f) ==
    {RulesOf(f)[i].param[1] : i \in {j \in DOMAIN RulesOf(f) :
        /\ RulesOf(f)[j].name = "equalTo"
        /\ Broken(f) => Turn(f, j) <= Turn(f, FirstBroken(f))}}

Check(S) ==
    /\ submitted' = submitted \cup {f \in S : Broken(f)}
    /\ watched' = watched \cup
         UNION {{<<t, f>> : t \in {u \in Compared(f) : \A w \in watched : w[1] # u}} : f \in S}
    /\ container' = [f \in Fields |-> IF f \in S THEN ShowLabel(f) ELSE container[f]]

-----------------------------------------------------------------------------
(* Submission: form() of the validator, with onErrors as its handler.  It  *)
(* passes over what settings.ignore selects, ":hidden", and what is        *)
(* disabled (elements).                                                    *)
Ignored == {f \in Fields : f \in hidden \/ Elements[f].type = "hidden"}
Editable == present \ (Ignored \cup disabled)
Checkable == {f \in Editable : RulesOf(f) # None}
Invalid == {f \in Checkable : Broken(f)}

(* The list is not emptied first.                                          *)
OnErrorsAppended(messages) ==
    summary' = [class |-> "errors", items |-> summary.items \cup messages]

OnErrors(messages) == summary' = [class |-> "errors", items |-> messages]

Form ==
    /\ invalid' = Invalid
    /\ Check(Checkable)
    /\ IF Invalid # {} THEN OnErrors({Message(f) : f \in Invalid})
                       ELSE UNCHANGED summary

Submit ==
    /\ page = "open"
    /\ UNCHANGED <<inputVars, value, ruleVars, resetting>>
    /\ IF attached
       THEN Form /\ page' = IF Invalid = {} THEN "posted" ELSE page
       ELSE page' = "posted" /\ UNCHANGED <<checkVars, shownVars>>

(* info.validate().  Without a validator it makes one that has no options. *)
Validate ==
    /\ page = "open"
    /\ info
    /\ UNCHANGED <<pageVars, info, options, settings, handlers, resetting>>
    /\ attached' = TRUE
    /\ IF attached THEN Form
                   ELSE UNCHANGED <<checkVars, shownVars>>

-----------------------------------------------------------------------------
(* The events of a field, which an ignored one does not pass on to the     *)
(* validator (delegate), and element() of the validator, which only        *)
(* forgets an ignored one (validationTargetFor).                           *)
CheckElements(S) ==
    /\ UNCHANGED <<pageVars, ruleVars, resetting, summary>>
    /\ invalid' = (invalid \ S) \cup (S \ Ignored)
    /\ Check(S \ Ignored)

KeyUp(f) ==
    /\ page = "open" /\ attached
    /\ f \in Editable \cap (submitted \cup invalid)
    /\ CheckElements({f})

(* An input may be hidden, but not disabled, while it has the focus.       *)
LeftBy(t) ==
    {f \in present : <<t, f>> \in watched}
        \cup (IF t \notin Ignored /\ (t \in submitted \/ value[t] # "") THEN {t} ELSE {})

FocusOut(t) ==
    /\ page = "open" /\ attached
    /\ t \in present \ disabled
    /\ CheckElements(LeftBy(t))

(* By the user or by a page script.                                        *)
SetValue(f, v) ==
    /\ page # "posted"
    /\ f \in present
    /\ v # value[f]
    /\ value' = [value EXCEPT ![f] = v]
    /\ UNCHANGED <<page, inputVars, ruleVars, resetting, checkVars, shownVars>>

Toggled(S, f) == IF f \in S THEN S \ {f} ELSE S \cup {f}

ChangeField(f) ==
    /\ page # "posted"
    /\ \/ /\ f \notin present
          /\ present' = present \cup {f}
          /\ UNCHANGED <<hidden, disabled>>
       \/ /\ f \in Hideable \cap present
          /\ hidden' = Toggled(hidden, f)
          /\ UNCHANGED <<present, disabled>>
       \/ /\ f \in Disableable \cap present
          /\ disabled' = Toggled(disabled, f)
          /\ UNCHANGED <<present, hidden>>
    /\ UNCHANGED <<page, value, ruleVars, resetting, checkVars, shownVars>>

-----------------------------------------------------------------------------
(* Reset.  Without a validator resetForm throws, and only the finally      *)
(* clause is left to run.  The browser leaves inputs of type hidden alone. *)
FlagLeftSet == TRUE
FlagAfterThrow == FALSE

(* The validator is reset, the containers are not.                         *)
ResetLabelsForgotten ==
    submitted' = {} /\ invalid' = {} /\ UNCHANGED shownVars

ResetLabels ==
    /\ submitted' = {}
    /\ invalid' = {}
    /\ container' = [f \in Fields |-> [container[f] EXCEPT !.class = "valid"]]
    /\ summary' = [summary EXCEPT !.class = "valid"]

OnReset ==
    IF handlers = 0 \/ resetting
    THEN UNCHANGED <<resetting, submitted, invalid, shownVars>>
    ELSE IF attached
    THEN ResetLabels /\ resetting' = FALSE
    ELSE /\ resetting' = FlagAfterThrow
         /\ UNCHANGED <<submitted, invalid, shownVars>>

Reset ==
    /\ page # "posted"
    /\ OnReset
    /\ value' = [f \in Fields |-> IF Elements[f].type = "hidden" THEN value[f] ELSE ""]
    /\ UNCHANGED <<page, inputVars, ruleVars, watched>>

(* destroy() of the validator, by a page script.                           *)
Destroy ==
    /\ page = "open"
    /\ attached
    /\ attached' = FALSE
    /\ settings' = None
    /\ submitted' = {} /\ invalid' = {} /\ watched' = {}
    /\ UNCHANGED <<pageVars, info, options, handlers, resetting, shownVars>>

Next ==
    \/ Ready
    \/ \E S \in SUBSET Fields : ParseAgain(S)
    \/ \E f \in Fields, skipAttach \in BOOLEAN : ParseElement(f, skipAttach)
    \/ \E f \in Fields, v \in Values : SetValue(f, v)
    \/ \E f \in Fields : ChangeField(f) \/ KeyUp(f) \/ FocusOut(f)
    \/ Submit \/ Validate \/ Reset \/ Destroy

Spec == Init /\ [][Next]_vars

-----------------------------------------------------------------------------
TypeOK ==
    /\ page \in {"loading", "open", "posted"}
    /\ present \subseteq Fields /\ hidden \subseteq Fields /\ disabled \subseteq Fields
    /\ value \in [Fields -> Values]
    /\ info \in BOOLEAN /\ attached \in BOOLEAN /\ resetting \in BOOLEAN
    /\ DOMAIN options \subseteq Fields /\ DOMAIN settings \subseteq DOMAIN options
    /\ handlers \in Nat
    /\ submitted \subseteq Fields /\ invalid \subseteq Fields
    /\ \A w \in watched : w[2] \in Fields
    /\ \A f \in Fields : container[f].class \in {"valid", "error"}
    /\ summary.class \in {"valid", "errors"}

(* After a check the container tells the verdict: an error with the        *)
(* message of the first broken rule exactly when a rule in force is        *)
(* broken, also when an optional field has been emptied or only the field  *)
(* it is compared with has changed (check, onError, onSuccess, the dummy). *)
(* Fields that are hidden or disabled are not checked.                     *)
Checked(f) ==
    \/ KeyUp(f)
    \/ \E t \in Fields : f \in LeftBy(t) \ Ignored /\ FocusOut(t)
    \/ attached /\ f \in Editable /\ (Submit \/ Validate)

Tells(f, shown) ==
    \/ /\ Fails(f) = {} /\ shown.class = "valid"
       /\ f \in Replaces => shown.text = ""
    \/ /\ shown.class = "error"
       /\ \E i \in Fails(f) :
            /\ \A j \in Fails(f) \ {i} : Turn(f, i) < Turn(f, j)
            /\ f \in Replaces => shown.text = Says(RulesOf(f)[i])

ErrorsFollowChecks ==
    [][\A f \in Fields : f \in DOMAIN settings /\ Checked(f) => Tells(f, container'[f])]_vars

(* While a validator lives no step leaves an error that the next key would *)
(* not revise: a field is dropped from submitted only together with its    *)
(* error (onReset against onError and formatAndAdd).                       *)
Orphaned(f) == container[f].class = "error" /\ f \notin submitted

ErrorsStayRevisable ==
    [][attached /\ attached' => \A f \in Fields : Orphaned(f)' => Orphaned(f)]_vars

(* Whatever is shown can be reset: when an error is shown, exactly one     *)
(* reset handler is bound, however often the form has been parsed and its  *)
(* validator destroyed (attachValidation).                                 *)
ErrorsCanBeReset ==
    (\E f \in Fields : container[f].class = "error") \/ summary.class = "errors"
        => handlers = 1

(* A reset of a form with a validator clears every error and makes the     *)
(* validator forget it, even after an earlier reset that threw (onReset    *)
(* and its finally clause).                                                *)
ResetClears ==
    [][attached /\ Reset =>
         /\ \A f \in Fields : container'[f].class = "valid"
         /\ summary'.class = "valid"
         /\ submitted' = {}]_vars

(* A submission is refused exactly when a rule in force is broken at an    *)
(* input that is displayed and enabled, and leaves the summary with its    *)
(* own messages, none of an earlier one nor of an input hidden since, and  *)
(* an error at each of the fields (form, elements, onErrors).              *)
RefusalIsSummarised ==
    [][attached /\ Submit =>
         LET broken == {f \in Editable : Broken(f)}
         IN  /\ page' = "open" <=> broken # {}
             /\ broken # {} =>
                  summary' = [class |-> "errors", items |-> {Message(f) : f \in broken}]
             /\ \A f \in broken : container'[f].class = "error"]_vars

(* What the attribute asks for, the submission enforces: an input that is  *)
(* required, was parsed before the validator was made, and is displayed    *)
(* and enabled at the submission, is not posted empty (the adapter, the    *)
(* validator's copy, elements, check).                                     *)
RequiredIsFilled ==
    [][page' = "posted" /\ attached /\ Submit =>
         \A f \in Editable \cap DOMAIN settings : Requires(Elements[f]) => value[f] # ""]_vars

(* What the comment on parse says: it enables validation according to the  *)
(* data-val-* attributes.  So a submission that went through the validator *)
(* breaks no rule of a parsed input that is displayed and enabled.         *)
ParsedIsEnforced ==
    page = "posted" /\ attached =>
        \A f \in Editable \cap DOMAIN options :
            \A i \in DOMAIN DeepCopy(options)[f] : Outcome(f, DeepCopy(options)[f][i]) # "fails"
=============================================================================
