-------------------- MODULE UnobtrusiveValidationProofs --------------------
(***************************************************************************)
(* Types and the properties of UnobtrusiveValidation, for any inputs,      *)
(* attributes, values and methods.                                         *)
(***************************************************************************)
EXTENDS UnobtrusiveValidation, AdaptersProofs

(* What the records of the page look like.                                 *)
Shape ==
    /\ container = [f \in Fields |->
                      [class |-> container[f].class, text |-> container[f].text]]
    /\ summary = [class |-> summary.class, items |-> summary.items]

(* No validator, or one that was made without options: nothing is checked. *)
Unruled == settings = None /\ submitted = {}

IInv ==
    /\ TypeOK
    /\ Shape
    /\ handlers \in {0, 1}
    /\ ~attached => Unruled
    /\ handlers = 0 => Unruled
    /\ resetting = FALSE
    /\ ErrorsCanBeReset

(* A field without rules is not found broken and its container is left     *)
(* alone (check and showLabel of the validator).                           *)
LEMMA NothingToCheck ==
    ASSUME settings = None, NEW f
    PROVE  RulesOf(f) = None /\ ~Broken(f) /\ ShowLabel(f) = container[f]
<1>1. DOMAIN settings = {} /\ DOMAIN None = {}
  BY DEF None
<1>2. RulesOf(f) = None
  BY <1>1 DEF RulesOf
<1>3. ~Broken(f)
  BY <1>1, <1>2 DEF Broken, Fails
<1> QED
  BY <1>2, <1>3 DEF ShowLabel

(* Checking any inputs keeps the shape of the containers, and shows an     *)
(* error only for a field that is then known as submitted.                 *)
LEMMA CheckKeeps ==
    ASSUME TypeOK, Shape, NEW S \in SUBSET Fields, Check(S)
    PROVE  /\ submitted' \subseteq Fields
           /\ \A w \in watched' : w[2] \in Fields
           /\ container' = [f \in Fields |->
                              [class |-> container'[f].class, text |-> container'[f].text]]
           /\ \A f \in Fields : container'[f].class \in {"valid", "error"}
           /\ \A f \in Fields : Orphaned(f)' => Orphaned(f)
<1>1. submitted' \subseteq Fields
  BY DEF Check, TypeOK
<1>2. \A w \in watched' : w[2] \in Fields
  BY DEF Check, TypeOK
<1>3. ASSUME NEW f \in Fields
      PROVE  /\ container'[f] = [class |-> container'[f].class, text |-> container'[f].text]
             /\ container'[f].class \in {"valid", "error"}
             /\ Orphaned(f)' => Orphaned(f)
  <2>1. container[f] = [class |-> container[f].class, text |-> container[f].text]
    BY DEF Shape
  <2>2. container[f].class \in {"valid", "error"}
    BY DEF TypeOK
  <2>3. container'[f] = IF f \in S THEN ShowLabel(f) ELSE container[f]
    BY DEF Check
  <2>4. CASE f \in S /\ Broken(f)
    <3>1. container'[f] = OnError(container[f], f, Message(f))
      BY <2>3, <2>4 DEF ShowLabel
    <3>2. f \in submitted'
      BY <2>4 DEF Check
    <3> QED
      BY <3>1, <3>2 DEF OnError, Orphaned
  <2>5. CASE f \in S /\ ~Broken(f) /\ RulesOf(f) # None /\ ~Skipped(f)
    <3>1. container'[f] = OnSuccess(OnError(container[f], f, ""), f)
      BY <2>3, <2>5 DEF ShowLabel
    <3>2. PICK t : container'[f] = [class |-> "valid", text |-> t]
      BY <3>1 DEF OnSuccess
    <3> QED
      BY <3>2 DEF Orphaned
  <2>6. CASE ~(f \in S /\ Broken(f)) /\ ~(f \in S /\ RulesOf(f) # None /\ ~Skipped(f))
    <3>1. container'[f] = container[f]
      BY <2>3, <2>6 DEF ShowLabel
    <3>2. submitted \subseteq submitted'
      BY DEF Check
    <3> QED
      BY <2>1, <2>2, <3>1, <3>2 DEF Orphaned
  <2> QED
    BY <2>4, <2>5, <2>6
<1>4. container' = [f \in Fields |->
                      [class |-> container'[f].class, text |-> container'[f].text]]
  <2>1. container' = [f \in Fields |-> container'[f]]
    BY DEF Check
  <2> QED
    BY <1>3, <2>1
<1> QED
  BY <1>1, <1>2, <1>3, <1>4

(* Where there are no rules, checking changes nothing that is shown.       *)
LEMMA CheckNothing ==
    ASSUME Shape, Unruled, NEW S, Check(S)
    PROVE  submitted' = {} /\ container' = container
<1>1. \A f : ~Broken(f) /\ ShowLabel(f) = container[f]
  BY NothingToCheck DEF Unruled
<1>2. submitted' = {}
  BY <1>1 DEF Check, Unruled
<1>3. container' = [f \in Fields |-> container[f]]
  BY <1>1 DEF Check
<1> QED
  BY <1>2, <1>3 DEF Shape

(* Attaching keeps what is shown, and gives a form its one reset handler.  *)
LEMMA AttachKeeps ==
    ASSUME IInv, NEW rules, DOMAIN rules = DOMAIN options', DOMAIN options \subseteq DOMAIN options',
           DOMAIN options' \subseteq Fields, info' = TRUE, AttachValidation(rules),
           page' \in {"loading", "open", "posted"},
           UNCHANGED <<inputVars, value, resetting, checkVars, shownVars>>
    PROVE  IInv'
<1>1. handlers' = 1 /\ attached' = TRUE
  BY DEF AttachValidation, HandlersOff
<1>2. DOMAIN settings' \subseteq DOMAIN options'
  BY DEF AttachValidation, DeepCopy, IInv, TypeOK
<1>3. TypeOK'
  BY <1>1, <1>2 DEF IInv, TypeOK, inputVars, checkVars, shownVars
<1> QED
  BY <1>1, <1>3 DEF IInv, Shape, ErrorsCanBeReset, checkVars, shownVars

(* Parsing adds the inputs below the selector to the options.              *)
LEMMA ParsedDomain ==
    ASSUME NEW S
    PROVE  DOMAIN ParsedOptions(S) = DOMAIN options \cup S
BY DEF ParsedOptions

(* A parse keeps the invariant.                                            *)
LEMMA ParseKeeps ==
    ASSUME IInv, NEW S \in SUBSET Fields, Parse(S), page' \in {"loading", "open", "posted"}
    PROVE  IInv'
<1>1. CASE present = {}
  <2>1. UNCHANGED <<inputVars, value, info, options, attached, settings, handlers, resetting,
                    checkVars, shownVars>>
    BY <1>1 DEF Parse, ruleVars
  <2> QED
    BY <2>1 DEF IInv, TypeOK, Shape, Unruled, ErrorsCanBeReset, inputVars, checkVars, shownVars
<1>2. CASE present # {}
  <2>1. /\ info' = TRUE /\ options' = ParsedOptions(S) /\ AttachValidation(options')
        /\ UNCHANGED <<inputVars, value, resetting, checkVars, shownVars>>
    BY <1>2 DEF Parse
  <2>2. DOMAIN options' = DOMAIN options \cup S
    BY <2>1, ParsedDomain
  <2>3. DOMAIN options \subseteq Fields
    BY DEF IInv, TypeOK
  <2>4. DOMAIN options \subseteq DOMAIN options' /\ DOMAIN options' \subseteq Fields
    BY <2>2, <2>3
  <2> QED
    BY <2>1, <2>4, AttachKeeps
<1> QED
  BY <1>1, <1>2

(* form(): a validator that shows an error has rules, so the form has its  *)
(* reset handler.                                                          *)
LEMMA FormKeeps ==
    ASSUME IInv, attached, Form, page' \in {"loading", "open", "posted"},
           UNCHANGED <<inputVars, value, ruleVars, resetting>>
    PROVE  IInv'
<1>1. Checkable \in SUBSET Fields /\ Invalid \subseteq Fields /\ Invalid \subseteq Checkable
  BY DEF Checkable, Editable, Invalid, IInv, TypeOK
<1>2. TypeOK /\ Shape /\ Check(Checkable)
  BY DEF Form, IInv
<1>3. \/ summary' = summary
      \/ /\ Invalid # {}
         /\ summary' = [class |-> "errors", items |-> {Message(f) : f \in Invalid}]
  BY DEF Form, OnErrors
<1>4. Shape'
  BY <1>1, <1>2, <1>3, CheckKeeps DEF Shape
<1>5. TypeOK'
  <2>1. summary'.class \in {"valid", "errors"}
    BY <1>3 DEF IInv, TypeOK
  <2>2. invalid' \subseteq Fields
    BY <1>1 DEF Form
  <2>3. /\ submitted' \subseteq Fields
        /\ \A w \in watched' : w[2] \in Fields
        /\ \A f \in Fields : container'[f].class \in {"valid", "error"}
    BY <1>1, <1>2, CheckKeeps
  <2> QED
    BY <2>1, <2>2, <2>3 DEF IInv, TypeOK, inputVars, ruleVars
<1>6. CASE handlers = 0
  <2>1. Unruled
    BY <1>6 DEF IInv
  <2>2. submitted' = {} /\ container' = container
    BY <1>2, <2>1, CheckNothing
  <2>3. Invalid = {}
    BY <2>1, NothingToCheck DEF Invalid, Unruled
  <2>4. summary' = summary
    BY <1>3, <2>3
  <2> QED
    BY <1>4, <1>5, <2>2, <2>1, <2>4 DEF IInv, Unruled, ErrorsCanBeReset, ruleVars
<1>7. CASE handlers # 0
  BY <1>4, <1>5, <1>7 DEF IInv, Unruled, ErrorsCanBeReset, ruleVars
<1> QED
  BY <1>6, <1>7

(* The events of a field keep it.                                          *)
LEMMA ElementsKeep ==
    ASSUME IInv, attached, NEW S \in SUBSET Fields, CheckElements(S)
    PROVE  IInv'
<1>1. /\ TypeOK /\ Shape /\ Check(S \ Ignored) /\ S \ Ignored \in SUBSET Fields
      /\ UNCHANGED <<page, inputVars, value, info, options, attached, settings, handlers,
                     resetting, summary>>
  BY DEF CheckElements, IInv, pageVars, ruleVars
<1>2. Shape'
  BY <1>1, CheckKeeps DEF Shape
<1>3. TypeOK'
  <2>1. invalid' \subseteq Fields
    BY DEF CheckElements, IInv, TypeOK
  <2>2. /\ submitted' \subseteq Fields
        /\ \A w \in watched' : w[2] \in Fields
        /\ \A f \in Fields : container'[f].class \in {"valid", "error"}
    BY <1>1, CheckKeeps
  <2> QED
    BY <1>1, <2>1, <2>2 DEF TypeOK, inputVars
<1>4. CASE handlers = 0
  <2>1. Unruled
    BY <1>4 DEF IInv
  <2>2. submitted' = {} /\ container' = container
    BY <1>1, <2>1, CheckNothing
  <2> QED
    BY <1>1, <1>2, <1>3, <2>1, <2>2 DEF IInv, Unruled, ErrorsCanBeReset
<1>5. CASE handlers # 0
  BY <1>1, <1>2, <1>3, <1>5 DEF IInv, Unruled, ErrorsCanBeReset
<1> QED
  BY <1>4, <1>5

(* A reset keeps it.                                                       *)
LEMMA ResetKeeps ==
    ASSUME IInv, Reset
    PROVE  IInv'
<1>1. \/ ResetLabels /\ attached
      \/ UNCHANGED <<submitted, invalid, container, summary>>
  BY DEF Reset, OnReset, shownVars
<1>2. resetting' = FALSE
  BY DEF Reset, OnReset, FlagAfterThrow, IInv
<1>3. /\ UNCHANGED <<page, inputVars, info, options, attached, settings, handlers, watched>>
      /\ value' = [f \in Fields |-> IF Elements[f].type = "hidden" THEN value[f] ELSE ""]
  BY DEF Reset, ruleVars
<1>4. value' \in [Fields -> Values]
  BY <1>3, ElementsAssumption DEF IInv, TypeOK
<1>5. CASE ResetLabels /\ attached
  <2>1. \A f \in Fields : container'[f] = [class |-> "valid", text |-> container[f].text]
    BY <1>5 DEF ResetLabels, IInv, Shape
  <2>2. container' = [f \in Fields |->
                        [class |-> container'[f].class, text |-> container'[f].text]]
    BY <1>5, <2>1 DEF ResetLabels
  <2>3. summary' = [class |-> "valid", items |-> summary.items]
    BY <1>5 DEF ResetLabels, IInv, Shape
  <2>4. submitted' = {} /\ invalid' = {}
    BY <1>5 DEF ResetLabels
  <2>5. Shape'
    BY <2>2, <2>3 DEF Shape
  <2>6. (\A f \in Fields : container'[f].class = "valid") /\ summary'.class = "valid"
    <3>1. ASSUME NEW f \in Fields PROVE container'[f].class = "valid"
      <4>1. container'[f] = [class |-> "valid", text |-> container[f].text]
        BY <2>1
      <4> QED
        BY <4>1
    <3>2. summary'.class = "valid"
      BY <2>3
    <3> QED
      BY <3>1, <3>2
  <2>7. TypeOK'
    <3>1. resetting' \in BOOLEAN
      BY <1>2
    <3>2. submitted' \subseteq Fields /\ invalid' \subseteq Fields
      BY <2>4
    <3>3. \A f \in Fields : container'[f].class \in {"valid", "error"}
      BY <2>6
    <3>4. /\ page' \in {"loading", "open", "posted"}
          /\ present' \subseteq Fields /\ hidden' \subseteq Fields /\ disabled' \subseteq Fields
          /\ DOMAIN options' \subseteq Fields /\ DOMAIN settings' \subseteq DOMAIN options'
          /\ handlers' \in Nat
          /\ \A w \in watched' : w[2] \in Fields
      BY <1>3 DEF IInv, TypeOK, inputVars
    <3>5. info' \in BOOLEAN /\ attached' \in BOOLEAN
      BY <1>3 DEF IInv, TypeOK
    <3>6. summary'.class \in {"valid", "errors"}
      BY <2>6
    <3> QED
      BY <1>4, <3>1, <3>2, <3>3, <3>4, <3>5, <3>6 DEF TypeOK
  <2>8. ErrorsCanBeReset'
    BY <2>6 DEF ErrorsCanBeReset
  <2> QED
    BY <1>2, <1>3, <2>4, <2>5, <2>7, <2>8 DEF IInv, Unruled
<1>6. CASE UNCHANGED <<submitted, invalid, container, summary>>
  BY <1>2, <1>3, <1>4, <1>6 DEF IInv, TypeOK, Shape, Unruled, ErrorsCanBeReset, inputVars
<1> QED
  BY <1>1, <1>5, <1>6

(* Every reachable state satisfies the invariant.                          *)
LEMMA Invariance == Spec => []IInv
<1>1. Init => IInv
  <2> SUFFICES ASSUME Init PROVE IInv
    OBVIOUS
  <2>1. value \in [Fields -> Values]
    BY ElementsAssumption DEF Init
  <2>2. DOMAIN None = {}
    BY DEF None
  <2>3. hidden \subseteq Fields /\ disabled \subseteq Fields
    BY ElementsAssumption DEF Init
  <2> QED
    BY <2>1, <2>2, <2>3 DEF Init, IInv, TypeOK, Shape, Unruled, ErrorsCanBeReset
<1>2. IInv /\ [Next]_vars => IInv'
  <2> SUFFICES ASSUME IInv, [Next]_vars PROVE IInv'
    OBVIOUS
  <2>1. CASE Ready
    <3>1. present \in SUBSET Fields
      BY DEF IInv, TypeOK
    <3> QED
      BY <2>1, <3>1, ParseKeeps DEF Ready
  <2>2. ASSUME NEW S \in SUBSET Fields, ParseAgain(S) PROVE IInv'
    <3>1. page' \in {"loading", "open", "posted"}
      BY <2>2 DEF ParseAgain
    <3> QED
      BY <2>2, <3>1, ParseKeeps DEF ParseAgain
  <2>3. ASSUME NEW f \in Fields, NEW skipAttach \in BOOLEAN, ParseElement(f, skipAttach)
        PROVE  IInv'
    <3>1. /\ info' = TRUE /\ options' = ParsedOptions({f})
          /\ UNCHANGED <<page, inputVars, value, resetting, checkVars, shownVars>>
      BY <2>3 DEF ParseElement, pageVars
    <3>2. DOMAIN options' = DOMAIN options \cup {f}
      BY <3>1, ParsedDomain
    <3>3. DOMAIN options \subseteq Fields
      BY DEF IInv, TypeOK
    <3>4. DOMAIN options \subseteq DOMAIN options' /\ DOMAIN options' \subseteq Fields
      BY <3>2, <3>3
    <3>5. page' \in {"loading", "open", "posted"}
      BY <3>1 DEF IInv, TypeOK
    <3>6. CASE skipAttach
      <4>1. UNCHANGED <<handlers, attached, settings>>
        BY <2>3, <3>6 DEF ParseElement
      <4>2. TypeOK'
        BY <3>1, <3>4, <4>1 DEF IInv, TypeOK, inputVars, checkVars, shownVars
      <4> QED
        BY <3>1, <4>1, <4>2 DEF IInv, Shape, Unruled, ErrorsCanBeReset, checkVars, shownVars
    <3>7. CASE ~skipAttach
      <4>1. AttachValidation(options')
        BY <2>3, <3>7 DEF ParseElement
      <4> QED
        BY <3>1, <3>4, <3>5, <4>1, AttachKeeps
    <3> QED
      BY <3>6, <3>7
  <2>4. ASSUME NEW f \in Fields, NEW v \in Values, SetValue(f, v) PROVE IInv'
    BY <2>4 DEF SetValue, IInv, TypeOK, Shape, Unruled, ErrorsCanBeReset,
                inputVars, ruleVars, checkVars, shownVars
  <2>5. ASSUME NEW f \in Fields, ChangeField(f) PROVE IInv'
    <3>1. present' \subseteq Fields /\ hidden' \subseteq Fields /\ disabled' \subseteq Fields
      BY <2>5, ElementsAssumption DEF ChangeField, Toggled, IInv, TypeOK
    <3>2. UNCHANGED <<page, value, ruleVars, resetting, checkVars, shownVars>>
      BY <2>5 DEF ChangeField
    <3> QED
      BY <3>1, <3>2 DEF IInv, TypeOK, Shape, Unruled, ErrorsCanBeReset,
                        ruleVars, checkVars, shownVars
  <2>6. ASSUME NEW f \in Fields, KeyUp(f) PROVE IInv'
    BY <2>6, ElementsKeep DEF KeyUp
  <2>7. ASSUME NEW t \in Fields, FocusOut(t) PROVE IInv'
    <3>1. LeftBy(t) \in SUBSET Fields
      BY DEF LeftBy, IInv, TypeOK
    <3> QED
      BY <2>7, <3>1, ElementsKeep DEF FocusOut
  <2>8. CASE Submit
    <3>1. page' \in {"loading", "open", "posted"}
      BY <2>8 DEF Submit
    <3>2. CASE attached
      BY <2>8, <3>1, <3>2, FormKeeps DEF Submit
    <3>3. CASE ~attached
      BY <2>8, <3>1, <3>3 DEF Submit, IInv, TypeOK, Shape, Unruled, ErrorsCanBeReset,
                              inputVars, ruleVars, checkVars, shownVars
    <3> QED
      BY <3>2, <3>3
  <2>9. CASE Validate
    <3>1. page' \in {"loading", "open", "posted"}
      BY <2>9 DEF Validate, pageVars, IInv, TypeOK
    <3>2. CASE attached
      <4>1. Form /\ UNCHANGED <<inputVars, value, ruleVars, resetting>>
        BY <2>9, <3>2 DEF Validate, pageVars, ruleVars, IInv, TypeOK
      <4> QED
        BY <3>1, <3>2, <4>1, FormKeeps
    <3>3. CASE ~attached
      BY <2>9, <3>3 DEF Validate, IInv, TypeOK, Shape, Unruled, ErrorsCanBeReset,
                        pageVars, inputVars, checkVars, shownVars
    <3> QED
      BY <3>2, <3>3
  <2>10. CASE Reset
    BY <2>10, ResetKeeps
  <2>11. CASE Destroy
    <3>1. DOMAIN None = {}
      BY DEF None
    <3> QED
      BY <2>11, <3>1 DEF Destroy, IInv, TypeOK, Shape, Unruled, ErrorsCanBeReset,
                         pageVars, inputVars, shownVars
  <2>12. CASE UNCHANGED vars
    BY <2>12 DEF vars, IInv, TypeOK, Shape, Unruled, ErrorsCanBeReset,
                 pageVars, inputVars, ruleVars, checkVars, shownVars
  <2> QED
    BY <2>1, <2>2, <2>3, <2>4, <2>5, <2>6, <2>7, <2>8, <2>9, <2>10, <2>11, <2>12 DEF Next
<1> QED
  BY <1>1, <1>2, PTL DEF Spec

(* Every variable has its type: the validator has rules of parsed inputs   *)
(* only, and the flag and the classes take no other values.                *)
THEOREM TypeCorrect == Spec => []TypeOK
BY Invariance, PTL DEF IInv

(* An error is only ever shown on a form whose reset is handled, by one    *)
(* handler.                                                                *)
THEOREM ResetIsBound == Spec => []ErrorsCanBeReset
BY Invariance, PTL DEF IInv

(* No step of a live validator leaves an error that no key would revise.   *)
THEOREM ErrorsRevisable == Spec => ErrorsStayRevisable
<1>1. ASSUME IInv, [Next]_vars, attached, attached', NEW f \in Fields, Orphaned(f)'
      PROVE  Orphaned(f)
  <2>1. CASE UNCHANGED <<submitted, container>>
    BY <1>1, <2>1 DEF Orphaned
  <2>2. ASSUME NEW S \in SUBSET Fields, Check(S) PROVE Orphaned(f)
    BY <1>1, <2>2, CheckKeeps DEF IInv
  <2>3. CASE Form
    <3>1. Checkable \in SUBSET Fields
      BY <1>1 DEF Checkable, Editable, IInv, TypeOK
    <3> QED
      BY <2>2, <2>3, <3>1 DEF Form
  <2>4. CASE Ready \/ \E S \in SUBSET Fields : ParseAgain(S)
    BY <2>1, <2>4 DEF Ready, ParseAgain, Parse, checkVars, shownVars
  <2>5. CASE \E g \in Fields, skipAttach \in BOOLEAN : ParseElement(g, skipAttach)
    BY <2>1, <2>5 DEF ParseElement, checkVars, shownVars
  <2>6. CASE \E g \in Fields, v \in Values : SetValue(g, v)
    BY <2>1, <2>6 DEF SetValue, checkVars, shownVars
  <2>7. CASE \E g \in Fields : ChangeField(g)
    BY <2>1, <2>7 DEF ChangeField, checkVars, shownVars
  <2>8. ASSUME NEW g \in Fields, KeyUp(g) PROVE Orphaned(f)
    BY <2>2, <2>8 DEF KeyUp, CheckElements
  <2>9. ASSUME NEW t \in Fields, FocusOut(t) PROVE Orphaned(f)
    <3>1. LeftBy(t) \in SUBSET Fields
      BY <1>1 DEF LeftBy, IInv, TypeOK
    <3> QED
      BY <2>2, <2>9, <3>1 DEF FocusOut, CheckElements
  <2>10. CASE Submit
    BY <1>1, <2>3, <2>10 DEF Submit
  <2>11. CASE Validate
    BY <2>1, <2>3, <2>11 DEF Validate, checkVars, shownVars
  <2>12. CASE Reset
    <3>1. CASE ResetLabels
      <4>1. container'[f] = [container[f] EXCEPT !.class = "valid"]
        BY <3>1 DEF ResetLabels
      <4>2. container[f] = [class |-> container[f].class, text |-> container[f].text]
        BY <1>1 DEF IInv, Shape
      <4>3. container'[f].class = "valid"
        BY <4>1, <4>2
      <4> QED
        BY <1>1, <4>3 DEF Orphaned
    <3> QED
      BY <2>1, <2>12, <3>1 DEF Reset, OnReset, shownVars
  <2>13. CASE Destroy
    BY <1>1, <2>13 DEF Destroy
  <2>14. CASE UNCHANGED vars
    BY <2>1, <2>14 DEF vars, checkVars, shownVars
  <2> QED
    BY <1>1, <2>4, <2>5, <2>6, <2>7, <2>8, <2>9, <2>10, <2>11, <2>12, <2>13, <2>14 DEF Next
<1>2. IInv /\ [Next]_vars =>
        [attached /\ attached' => \A f \in Fields : Orphaned(f)' => Orphaned(f)]_vars
  BY <1>1
<1> QED
  BY <1>2, Invariance, PTL DEF Spec, ErrorsStayRevisable

(* A reset clears what is shown, whatever resets have thrown before.       *)
THEOREM ResetWorks == Spec => ResetClears
<1>1. ASSUME IInv, Reset, attached
      PROVE  /\ \A f \in Fields : container'[f].class = "valid"
             /\ summary'.class = "valid"
             /\ submitted' = {}
  <2>1. resetting = FALSE
    BY <1>1 DEF IInv
  <2>2. CASE handlers = 0
    <3>1. UNCHANGED <<submitted, container, summary>>
      BY <1>1, <2>2 DEF Reset, OnReset, shownVars
    <3>2. /\ \A f \in Fields : container[f].class \in {"valid", "error"}
          /\ summary.class \in {"valid", "errors"}
          /\ submitted = {}
      BY <1>1, <2>2 DEF IInv, TypeOK, Unruled
    <3>3. ~(\E f \in Fields : container[f].class = "error") /\ summary.class # "errors"
      BY <1>1, <2>2 DEF IInv, ErrorsCanBeReset
    <3> QED
      BY <3>1, <3>2, <3>3
  <2>3. CASE handlers # 0
    <3>1. ResetLabels
      BY <1>1, <2>1, <2>3 DEF Reset, OnReset
    <3>2. \A f \in Fields : container'[f] = [class |-> "valid", text |-> container[f].text]
      BY <1>1, <3>1 DEF ResetLabels, IInv, Shape
    <3>3. summary' = [class |-> "valid", items |-> summary.items]
      BY <1>1, <3>1 DEF ResetLabels, IInv, Shape
    <3> QED
      BY <3>1, <3>2, <3>3 DEF ResetLabels
  <2> QED
    BY <2>2, <2>3
<1>2. IInv /\ [Next]_vars =>
        [attached /\ Reset =>
          /\ \A f \in Fields : container'[f].class = "valid"
          /\ summary'.class = "valid"
          /\ submitted' = {}]_vars
  BY <1>1
<1> QED
  BY <1>2, Invariance, PTL DEF Spec, ResetClears

-----------------------------------------------------------------------------
(* The rules of an input, as parsed and as copied.  Their names are        *)
(* distinct, the dummy is among them, and required if it was asked for:    *)
(* the copy leaves neither of these two out.                               *)
WellRuled(f, rules) ==
    /\ DOMAIN rules \subseteq Nat \ {0}
    /\ \A i, j \in DOMAIN rules : rules[i].name = rules[j].name => i = j
    /\ \E i \in DOMAIN rules : rules[i] = Dummy
    /\ Requires(Elements[f]) =>
         \E i \in DOMAIN rules : rules[i].name = "required" /\ rules[i].param = True

RInv ==
    /\ \A f \in DOMAIN options : WellRuled(f, options[f])
    /\ \A f \in DOMAIN settings : WellRuled(f, settings[f])

(* What a parse makes of any input, among any inputs.                      *)
LEMMA ParsedWell ==
    ASSUME NEW f \in Fields, NEW P \in SUBSET Fields
    PROVE  WellRuled(f, RulesAmong[P][f])
<1> DEFINE rules == AdaptedRules(Elements[f], P)
<1>1. RulesAmong[P][f] = rules
  BY DEF RulesAmong
<1>2. /\ RuleList(rules)
      /\ rules[Len(rules)] = Dummy
      /\ RequiredIsTrue(rules)
      /\ "required" \in NamesOf(rules) <=> Requires(Elements[f])
  BY RulesAreOfDistinctNames
<1>3. PICK T : AdapterRules(Elements[f], P) \in Seq(T)
  BY LoopAdapts DEF Adapted, RuleList
<1>4. rules = Append(AdapterRules(Elements[f], P), Dummy)
  BY DEF AdaptedRules
<1> HIDE DEF rules
<1>5. Len(rules) \in DOMAIN rules /\ DOMAIN rules \subseteq Nat \ {0}
  <2>1. AdapterRules(Elements[f], P) \in Seq(T \cup {Dummy})
    BY <1>3
  <2>2. /\ DOMAIN rules = 1 .. Len(rules)
        /\ Len(rules) = Len(AdapterRules(Elements[f], P)) + 1
    BY <1>4, <2>1
  <2> QED
    BY <2>1, <2>2
<1>6. Requires(Elements[f]) =>
        \E i \in DOMAIN rules : rules[i].name = "required" /\ rules[i].param = True
  BY <1>2 DEF NamesOf, RequiredIsTrue
<1> QED
  BY <1>1, <1>2, <1>5, <1>6 DEF WellRuled, RuleList

(* The copy: the dummy is defined, and so it is never left out.            *)
LEMMA CopiedWell ==
    ASSUME NEW rules, NEW f \in DOMAIN rules, WellRuled(f, rules[f])
    PROVE  WellRuled(f, DeepCopy(rules)[f])
<1> DEFINE kept == {i \in DOMAIN rules[f] : rules[f][i].param # Undefined}
<1>1. DeepCopy(rules)[f] = [i \in kept |-> rules[f][i]]
  BY DEF DeepCopy, RestrictValues, Restrict
<1>2. Dummy.param # Undefined /\ True # Undefined
  BY DEF Dummy, True, Undefined
<1> QED
  BY <1>1, <1>2 DEF WellRuled

(* Every reachable state has such rules.                                   *)
LEMMA RuleInvariance == Spec => []RInv
<1>1. Init => RInv
  <2>1. DOMAIN None = {}
    BY DEF None
  <2> QED
    BY <2>1 DEF Init, RInv
<1>2. ASSUME IInv, RInv, NEW S \in SUBSET Fields, options' = ParsedOptions(S)
      PROVE  \A f \in DOMAIN options' : WellRuled(f, options'[f])
  <2>1. present \in SUBSET Fields
    BY <1>2 DEF IInv, TypeOK
  <2>2. ASSUME NEW f \in DOMAIN options' PROVE WellRuled(f, options'[f])
    <3>1. CASE f \in S
      <4>1. options'[f] = RulesAmong[present][f]
        BY <1>2, <2>2, <3>1 DEF ParsedOptions
      <4> QED
        BY <2>1, <3>1, <4>1, ParsedWell
    <3>2. CASE f \notin S
      BY <1>2, <2>2, <3>2 DEF ParsedOptions, RInv
    <3> QED
      BY <3>1, <3>2
  <2> QED
    BY <2>2
<1>3. ASSUME RInv, AttachValidation(options'), \A f \in DOMAIN options' : WellRuled(f, options'[f])
      PROVE  RInv'
  <2>1. CASE attached
    BY <1>3, <2>1 DEF AttachValidation, RInv
  <2>2. CASE ~attached
    <3>1. settings' = DeepCopy(options')
      BY <1>3, <2>2 DEF AttachValidation
    <3>2. DOMAIN settings' = DOMAIN options'
      BY <3>1 DEF DeepCopy
    <3>3. \A f \in DOMAIN settings' : WellRuled(f, settings'[f])
      BY <1>3, <3>1, <3>2, CopiedWell
    <3> QED
      BY <1>3, <3>3 DEF RInv
  <2> QED
    BY <2>1, <2>2
<1>4. ASSUME IInv, RInv, NEW S \in SUBSET Fields, Parse(S) PROVE RInv'
  BY <1>2, <1>3, <1>4 DEF Parse, ruleVars, RInv
<1>5. IInv /\ RInv /\ [Next]_vars => RInv'
  <2> SUFFICES ASSUME IInv, RInv, [Next]_vars PROVE RInv'
    OBVIOUS
  <2>1. CASE UNCHANGED <<options, settings>>
    BY <2>1 DEF RInv
  <2>2. CASE Ready
    <3>1. present \in SUBSET Fields
      BY DEF IInv, TypeOK
    <3> QED
      BY <1>4, <2>2, <3>1 DEF Ready
  <2>3. ASSUME NEW S \in SUBSET Fields, ParseAgain(S) PROVE RInv'
    BY <1>4, <2>3 DEF ParseAgain
  <2>4. ASSUME NEW f \in Fields, NEW skipAttach \in BOOLEAN, ParseElement(f, skipAttach)
        PROVE  RInv'
    <3>1. \A g \in DOMAIN options' : WellRuled(g, options'[g])
      BY <1>2, <2>4 DEF ParseElement
    <3>2. CASE skipAttach
      BY <2>4, <3>1, <3>2 DEF ParseElement, RInv
    <3>3. CASE ~skipAttach
      BY <1>3, <2>4, <3>1, <3>3 DEF ParseElement
    <3> QED
      BY <3>2, <3>3
  <2>5. CASE \E f \in Fields, v \in Values : SetValue(f, v)
    BY <2>1, <2>5 DEF SetValue, ruleVars
  <2>6. CASE \E f \in Fields : ChangeField(f) \/ KeyUp(f) \/ FocusOut(f)
    BY <2>1, <2>6 DEF ChangeField, KeyUp, FocusOut, CheckElements, ruleVars
  <2>7. CASE Submit \/ Validate \/ Reset
    BY <2>1, <2>7 DEF Submit, Validate, Reset, ruleVars
  <2>8. CASE Destroy
    <3>1. DOMAIN None = {}
      BY DEF None
    <3> QED
      BY <2>8, <3>1 DEF Destroy, RInv
  <2>9. CASE UNCHANGED vars
    BY <2>1, <2>9 DEF vars, ruleVars
  <2> QED
    BY <2>2, <2>3, <2>4, <2>5, <2>6, <2>7, <2>8, <2>9 DEF Next
<1> QED
  BY <1>1, <1>5, Invariance, PTL DEF Spec

-----------------------------------------------------------------------------
(* Verdicts.                                                               *)

(* Of the broken rules of a field one comes first: required has a turn of  *)
(* its own, and no two rules are both named so.                            *)
LEMMA FirstIsFirst ==
    ASSUME NEW f, WellRuled(f, RulesOf(f)), Broken(f)
    PROVE  /\ FirstBroken(f) \in Fails(f)
           /\ \A j \in Fails(f) \ {FirstBroken(f)} : Turn(f, FirstBroken(f)) < Turn(f, j)
<1>1. Fails(f) # {} /\ Fails(f) \subseteq DOMAIN RulesOf(f) /\ Fails(f) \in SUBSET Nat
  BY DEF Broken, Fails, WellRuled
<1>2. \A i \in Fails(f) : i \in Nat /\ i # 0 /\ Turn(f, i) \in Nat
  BY <1>1 DEF Turn, WellRuled
<1>3. ASSUME NEW i \in Fails(f), NEW j \in Fails(f), Turn(f, i) = Turn(f, j)
      PROVE  i = j
  <2>1. i \in DOMAIN RulesOf(f) /\ j \in DOMAIN RulesOf(f) /\ i # 0 /\ j # 0
    BY <1>1, <1>2
  <2>2. RulesOf(f)[i].name = RulesOf(f)[j].name => i = j
    BY <2>1 DEF WellRuled
  <2> QED
    BY <1>3, <2>1, <2>2 DEF Turn
<1>4. \E i \in Fails(f) : \A j \in Fails(f) : Turn(f, i) <= Turn(f, j)
  <2> DEFINE turns == {Turn(f, i) : i \in Fails(f)}
  <2>1. turns \in SUBSET Nat /\ turns # {}
    BY <1>1, <1>2
  <2>2. PICK m \in turns : \A n \in turns : m <= n
    <3> HIDE DEF turns
    <3> QED
      BY <2>1, LeastNumber
  <2> QED
    BY <2>2
<1>5. /\ FirstBroken(f) \in Fails(f)
      /\ \A j \in Fails(f) : Turn(f, FirstBroken(f)) <= Turn(f, j)
  BY <1>4 DEF FirstBroken
<1> QED
  BY <1>2, <1>3, <1>5

(* The dummy keeps a field from being skipped.                             *)
LEMMA NeverSkipped ==
    ASSUME NEW f, WellRuled(f, RulesOf(f))
    PROVE  RulesOf(f) # None /\ ~Skipped(f)
<1>1. PICK d \in DOMAIN RulesOf(f) : RulesOf(f)[d] = Dummy
  BY DEF WellRuled
<1>2. Outcome(f, Dummy) = "passes"
  BY DEF Outcome, Dummy
<1>3. ~Skipped(f)
  BY <1>1, <1>2 DEF Skipped
<1>4. DOMAIN None = {}
  BY DEF None
<1> QED
  BY <1>1, <1>3, <1>4

(* The label a check shows tells the verdict.                              *)
LEMMA LabelTells ==
    ASSUME NEW f, WellRuled(f, RulesOf(f))
    PROVE  Tells(f, ShowLabel(f))
<1>1. CASE Broken(f)
  <2>1. ShowLabel(f) = OnError(container[f], f, Message(f))
    BY <1>1 DEF ShowLabel
  <2>2. /\ ShowLabel(f).class = "error"
        /\ f \in Replaces => ShowLabel(f).text = Message(f)
    BY <2>1 DEF OnError
  <2> QED
    BY <1>1, <2>2, FirstIsFirst DEF Tells, Message
<1>2. CASE ~Broken(f)
  <2> DEFINE shown == OnSuccess(OnError(container[f], f, ""), f)
  <2>1. ShowLabel(f) = shown
    BY <1>2, NeverSkipped DEF ShowLabel
  <2>2. shown.class = "valid"
    BY DEF OnSuccess
  <2>3. f \in Replaces => shown.text = ""
    BY DEF OnSuccess
  <2> HIDE DEF shown
  <2> QED
    BY <1>2, <2>1, <2>2, <2>3 DEF Tells, Broken
<1> QED
  BY <1>1, <1>2

(* A form that is submitted, or checked for Ajax, is checked at all its    *)
(* inputs that have rules and are displayed and enabled.                   *)
LEMMA FormChecks ==
    ASSUME TypeOK, RInv, Form, NEW f \in Editable, f \in DOMAIN settings
    PROVE  container'[f] = ShowLabel(f)
<1>1. WellRuled(f, RulesOf(f))
  BY DEF RInv, RulesOf
<1>2. f \in Checkable /\ f \in Fields
  BY <1>1, NeverSkipped DEF Checkable, Editable, TypeOK
<1> QED
  BY <1>2 DEF Form, Check

(* After a check the container of a field tells the verdict, with the      *)
(* message of the one rule that is tried first of those that fail (check,  *)
(* showErrors, onError and onSuccess).                                     *)
THEOREM ErrorsTellTheVerdict == Spec => ErrorsFollowChecks
<1>1. ASSUME IInv, RInv, NEW f \in Fields, Checked(f), f \in DOMAIN settings
      PROVE  Tells(f, container'[f])
  <2>1. WellRuled(f, RulesOf(f))
    BY <1>1 DEF RInv, RulesOf
  <2>2. container'[f] = ShowLabel(f)
    <3>1. CASE KeyUp(f)
      BY <1>1, <3>1 DEF KeyUp, Editable, CheckElements, Check
    <3>2. ASSUME NEW t \in Fields, FocusOut(t), f \in LeftBy(t) \ Ignored
          PROVE  container'[f] = ShowLabel(f)
      BY <1>1, <3>2 DEF FocusOut, CheckElements, Check
    <3>3. CASE attached /\ f \in Editable /\ (Submit \/ Validate)
      <4>1. Form
        BY <3>3 DEF Submit, Validate
      <4> QED
        BY <1>1, <3>3, <4>1, FormChecks DEF IInv
    <3> QED
      BY <1>1, <3>1, <3>2, <3>3 DEF Checked
  <2> QED
    BY <2>1, <2>2, LabelTells
<1>2. IInv /\ RInv /\ [Next]_vars =>
        [\A f \in Fields : f \in DOMAIN settings /\ Checked(f) => Tells(f, container'[f])]_vars
  BY <1>1
<1> QED
  BY <1>2, Invariance, RuleInvariance, PTL DEF Spec, ErrorsFollowChecks

(* A submission that is refused says so, at the fields and in the summary, *)
(* and only a broken rule of an input that is displayed and enabled        *)
(* refuses it (form, elements, onErrors).                                  *)
THEOREM RefusalsAreSummarised == Spec => RefusalIsSummarised
<1> DEFINE broken == {f \in Editable : Broken(f)}
<1>1. ASSUME IInv, Submit, attached
      PROVE  /\ page' = "open" <=> broken # {}
             /\ broken # {} =>
                  summary' = [class |-> "errors", items |-> {Message(f) : f \in broken}]
             /\ \A f \in broken : container'[f].class = "error"
  <2>1. Form /\ page = "open" /\ page' = IF Invalid = {} THEN "posted" ELSE page
    BY <1>1 DEF Submit
  <2>2. ASSUME NEW f, RulesOf(f) = None PROVE ~Broken(f)
    <3>1. DOMAIN None = {}
      BY DEF None
    <3> QED
      BY <2>2, <3>1 DEF Broken, Fails
  <2>3. Invalid = broken
    BY <2>2 DEF Invalid, Checkable
  <2>4. \A f \in broken : container'[f].class = "error"
    <3>1. ASSUME NEW f \in broken PROVE container'[f].class = "error"
      <4>1. f \in Fields /\ f \in Checkable /\ Broken(f)
        BY <1>1, <2>2 DEF Checkable, Editable, IInv, TypeOK
      <4>2. container'[f] = OnError(container[f], f, Message(f))
        BY <2>1, <4>1 DEF Form, Check, ShowLabel
      <4> QED
        BY <4>2 DEF OnError
    <3> QED
      BY <3>1
  <2>5. broken # {} =>
          summary' = [class |-> "errors", items |-> {Message(f) : f \in broken}]
    BY <2>1, <2>3 DEF Form, OnErrors
  <2> QED
    BY <2>1, <2>3, <2>4, <2>5
<1>2. IInv /\ [Next]_vars =>
        [attached /\ Submit =>
           /\ page' = "open" <=> broken # {}
           /\ broken # {} =>
                summary' = [class |-> "errors", items |-> {Message(f) : f \in broken}]
           /\ \A f \in broken : container'[f].class = "error"]_vars
  BY <1>1
<1> QED
  BY <1>2, Invariance, PTL DEF Spec, RefusalIsSummarised

(* An input with data-val-required that was parsed before the validator    *)
(* was made, and is displayed and enabled, is not posted empty: the        *)
(* adapters have set its rule, the copy has kept it, form passes it to     *)
(* check, and check stops at it (parseElement, setValidationValues,        *)
(* validate, form, elements, check).                                       *)
THEOREM RequiredIsEnforced == Spec => RequiredIsFilled
<1>1. ASSUME IInv, RInv, Submit, attached, page' = "posted",
             NEW f \in Editable \cap DOMAIN settings, Requires(Elements[f])
      PROVE  value[f] # ""
  <2>1. WellRuled(f, RulesOf(f)) /\ RulesOf(f) = settings[f]
    BY <1>1 DEF RInv, RulesOf
  <2>2. PICK i \in DOMAIN RulesOf(f) : RulesOf(f)[i].name = "required"
    BY <1>1, <2>1 DEF WellRuled
  <2>3. Invalid = {} /\ f \in Checkable
    <3>1. Invalid = {}
      BY <1>1 DEF Submit
    <3>2. RulesOf(f) # None
      BY <2>1, NeverSkipped
    <3> QED
      BY <1>1, <3>1, <3>2 DEF Checkable
  <2>4. Outcome(f, RulesOf(f)[i]) # "fails"
    BY <2>2, <2>3 DEF Invalid, Broken, Fails
  <2>5. Outcome(f, RulesOf(f)[i]) = IF value[f] = "" THEN "fails" ELSE "passes"
    BY <2>2 DEF Outcome
  <2> QED
    BY <2>4, <2>5
<1>2. IInv /\ RInv /\ [Next]_vars =>
        [page' = "posted" /\ attached /\ Submit =>
           \A f \in Editable \cap DOMAIN settings : Requires(Elements[f]) => value[f] # ""]_vars
  BY <1>1
<1> QED
  BY <1>2, Invariance, RuleInvariance, PTL DEF Spec, RequiredIsFilled
=============================================================================
