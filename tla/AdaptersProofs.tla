--------------------------- MODULE AdaptersProofs ---------------------------
(***************************************************************************)
(* What the adapters make of an input, for any attributes: the loop of     *)
(* parseElement over the registered adapters, proved by induction over it. *)
(***************************************************************************)
EXTENDS Adapters, WellFoundedInduction, TLAPS

(* The names the registered adapters set.                                  *)
RuleNames ==
    {"accept", "regex", "creditcard", "date", "digits", "email", "number", "url",
     "minlength", "maxlength", "rangelength", "min", "max", "range", "undefined",
     "equalTo", "required", "remote", "nonalphamin", "extension"}

NamesOf(rules) == {rules[i].name : i \in DOMAIN rules}

(* The parameter of the rule required, if there is one, is true.           *)
RequiredIsTrue(rules) ==
    \A i \in DOMAIN rules : rules[i].name = "required" => rules[i].param = True

(* Rules in order of insertion, one of each name.                          *)
RuleList(rules) ==
    /\ \E S : rules \in Seq(S)
    /\ \A i, j \in DOMAIN rules : rules[i].name = rules[j].name => i = j

-----------------------------------------------------------------------------
(* Induction over numbers, for a set.                                      *)

(* A set of numbers that is not empty has a least one.                     *)
LEMMA LeastNumber ==
    ASSUME NEW S \in SUBSET Nat, S # {}
    PROVE  \E m \in S : \A n \in S : m <= n
<1>1. PICK m \in S : \A n \in S : ~ (<<n, m>> \in OpToRel(<, Nat))
  BY NatLessThanWellFounded, WFMin
<1>2. \A n \in S : ~(n < m)
  BY <1>1 DEF OpToRel
<1> QED
  BY <1>2

(* A set of numbers with 0 and every successor is all of them.             *)
LEMMA Induction ==
    ASSUME NEW S \in SUBSET Nat, 0 \in S, \A n \in S : n + 1 \in S
    PROVE  S = Nat
<1> SUFFICES ASSUME Nat \ S # {} PROVE FALSE
  OBVIOUS
<1>1. PICK m \in Nat \ S : \A n \in Nat \ S : m <= n
  BY LeastNumber
<1>2. m - 1 \in Nat /\ m - 1 \notin Nat \ S
  BY <1>1
<1> QED
  BY <1>1, <1>2

(* Max of a set of numbers below a bound is in it, and above all others.   *)
LEMMA GreatestNumber ==
    ASSUME NEW n \in Nat, NEW S \in SUBSET (1 .. n), S # {}
    PROVE  Max(S) \in S /\ \A i \in S : i <= Max(S)
<1> DEFINE Bounds == {m \in Nat : \A i \in S : i <= m}
<1>1. n \in Bounds
  OBVIOUS
<1>2. PICK m \in Bounds : \A b \in Bounds : m <= b
  BY <1>1, LeastNumber
<1>3. m \in S
  <2> SUFFICES ASSUME m \notin S PROVE FALSE
    OBVIOUS
  <2>1. PICK i \in S : TRUE
    OBVIOUS
  <2>2. m - 1 \in Nat
    BY <2>1
  <2>3. m - 1 \in Bounds
    BY <2>2
  <2> QED
    BY <1>2, <2>3
<1>4. \E x \in S : \A y \in S : x >= y
  BY <1>3
<1> QED
  BY <1>4 DEF Max

-----------------------------------------------------------------------------
(* One turn of the loop over the adapters (each in parseElement).          *)
Turned(element, inputs, rules, i) ==
    LET adapter == Registered[i]
        message == Attr(element, <<adapter.name>>)
        params == [p \in adapter.params |-> Attr(element, <<adapter.name, p>>)]
    IN  IF message = Undefined THEN rules
        ELSE Adapt(adapter, rules, element, message[1], params, inputs)

(* The library registers 17 adapters.                                     *)
LEMMA RegisteredDomain == DOMAIN Registered = 1 .. 17
BY DEF Registered

(* The fold visits the indices below each of its subsets, largest first;   *)
(* such a function exists for every length of the loop.                    *)
Fold(element, inputs, n, g) ==
    g = [s \in SUBSET (1 .. n) |->
            IF s = {} THEN <<>> ELSE Turned(element, inputs, g[s \ {Max(s)}], Max(s))]

(* The loop of parseElement is the fold over the 17 adapters.              *)
LEMMA LoopIsFold ==
    ASSUME NEW element, NEW inputs
    PROVE  AdapterRules(element, inputs) =
             (CHOOSE g : Fold(element, inputs, 17, g))[1 .. 17]
BY RegisteredDomain DEF AdapterRules, FoldLeft, MapThenFoldSet, Turned, Fold

(* Without its greatest index, a set of indices is one of a shorter loop.  *)
LEMMA BelowGreatest ==
    ASSUME NEW n \in Nat, NEW s \in SUBSET (1 .. n + 1), s # {}
    PROVE  s \ {Max(s)} \in SUBSET (1 .. n)
<1>1. Max(s) \in s /\ \A i \in s : i <= Max(s)
  BY GreatestNumber, n + 1 \in Nat
<1>2. ASSUME NEW i \in s \ {Max(s)} PROVE i \in 1 .. n
  <2>1. i \in 1 .. n + 1 /\ Max(s) \in 1 .. n + 1 /\ i <= Max(s) /\ i # Max(s)
    BY <1>1
  <2> QED
    BY <2>1
<1> QED
  BY <1>2

(* The fold is defined for every length of the loop, by induction.         *)
LEMMA FoldExists ==
    ASSUME NEW element, NEW inputs, NEW n \in Nat
    PROVE  \E g : Fold(element, inputs, n, g)
<1> DEFINE S == {k \in Nat : \E g : Fold(element, inputs, k, g)}
           Step(g, s) == IF s = {} THEN <<>>
                         ELSE Turned(element, inputs, g[s \ {Max(s)}], Max(s))
<1>1. 0 \in S
  <2>1. \A s \in SUBSET (1 .. 0) : s = {}
    OBVIOUS
  <2>2. Fold(element, inputs, 0, [s \in SUBSET (1 .. 0) |-> <<>>])
    BY <2>1 DEF Fold
  <2> QED
    BY <2>2
<1>2. ASSUME NEW k \in S PROVE k + 1 \in S
  <2>1. PICK g : Fold(element, inputs, k, g)
    OBVIOUS
  <2> DEFINE h == [s \in SUBSET (1 .. k + 1) |-> Step(g, s)]
  <2>2. ASSUME NEW s \in SUBSET (1 .. k) PROVE h[s] = g[s]
    <3>1. s \in SUBSET (1 .. k + 1)
      <4>1. (1 .. k) \subseteq (1 .. k + 1)
        OBVIOUS
      <4> QED
        BY <4>1
    <3>2. h[s] = Step(g, s)
      BY <3>1
    <3>3. g[s] = Step(g, s)
      BY <2>1 DEF Fold
    <3> HIDE DEF h, Step
    <3> QED
      BY <3>2, <3>3
  <2>3. ASSUME NEW s \in SUBSET (1 .. k + 1) PROVE h[s] = Step(h, s)
    <3>1. CASE s = {}
      BY <3>1
    <3>2. CASE s # {}
      <4>1. h[s \ {Max(s)}] = g[s \ {Max(s)}]
        BY <2>2, <3>2, BelowGreatest
      <4>2. h[s] = Step(g, s)
        OBVIOUS
      <4> HIDE DEF h
      <4> QED
        BY <3>2, <4>1, <4>2
    <3> QED
      BY <3>1, <3>2
  <2>4. h = [s \in SUBSET (1 .. k + 1) |-> Step(h, s)]
    <3>1. h = [s \in SUBSET (1 .. k + 1) |-> h[s]]
      OBVIOUS
    <3> HIDE DEF h, Step
    <3> QED
      BY <2>3, <3>1
  <2>5. Fold(element, inputs, k + 1, h)
    <3> HIDE DEF h
    <3> QED
      BY <2>4 DEF Fold
  <2> QED
    BY <2>5
<1>3. S = Nat
  <2> HIDE DEF S
  <2>1. S \subseteq Nat
    BY DEF S
  <2> QED
    BY <1>1, <1>2, <2>1, Induction
<1> QED
  BY <1>3

(* The loop turn by turn.                                                  *)
LEMMA Loop ==
    ASSUME NEW element, NEW inputs
    PROVE  \E r : /\ r[0] = <<>>
                  /\ \A i \in 1 .. 17 : r[i] = Turned(element, inputs, r[i - 1], i)
                  /\ AdapterRules(element, inputs) = r[17]
<1> DEFINE g == CHOOSE g : Fold(element, inputs, 17, g)
           r == [i \in 0 .. 17 |-> g[1 .. i]]
<1>1. Fold(element, inputs, 17, g)
  BY FoldExists
<1> HIDE DEF g
<1>2. r[0] = <<>>
  <2>1. 1 .. 0 = {}
    OBVIOUS
  <2>2. g[{}] = <<>>
    BY <1>1 DEF Fold
  <2> QED
    BY <2>1, <2>2
<1>3. ASSUME NEW i \in 1 .. 17 PROVE r[i] = Turned(element, inputs, r[i - 1], i)
  <2>1. (1 .. i) \in SUBSET (1 .. 17) /\ 1 .. i # {}
    OBVIOUS
  <2>2. Max(1 .. i) = i
    <3>1. Max(1 .. i) \in 1 .. i /\ \A j \in 1 .. i : j <= Max(1 .. i)
      BY <2>1, GreatestNumber
    <3> QED
      BY <3>1
  <2>3. (1 .. i) \ {i} = 1 .. (i - 1)
    OBVIOUS
  <2>4. g[1 .. i] = Turned(element, inputs, g[1 .. (i - 1)], i)
    BY <1>1, <2>1, <2>2, <2>3 DEF Fold
  <2> QED
    BY <2>4
<1>4. AdapterRules(element, inputs) = r[17]
  BY LoopIsFold DEF g
<1> HIDE DEF r
<1> QED
  BY <1>2, <1>3, <1>4

-----------------------------------------------------------------------------
(* One rule of each name.                                                  *)

(* Setting a rule keeps one of each name, and adds no other.               *)
LEMMA SetKeeps ==
    ASSUME NEW rules, RuleList(rules), NEW message, NEW n, NEW v
    PROVE  LET set == SetValidationValues(rules, message, n, v)
           IN  /\ RuleList(set)
               /\ NamesOf(set) = NamesOf(rules) \cup {n}
               /\ RequiredIsTrue(rules) /\ (n = "required" => v = True) => RequiredIsTrue(set)
<1> DEFINE I == {i \in 1 .. Len(rules) : rules[i].name = n}
           i0 == IF I # {} THEN Min(I) ELSE 0
           rule == [name |-> n, param |-> v,
                    message |-> IF message = "" THEN IF i0 = 0 THEN "" ELSE rules[i0].message
                                ELSE message]
           set == IF i0 = 0 THEN Append(rules, rule) ELSE [rules EXCEPT ![i0] = rule]
<1>1. set = SetValidationValues(rules, message, n, v)
  BY DEF SetValidationValues, SelectInSeq
<1>2. PICK S : rules \in Seq(S)
  BY DEF RuleList
<1>3. Len(rules) \in Nat /\ DOMAIN rules = 1 .. Len(rules)
  BY <1>2
<1>4. \A i, j \in DOMAIN rules : rules[i].name = rules[j].name => i = j
  BY DEF RuleList
<1>5. rule.name = n /\ rule.param = v
  OBVIOUS
<1>6. CASE I = {}
  <2>1. set = Append(rules, rule)
    BY <1>6
  <2> HIDE DEF rule, set
  <2>2. rules \in Seq(S \cup {rule})
    BY <1>2
  <2>3. /\ set \in Seq(S \cup {rule})
        /\ DOMAIN set = 1 .. Len(rules) + 1
        /\ \A i \in 1 .. Len(rules) : set[i] = rules[i]
        /\ set[Len(rules) + 1] = rule
    BY <2>1, <2>2
  <2>4. \A i \in 1 .. Len(rules) : set[i].name = rules[i].name /\ rules[i].name # n
    BY <2>3, <1>6
  <2>5. set[Len(rules) + 1].name = n
    BY <2>3, <1>5
  <2>6. \A i \in DOMAIN set : i \in 1 .. Len(rules) \/ i = Len(rules) + 1
    BY <1>3, <2>3
  <2>7. \A i, j \in DOMAIN set : set[i].name = set[j].name => i = j
    BY <1>3, <1>4, <2>4, <2>5, <2>6
  <2>8. NamesOf(set) = NamesOf(rules) \cup {n}
    <3>1. DOMAIN set = DOMAIN rules \cup {Len(rules) + 1}
      BY <1>3, <2>3
    <3> QED
      BY <1>3, <2>4, <2>5, <3>1 DEF NamesOf
  <2>9. RequiredIsTrue(rules) /\ (n = "required" => v = True) => RequiredIsTrue(set)
    BY <1>3, <1>5, <2>3, <2>6 DEF RequiredIsTrue
  <2> QED
    BY <1>1, <2>3, <2>7, <2>8, <2>9 DEF RuleList
<1>7. CASE I # {}
  <2>1. I \in SUBSET Nat
    BY <1>3
  <2>2. \E m \in I : \A k \in I : m <= k
    BY <1>7, <2>1, LeastNumber
  <2>3. i0 \in I
    BY <1>7, <2>2 DEF Min
  <2>4. i0 \in 1 .. Len(rules) /\ rules[i0].name = n /\ i0 # 0
    BY <1>3, <2>3
  <2>5. set = [rules EXCEPT ![i0] = rule]
    BY <2>4
  <2> HIDE DEF rule, set, i0
  <2>6. rules \in Seq(S \cup {rule})
    BY <1>2
  <2>7. set \in Seq(S \cup {rule}) /\ DOMAIN set = DOMAIN rules
    BY <1>3, <2>4, <2>5, <2>6
  <2>8. \A i \in DOMAIN rules : set[i] = IF i = i0 THEN rule ELSE rules[i]
    BY <1>3, <2>4, <2>5
  <2>9. \A i \in DOMAIN rules : set[i].name = rules[i].name
    BY <2>4, <2>8, <1>5
  <2>10. NamesOf(set) = NamesOf(rules) \cup {n}
    <3>1. n \in NamesOf(rules)
      BY <1>3, <2>4 DEF NamesOf
    <3> QED
      BY <2>7, <2>9, <3>1 DEF NamesOf
  <2>11. RequiredIsTrue(rules) /\ (n = "required" => v = True) => RequiredIsTrue(set)
    BY <1>5, <2>7, <2>8 DEF RequiredIsTrue
  <2> QED
    BY <1>1, <1>4, <2>7, <2>9, <2>10, <2>11 DEF RuleList
<1> QED
  BY <1>6, <1>7

(* The names an adapter sets: its first rule, or one of its three.         *)
NamesSet(i) ==
    {Registered[i].rules[1]}
        \cup IF Registered[i].adapt \in {"minmax", "password"}
             THEN {Registered[i].rules[2], Registered[i].rules[3]} ELSE {}

(* Only one of the registered adapters sets the rule required.             *)
LEMMA NamesRegistered ==
    ASSUME NEW i \in 1 .. 17
    PROVE  /\ NamesSet(i) \subseteq RuleNames
           /\ i # 14 => "required" \notin NamesSet(i)
           /\ i = 14 => Registered[i].adapt = "required" /\ NamesSet(i) = {"required"}
<1>1. \/ i = 1 \/ i = 2 \/ i = 3 \/ i = 4 \/ i = 5 \/ i = 6 \/ i = 7 \/ i = 8 \/ i = 9
      \/ i = 10 \/ i = 11 \/ i = 12 \/ i = 13 \/ i = 14 \/ i = 15 \/ i = 16 \/ i = 17
  OBVIOUS
<1> QED
  BY <1>1, SMTT(60) DEF NamesSet, Registered, RuleNames, Adapter, Bool, MinMax, SingleVal

(* The password adapter sets those of its rules that have a parameter.     *)
LEMMA SetPresentKeeps ==
    ASSUME NEW rules, RuleList(rules), NEW message, NEW adapter, NEW params,
           "required" \notin {adapter.rules[1], adapter.rules[2], adapter.rules[3]}
    PROVE  LET set == SetPresent(rules, message, adapter, params)
           IN  /\ RuleList(set)
               /\ RequiredIsTrue(rules) => RequiredIsTrue(set)
               /\ NamesOf(rules) \subseteq NamesOf(set)
               /\ NamesOf(set) \subseteq NamesOf(rules)
                     \cup {adapter.rules[1], adapter.rules[2], adapter.rules[3]}
<1> DEFINE Set(rs, i) ==
            LET value == params[adapter.reads[i]]
            IN  IF Truthy(value)
                THEN SetValidationValues(rs, message, adapter.rules[i], value)
                ELSE rs
<1>1. ASSUME NEW rs, RuleList(rs), NEW i \in {1, 2, 3}
      PROVE  /\ RuleList(Set(rs, i))
             /\ RequiredIsTrue(rs) => RequiredIsTrue(Set(rs, i))
             /\ NamesOf(rs) \subseteq NamesOf(Set(rs, i))
             /\ NamesOf(Set(rs, i)) \subseteq NamesOf(rs) \cup {adapter.rules[i]}
  BY <1>1, SetKeeps
<1>2. SetPresent(rules, message, adapter, params) = Set(Set(Set(rules, 1), 2), 3)
  BY DEF SetPresent
<1> HIDE DEF Set
<1>3. RuleList(Set(rules, 1)) /\ RuleList(Set(Set(rules, 1), 2))
  BY <1>1
<1> QED
  BY <1>1, <1>2, <1>3

(* Adapting keeps one rule of each name: it adds names of the adapter only.*)
LEMMA AdaptKeeps ==
    ASSUME NEW rules, RuleList(rules), NEW i \in 1 .. 17,
           NEW element, NEW message, NEW params, NEW inputs
    PROVE  LET new == Adapt(Registered[i], rules, element, message, params, inputs)
           IN  /\ RuleList(new)
               /\ RequiredIsTrue(rules) => RequiredIsTrue(new)
               /\ NamesOf(rules) \subseteq NamesOf(new)
               /\ NamesOf(new) \subseteq NamesOf(rules) \cup NamesSet(i)
               /\ i = 14 => NamesOf(new) = NamesOf(rules)
                              \cup IF element.type # "checkbox" THEN {"required"} ELSE {}
<1> DEFINE a == Registered[i]
           new == Adapt(a, rules, element, message, params, inputs)
<1>1. \/ new = rules
      \/ \E k \in {1, 2, 3} : \E v :
            /\ k # 1 => a.adapt = "minmax"
            /\ new = SetValidationValues(rules, message, a.rules[k], v)
      \/ a.adapt = "password" /\ new = SetPresent(rules, message, a, params)
  BY DEF Adapt
<1>2. a.adapt = "required" /\ element.type # "checkbox" =>
        new = SetValidationValues(rules, message, a.rules[1], True)
  BY DEF Adapt
<1>3. a.adapt = "required" /\ element.type = "checkbox" => new = rules
  BY DEF Adapt
<1> HIDE DEF new
<1>4. ASSUME i = 14
      PROVE  /\ RuleList(new)
             /\ RequiredIsTrue(rules) => RequiredIsTrue(new)
             /\ NamesOf(new) = NamesOf(rules)
                  \cup IF element.type # "checkbox" THEN {"required"} ELSE {}
             /\ NamesSet(i) = {"required"}
  <2>1. a.adapt = "required" /\ a.rules[1] = "required" /\ NamesSet(i) = {"required"}
    BY <1>4, NamesRegistered DEF NamesSet
  <2> HIDE DEF a
  <2> QED
    BY <1>2, <1>3, <1>4, <2>1, SetKeeps
<1>5. ASSUME i # 14
      PROVE  /\ RuleList(new)
             /\ RequiredIsTrue(rules) => RequiredIsTrue(new)
             /\ NamesOf(rules) \subseteq NamesOf(new)
             /\ NamesOf(new) \subseteq NamesOf(rules) \cup NamesSet(i)
  <2>1. CASE new = rules
    BY <2>1
  <2>2. ASSUME NEW k \in {1, 2, 3}, NEW v, k # 1 => a.adapt = "minmax",
               new = SetValidationValues(rules, message, a.rules[k], v)
        PROVE  /\ RuleList(new)
               /\ RequiredIsTrue(rules) => RequiredIsTrue(new)
               /\ NamesOf(rules) \subseteq NamesOf(new)
               /\ NamesOf(new) \subseteq NamesOf(rules) \cup NamesSet(i)
    <3>1. a.rules[k] \in NamesSet(i)
      BY <2>2 DEF NamesSet
    <3>2. a.rules[k] # "required"
      BY <1>5, <3>1, NamesRegistered
    <3> HIDE DEF a
    <3> QED
      BY <2>2, <3>1, <3>2, SetKeeps
  <2>3. CASE a.adapt = "password" /\ new = SetPresent(rules, message, a, params)
    <3>1. {a.rules[1], a.rules[2], a.rules[3]} = NamesSet(i)
      BY <2>3 DEF NamesSet
    <3>2. "required" \notin NamesSet(i)
      BY <1>5, NamesRegistered
    <3> HIDE DEF a
    <3> QED
      BY <2>3, <3>1, <3>2, SetPresentKeeps
  <2> QED
    BY <1>1, <2>1, <2>2, <2>3
<1> QED
  BY <1>4, <1>5 DEF new

(* The rules after the first n adapters.                                   *)
Adapted(element, n, rules) ==
    /\ RuleList(rules)
    /\ RequiredIsTrue(rules)
    /\ NamesOf(rules) \subseteq RuleNames
    /\ "required" \in NamesOf(rules) <=> n >= 14 /\ Requires(element)

(* One turn of the loop.                                                   *)
LEMMA TurnedKeeps ==
    ASSUME NEW element, NEW inputs, NEW rules, NEW i \in 1 .. 17, Adapted(element, i - 1, rules)
    PROVE  Adapted(element, i, Turned(element, inputs, rules, i))
<1> DEFINE a == Registered[i]
           m == Attr(element, <<a.name>>)
           params == [p \in a.params |-> Attr(element, <<a.name, p>>)]
           new == Adapt(a, rules, element, m[1], params, inputs)
<1>1. Turned(element, inputs, rules, i) = IF m = Undefined THEN rules ELSE new
  BY DEF Turned
<1>2. /\ RuleList(new)
      /\ RequiredIsTrue(new)
      /\ NamesOf(rules) \subseteq NamesOf(new)
      /\ NamesOf(new) \subseteq NamesOf(rules) \cup NamesSet(i)
      /\ i = 14 => NamesOf(new) = NamesOf(rules)
                     \cup IF element.type # "checkbox" THEN {"required"} ELSE {}
  <2>1. RuleList(rules) /\ RequiredIsTrue(rules)
    BY DEF Adapted
  <2> QED
    BY <2>1, AdaptKeeps
<1>3. i = 14 => (m # Undefined <=> <<"required">> \in DOMAIN element.attrs)
  BY DEF Registered, Adapter, Attr, Undefined
<1> HIDE DEF a, m, params, new
<1>4. CASE i = 14
  <2>1. "required" \notin NamesOf(rules)
    BY <1>4 DEF Adapted
  <2>2. NamesSet(i) \subseteq RuleNames
    BY NamesRegistered
  <2> QED
    BY <1>1, <1>2, <1>3, <1>4, <2>1, <2>2 DEF Adapted, Requires
<1>5. CASE i # 14
  <2>1. i >= 14 <=> i - 1 >= 14
    BY <1>5
  <2>2. NamesSet(i) \subseteq RuleNames /\ "required" \notin NamesSet(i)
    BY <1>5, NamesRegistered
  <2> QED
    BY <1>1, <1>2, <2>1, <2>2 DEF Adapted
<1> QED
  BY <1>4, <1>5

(* The loop as a whole.                                                    *)
LEMMA LoopAdapts ==
    ASSUME NEW element, NEW inputs
    PROVE  Adapted(element, 17, AdapterRules(element, inputs))
<1>1. PICK r : /\ r[0] = <<>>
               /\ \A i \in 1 .. 17 : r[i] = Turned(element, inputs, r[i - 1], i)
               /\ AdapterRules(element, inputs) = r[17]
  BY Loop
<1> DEFINE S == {n \in Nat : n <= 17 => Adapted(element, n, r[n])}
<1>2. 0 \in S
  <2>1. <<>> \in Seq({}) /\ DOMAIN <<>> = {}
    OBVIOUS
  <2>2. RuleList(<<>>) /\ NamesOf(<<>>) = {} /\ RequiredIsTrue(<<>>)
    BY <2>1 DEF RuleList, NamesOf, RequiredIsTrue
  <2> QED
    BY <1>1, <2>2 DEF Adapted
<1>3. ASSUME NEW n \in S PROVE n + 1 \in S
  <2> SUFFICES ASSUME n + 1 <= 17 PROVE Adapted(element, n + 1, r[n + 1])
    OBVIOUS
  <2>1. n + 1 \in 1 .. 17 /\ (n + 1) - 1 = n
    OBVIOUS
  <2>2. Adapted(element, n, r[n])
    OBVIOUS
  <2>3. r[n + 1] = Turned(element, inputs, r[n], n + 1)
    BY <1>1, <2>1
  <2> QED
    BY <2>1, <2>2, <2>3, TurnedKeeps
<1>4. S = Nat
  <2> HIDE DEF S
  <2>1. S \subseteq Nat
    BY DEF S
  <2> QED
    BY <1>2, <1>3, <2>1, Induction
<1>5. 17 \in S
  BY <1>4
<1> QED
  BY <1>1, <1>5

(* The rules of an input end with the dummy; before it no two rules have   *)
(* the same name, however the adapters overlap (minlength is set by four   *)
(* of them), and required is among them exactly when it was asked for of   *)
(* no checkbox (parseElement, setValidationValues and the adapters).       *)
THEOREM RulesAreOfDistinctNames ==
    ASSUME NEW element, NEW inputs
    PROVE  LET rules == AdaptedRules(element, inputs)
           IN  /\ RuleList(rules)
               /\ rules[Len(rules)] = Dummy
               /\ RequiredIsTrue(rules)
               /\ NamesOf(rules) \subseteq RuleNames \cup {"__dummy__"}
               /\ "required" \in NamesOf(rules) <=> Requires(element)
<1> DEFINE rules == AdapterRules(element, inputs)
           all == Append(rules, Dummy)
<1>1. Adapted(element, 17, rules)
  BY LoopAdapts
<1>2. PICK S : rules \in Seq(S)
  BY <1>1 DEF Adapted, RuleList
<1> HIDE DEF rules
<1>3. rules \in Seq(S \cup {Dummy}) /\ Len(rules) \in Nat /\ DOMAIN rules = 1 .. Len(rules)
  BY <1>2
<1>4. /\ all \in Seq(S \cup {Dummy})
      /\ Len(all) = Len(rules) + 1
      /\ DOMAIN all = DOMAIN rules \cup {Len(rules) + 1}
      /\ \A i \in DOMAIN rules : all[i] = rules[i]
      /\ all[Len(rules) + 1] = Dummy
  BY <1>3
<1>5. Dummy.name = "__dummy__" /\ "__dummy__" \notin RuleNames /\ "__dummy__" # "required"
  BY DEF Dummy, RuleNames
<1>6. \A i \in DOMAIN rules : rules[i].name \in RuleNames
  BY <1>1 DEF Adapted, NamesOf
<1> HIDE DEF all
<1>7. \A i, j \in DOMAIN all : all[i].name = all[j].name => i = j
  BY <1>1, <1>4, <1>5, <1>6 DEF Adapted, RuleList
<1>8. NamesOf(all) = NamesOf(rules) \cup {"__dummy__"}
  BY <1>4, <1>5 DEF NamesOf
<1>9. RequiredIsTrue(all)
  BY <1>1, <1>4, <1>5 DEF Adapted, RequiredIsTrue
<1>10. AdaptedRules(element, inputs) = all
  BY DEF AdaptedRules, all, rules
<1>11. "required" \in NamesOf(all) <=> Requires(element)
  BY <1>1, <1>5, <1>8 DEF Adapted
<1> QED
  BY <1>1, <1>4, <1>7, <1>8, <1>9, <1>10, <1>11 DEF Adapted, RuleList

=============================================================================
