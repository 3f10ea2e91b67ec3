--------------------------------- MODULE Form ---------------------------------
(***************************************************************************)
(* Form and Form.Element of www/prototype.js: what the controls of a form  *)
(* hold, and what is sent of them, as a hash or as a query string.  A      *)
(* control offers texts and has chosen some of them: a field for text has  *)
(* the one that was entered, a checkbox its own or none.                   *)
(***************************************************************************)
EXTENDS Enumerable

CONSTANTS NoSubmit  \* the option not to send any submit button

ControlKinds == {"text", "checkbox", "select-one", "select-multiple", "submit", "file", "label"}

Options(control) ==
    [i \in DOMAIN control.texts |-> IF i \in control.chosen THEN control.texts[i] ELSE NoText]
Selected(control) == FindAll(ToSet(control.texts), Options(control))

\* An array for a list of several, even if none is selected; null for what is not chosen.
GetValue(control) ==
    IF control.kind = "select-multiple"
      THEN IF control.texts = <<>> THEN Null ELSE Many(Selected(control))
      ELSE IF Selected(control) = <<>> THEN Null ELSE One(Selected(control)[1])

\* A single value is selected in a list if it is there, and in a list of several what was
\* selected before stays; an array says it for every option.
SetValue(control, value) ==
    LET at == {i \in DOMAIN control.texts : value = One(control.texts[i])}
    IN  CASE control.kind = "checkbox" ->
               [control EXCEPT !.chosen = IF value \in {Null, One(EmptyText)} THEN {} ELSE {1}]
          [] control.kind = "select-one" ->
               [control EXCEPT !.chosen = IF at = {} THEN @ ELSE {Min(at)}]
          [] control.kind = "select-multiple" ->
               [control EXCEPT !.chosen =
                   IF value # Null /\ value.isArray
                     THEN {i \in DOMAIN control.texts : Include(value.values, control.texts[i])}
                     ELSE IF at = {} THEN @ ELSE @ \union {Min(at)}]
          [] OTHER -> [control EXCEPT !.texts = value.values]

\* getElements: what has no serializer is not of the form.
GetElements(form) == FindAll({control \in ToSet(form) : control.kind # "label"}, form)

-----------------------------------------------------------------------------
\* Mutant: every submit button is sent.
SerializeAllSubmits(elements, submit) ==
    LET sent(e)   == /\ ~ e.disabled /\ e.name # EmptyKey /\ GetValue(e) # Null
                     /\ e.kind # "file"
                     /\ e.kind = "submit" => submit \in {Undefined, e.name}
        counted   == FindAll({e \in ToSet(elements) : sent(e)}, elements)
    IN  [i \in DOMAIN counted |-> [key |-> counted[i].name, value |-> GetValue(counted[i])]]

\* What a control adds to the pairs of name and value: nothing unless it counts, and of the
\* submit buttons only the first one that may be sent does.
Serialize(r, e, submit) ==
    LET submits == e.kind = "submit" /\ ~ r.submitted /\ submit \in {Undefined, e.name}
    IN  IF /\ ~ e.disabled /\ e.name # EmptyKey
           /\ GetValue(e) # Null /\ e.kind # "file"
           /\ e.kind = "submit" => submits
          THEN [pairs |-> Append(r.pairs, [key |-> e.name, value |-> GetValue(e)]),
                submitted |-> r.submitted \/ submits]
          ELSE r

\* serializeElements: the pairs of the controls in their order.
SerializeElements(elements, submit) ==
    Inject([pairs |-> <<>>, submitted |-> FALSE],
           LAMBDA r, e : Serialize(r, e, submit), elements).pairs

\* The text of an array, as part of a query string or of an array that is made into one.
AsText(value) ==
    CASE ~ value.isArray -> value.values[1]
      [] value.values = <<>> -> EmptyText
      [] Len(value.values) = 1 -> value.values[1]
      [] OTHER -> [joined |-> value.values]

\* The accumulators: a value of a name that came before is pushed, an array as a whole.
Accumulate(hash, pair) ==
    IF \E i \in DOMAIN hash : hash[i].key = pair.key
      THEN HashSet(hash, pair.key,
                   Many(Append(HashGet(hash, pair.key).values, AsText(pair.value))))
      ELSE HashSet(hash, pair.key, pair.value)

AsHash(pairs) == Inject(<<>>, Accumulate, pairs)
AsString(pairs) ==
    [i \in DOMAIN pairs |-> [key |-> pairs[i].key, text |-> AsText(pairs[i].value)]]

\* serialize of one control: whatever kind it is of, and a list of several as several pairs.
SerializeElement(control) ==
    IF control.disabled \/ control.name = EmptyKey \/ GetValue(control) = Null THEN <<>>
    ELSE ToQueryString(<<[key |-> control.name, value |-> GetValue(control)]>>)

\* Form.request: the hash goes into the query string of an Ajax.Request.
RequestParameters(form, submit) ==
    ToQueryString(AsHash(SerializeElements(GetElements(form), submit)))
=============================================================================
