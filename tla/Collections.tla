----------------------------- MODULE Collections -----------------------------
(***************************************************************************)
(* An array, a hash and a form of www/prototype.js under the calls that    *)
(* change them, and what the operators of Enumerable and Form promise of   *)
(* each of them that can be reached.  map is what was set in the hash.     *)
(***************************************************************************)
EXTENDS Form

CONSTANTS Numbers,      \* the numbers an array holds
          Keys,         \* the keys of a hash, EmptyKey may be one
          Texts,        \* the texts a parameter carries
          Forms,        \* the forms a page may have
          Absent,       \* there is no such key
          MaxLength     \* bound: the values of an array

ASSUME NumbersAssumption == Numbers \subseteq Int /\ Undefined \notin Numbers
ASSUME MaxLengthAssumption == MaxLength \in Nat

VARIABLES array, hash, map, form
collectionVars == <<array, hash, map, form>>

Values == Numbers \union {Null, Undefined}
Arrays == UNION {[1..n -> Values] : n \in 0..MaxLength}
Scalars == Texts \union {Null, Undefined}
Params == {One(v) : v \in Scalars} \union {Many(<<>>)}
          \union {Many(<<v>>) : v \in Texts} \union {Many(<<v, w>>) : v, w \in Texts}

\* A control of a page: one text for a field, a box or a button, which fields and buttons send;
\* different ones in a list, of which a list of one has at most one selected.
Entered == Texts \union {EmptyText}
Proper(control) ==
    /\ control.chosen \subseteq DOMAIN control.texts
    /\ control.kind \in {"text", "submit", "file"} => control.chosen = {1}
    /\ control.kind \in {"text", "submit", "file", "checkbox"} => Len(control.texts) = 1
    /\ control.kind = "select-one" => \A i, j \in control.chosen : i = j
    /\ control.kind \in {"select-one", "select-multiple"} =>
          \A i, j \in DOMAIN control.texts : control.texts[i] = control.texts[j] => i = j
Controls ==
    {control \in [name : Keys, kind : ControlKinds, disabled : BOOLEAN,
                  texts : Seq(Entered), chosen : SUBSET Nat] : Proper(control)}

ASSUME FormsAssumption == Forms \subseteq Seq(Controls)
ASSUME TextsAssumption ==
    /\ Entered \intersect {Null, Undefined, NoText} = {}
    /\ Null \notin [isArray : BOOLEAN, values : Seq(Entered)]

\* What was set is never taken for absent.
ASSUME AbsentAssumption == Absent \notin Params

CollectionsInit ==
    /\ array = <<>>
    /\ hash = <<>> /\ map = [k \in Keys |-> Absent]
    /\ form \in Forms \union {<<>>}

-----------------------------------------------------------------------------
Push(v) ==
    /\ Len(array) < MaxLength
    /\ array' = Append(array, v)
    /\ UNCHANGED <<hash, map, form>>

Clear == array' = <<>> /\ UNCHANGED <<hash, map, form>>

\* reverse is in place; what the others give is assigned to the array.
ReverseInline == array' = Reverse(array) /\ UNCHANGED <<hash, map, form>>
Filter ==
    /\ \/ array' = Compact(array)
       \/ array' = Uniq(array, FALSE)
       \/ \E v \in Values : array' = Without(array, <<v>>)
    /\ UNCHANGED <<hash, map, form>>

Set(k, v) ==
    /\ hash' = HashSet(hash, k, v)
    /\ map' = [map EXCEPT ![k] = v]
    /\ UNCHANGED <<array, form>>

Unset(k) ==
    /\ hash' = HashUnset(hash, k)
    /\ map' = [map EXCEPT ![k] = Absent]
    /\ UNCHANGED <<array, form>>

\* update and merge: the pairs of the other hash are set one after the other.
Update(k, l, v) ==
    /\ k # l
    /\ hash' = HashUpdate(hash, <<[key |-> k, value |-> v], [key |-> l, value |-> v]>>)
    /\ map' = [map EXCEPT ![k] = v, ![l] = v]
    /\ UNCHANGED <<array, form>>

\* The user enters a text or chooses, and a script does the same by setValue; the controls
\* of a form are disabled and enabled.
Enter(i) ==
    /\ \/ form[i].kind = "text" /\ \E t \in Texts \union {EmptyText} : form' = [form EXCEPT ![i].texts = <<t>>]
       \/ /\ form[i].kind \in {"checkbox", "select-one", "select-multiple"}
          /\ \E chosen \in SUBSET DOMAIN form[i].texts :
                /\ form[i].kind # "select-multiple" => Cardinality(chosen) <= 1
                /\ form' = [form EXCEPT ![i].chosen = chosen]
       \/ /\ form[i].kind \notin {"label", "file"}
          /\ \E t \in Texts : form' = [form EXCEPT ![i] = SetValue(@, One(t))]
    /\ UNCHANGED <<array, hash, map>>

Able(i) ==
    /\ form' = [form EXCEPT ![i].disabled = ~ @]
    /\ UNCHANGED <<array, hash, map>>

\* The form's disable and enable.
AbleAll(disabled) ==
    /\ form' = [i \in DOMAIN form |->
                  IF form[i].kind = "label" THEN form[i] ELSE [form[i] EXCEPT !.disabled = disabled]]
    /\ UNCHANGED <<array, hash, map>>

\* clear, of a field or of a box: of a box it is the text that is lost, not the check.
ClearField(i) ==
    /\ form[i].kind \in {"text", "checkbox", "submit"}
    /\ form' = [form EXCEPT ![i].texts = <<EmptyText>>]
    /\ UNCHANGED <<array, hash, map>>

\* The three have nothing in common: only one of them is not empty.
CollectionsNext ==
    \/ \E i \in DOMAIN form : Enter(i) \/ Able(i) \/ ClearField(i)
    \/ form # <<>> /\ \E disabled \in BOOLEAN : AbleAll(disabled)
    \/ hash = <<>> /\ form = <<>>
                   /\ \/ \E v \in Values : Push(v)
                      \/ Clear
                      \/ ReverseInline
                      \/ Filter
    \/ array = <<>> /\ form = <<>>
                    /\ \/ \E k \in Keys, v \in Params : Set(k, v)
                       \/ \E k \in Keys : Unset(k)
                       \/ \E k, l \in Keys, v \in Params : Update(k, l, v)

CollectionsSpec == CollectionsInit /\ [][CollectionsNext]_collectionVars

-----------------------------------------------------------------------------
Truth == [v \in Values |-> Truthy(v)]

\* A test splits the array in two parts, and the other functions that take a test agree with
\* the parts.
Splits(test) ==
    LET parts == Partition(test, array)
    IN  /\ parts = <<FindAll(test, array), Reject(test, array)>>
        /\ Len(parts[1]) + Len(parts[2]) = Len(array)
        /\ Every(test, array) <=> parts[2] = <<>>
        /\ Some(test, array) <=> parts[1] # <<>>
        /\ Detect(test, array) = FirstOf(parts[1])
        /\ Grep(test, Truth, array) = Collect(Truth, parts[1])

\* Each part is in the order of the array, and sorting by the test puts one before the other.
KeepsOrder(test) ==
    /\ FindAll(test, array) = SelectSeq(array, LAMBDA v : v \in test)
    /\ SortBy([v \in Values |-> IF v \in test THEN 0 ELSE 1], array)
          = Concat(FindAll(test, array), Reject(test, array))

\* Slices and groups put together are the array; only the last slice is shorter.
Slices(n) ==
    LET slices == EachSlice(array, n)
    IN  /\ Flatten(slices) = array
        /\ \A i \in DOMAIN slices : Len(slices[i]) \in 1..n
        /\ \A i \in DOMAIN slices : i < Len(slices) => Len(slices[i]) = n
        /\ \A i \in DOMAIN slices : Len(InGroupsOf(array, n, Null)[i]) = n

\* indexOf finds the first index from the start on, lastIndexOf the last one up to it, where
\* the start is an index of the array.
Finds(v, start) ==
    LET first == IndexOf(array, v, start)
        last  == LastIndexOf(array, v, start)
        At0(i) == array[i + 1] = v
    IN  /\ IF first = -1 THEN \A i \in start..Len(array) - 1 : ~ At0(i)
           ELSE At0(first) /\ first >= start /\ \A i \in start..first - 1 : ~ At0(i)
        /\ IF last = -1 THEN \A i \in 0..start : ~ At0(i)
           ELSE At0(last) /\ last <= start /\ \A i \in last + 1..start : ~ At0(i)

\* uniq keeps one of every value, null and undefined being one; intersect keeps what both
\* have, but nothing that counts as false.
Sets(other) ==
    LET uniq == Uniq(array, FALSE)
        both == Intersect(array, other)
    IN  /\ \A i, j \in DOMAIN uniq : LooselyEqual(uniq[i], uniq[j]) => i = j
        /\ \A v \in Values : Include(uniq, v) <=> Include(array, v)
        /\ ToSet(both) = (ToSet(uniq) \intersect ToSet(other)) \ Falsy

SetLaws ==
    /\ \A v, w \in Values : Sets(<<v, w>>)
    /\ \A v \in Values : ~ Include(Without(array, <<v>>), v)

SearchLaws == \A v \in Values, start \in 0..Len(array) - 1 : Finds(v, start)

\* zip pairs the values, and the last value is the first one backwards.
PairLaws ==
    /\ ZipWith(array, Collect(Truth, array)) = Collect([v \in Values |-> <<v, Truth[v]>>], array)
    /\ array # <<>> => LastOf(array) = FirstOf(Reverse(array))

\* The greatest and the least number, ranges with and without their end, and times.
NumberLaws ==
    /\ array # <<>> /\ ToSet(array) \subseteq Numbers =>
          /\ MaxOf(array) = Max(ToSet(array))
          /\ MinOf(array) = Min(ToSet(array))
    /\ \A m, n \in Numbers :
          /\ ToSet(RangeArray(m, n, FALSE)) = m..n
          /\ RangeArray(m, n, TRUE) = RangeArray(m, n - 1, FALSE)
    /\ Times(Len(array)) = [i \in DOMAIN array |-> i - 1]

\* What the operators promise of an array, against what they are defined to be: the parts a
\* test splits it into, slices, searches, sets, pairs, and the least and the greatest number.
ArrayLaws ==
    /\ \A test \in SUBSET Values : Splits(test) /\ KeepsOrder(test)
    /\ \A n \in 1..MaxLength + 1 : Slices(n)
    /\ SearchLaws /\ SetLaws /\ PairLaws /\ NumberLaws

\* A hash gives what was set last, keeps one pair for a key, and finds a value under a key that
\* has it.
FollowsMap ==
    /\ \A k \in Keys : map[k] = Absent <=> k \notin ToSet(HashKeys(hash))
    /\ \A k \in Keys : map[k] # Absent => HashGet(hash, k) = map[k]
    /\ \A i, j \in DOMAIN hash : hash[i].key = hash[j].key => i = j
    /\ \A v \in ToSet(HashValues(hash)) : map[HashIndex(hash, v)] = v

\* Parameters that went through a query string: a list of one has become its text, an empty
\* list and the pair with the empty key are gone, null is the empty text, undefined no text,
\* and everything else is what it was.
Received(values) ==
    IF Len(values) = 1 THEN One(Text(values[1]))
                       ELSE Many([i \in DOMAIN values |-> Text(values[i])])
SurvivesQuery ==
    LET params == ToQueryParams(ToQueryString(hash))
    IN  /\ ToSet(HashKeys(params)) =
               {k \in Keys \ {EmptyKey} : map[k] # Absent /\ map[k].values # <<>>}
        /\ \A k \in ToSet(HashKeys(params)) : HashGet(params, k) = Received(map[k].values)

\* However the keys of a hash were set, unset and updated, it holds what was set, and a query
\* string made of it carries what it holds (Hash, toQueryString and toQueryParams).
HashLaws == FollowsMap /\ SurvivesQuery

\* The texts of a name that count: of controls that are enabled and not for files, and of the
\* first submit button that may be sent.
MaySubmit(control, submit) ==
    /\ control.kind = "submit" /\ ~ control.disabled
    /\ control.name # EmptyKey /\ submit \in {Undefined, control.name}
Counts(i, submit) ==
    /\ ~ form[i].disabled /\ form[i].kind \notin {"label", "file"}
    /\ form[i].kind = "submit" =>
          MaySubmit(form[i], submit) /\ \A j \in 1..i - 1 : ~ MaySubmit(form[j], submit)
Offered(name, submit) ==
    Flatten([i \in DOMAIN form |-> IF form[i].name = name /\ Counts(i, submit)
                                       THEN Selected(form[i]) ELSE <<>>])

\* A list of several whose name came before: its array is pushed as a whole.
Nested(submit) ==
    \E i, j \in DOMAIN form : /\ i < j /\ form[i].name = form[j].name
                              /\ form[j].kind = "select-multiple"
                              /\ Counts(i, submit) /\ Counts(j, submit)

\* What toQueryParams reads of a form's string is, for each name, its controls' texts in their order,
\* unless an array was pushed; a form without lists of several gives the same parameters as a
\* hash and as a string; a control gives the same on its own as in a form, but for files, which
\* a form leaves out; and a control that is set to what it holds stays as it is, but for the
\* checkbox of an empty text (serializeElements, serialize, Form.request, Serializers).
FormLaws ==
    /\ \A submit \in {Undefined, NoSubmit} \union (Keys \ {EmptyKey}) :
          LET pairs    == SerializeElements(GetElements(form), submit)
              received == ToQueryParams(RequestParameters(form, submit))
              got(name) == IF name \in ToSet(HashKeys(received))
                             THEN HashGet(received, name).values ELSE <<>>
          IN  /\ ~ Nested(submit) => \A name \in Keys \ {EmptyKey} : got(name) = Offered(name, submit)
              /\ (\A i \in DOMAIN form : form[i].kind # "select-multiple") =>
                    ToQueryParams(AsString(pairs)) = AsHash(pairs)
    /\ \A i \in DOMAIN form :
          form[i].kind \notin {"label", "file"} =>
             SerializeElement(form[i]) = RequestParameters(<<form[i]>>, Undefined)
    /\ \A i \in DOMAIN form :
          \/ form[i].kind = "checkbox" /\ form[i].texts[1] = EmptyText
          \/ form[i].kind = "label"
          \/ SetValue(form[i], GetValue(form[i])) = form[i]
=============================================================================
