------------------------------ MODULE Enumerable ------------------------------
(***************************************************************************)
(* The operators of www/prototype.js on collections: Enumerable, Array,    *)
(* Hash, ranges, and the query strings that carry a request's parameters.  *)
(* A value is a number, Null or Undefined; an array is a sequence of       *)
(* values, and its indices count from 0 as the code's do.  An iterator is  *)
(* an operator.                                                            *)
(***************************************************************************)
EXTENDS Integers, SequencesExt

CONSTANTS Null, Undefined,                \* `null' and `undefined'
          NoText, EmptyText, EmptyKey    \* no text at all, an empty text, an empty key

Falsy == {Null, Undefined, 0}
Truthy(v) == v \notin Falsy

\* `==' of two values that are not of one type; `===' is equality.
LooselyEqual(v, w) == v = w \/ {v, w} = {Null, Undefined}

Least(m, n) == IF m < n THEN m ELSE n

-----------------------------------------------------------------------------
\* Enumerable: every operation goes over the array once, from the first value on.  A test is
\* the set of the values that pass it.
Pushed(results, v, yes) == IF yes THEN Append(results, v) ELSE results

\* inject: memo, and then what the iterator makes of it and of each value in turn.
Inject(memo, iterator(_, _), array) ==
    LET given[n \in 0..Len(array)] ==
          IF n = 0 THEN memo ELSE iterator(given[n - 1], array[n])
    IN  given[Len(array)]

FindAll(test, array) == Inject(<<>>, LAMBDA r, v : Pushed(r, v, v \in test), array)
Reject(test, array) == Inject(<<>>, LAMBDA r, v : Pushed(r, v, v \notin test), array)
Partition(test, array) ==
    Inject(<<<<>>, <<>>>>,
           LAMBDA r, v : <<Pushed(r[1], v, v \in test), Pushed(r[2], v, v \notin test)>>, array)

Every(test, array) == Inject(TRUE, LAMBDA found, v : found /\ v \in test, array)
Some(test, array) == Inject(FALSE, LAMBDA found, v : found \/ v \in test, array)
Collect(f, array) == [i \in DOMAIN array |-> f[array[i]]]
Pluck(array, property) == Collect([v \in ToSet(array) |-> v[property]], array)
Grep(matches, f, array) ==
    Inject(<<>>, LAMBDA r, v : IF v \in matches THEN Append(r, f[v]) ELSE r, array)

\* The first value that passes, which may itself be false.
Detect(test, array) ==
    LET found == FindAll(test, array)
    IN  IF found = <<>> THEN Undefined ELSE found[1]

\* Of equal values max gives the last one, min the first; of none neither gives anything.
MaxOf(array) ==
    Inject(Undefined, LAMBDA r, v : IF r = Undefined \/ v >= r THEN v ELSE r, array)
MinOf(array) ==
    Inject(Undefined, LAMBDA r, v : IF r = Undefined \/ v < r THEN v ELSE r, array)

\* Values whose criteria are equal stay in their order, as the browser sorts them.
SortBy(f, array) ==
    LET criteria  == Collect([v \in ToSet(array) |-> [value |-> v, criteria |-> f[v]]], array)
        less(i, j) == criteria[i].criteria < criteria[j].criteria
        order     == SetToSortSeq(DOMAIN array, LAMBDA i, j : less(i, j) \/ (~ less(j, i) /\ i < j))
    IN  Pluck(Collect(criteria, order), "value")

\* Slices of `number' values; the last one may be shorter, and inGroupsOf fills it.
EachSlice(array, number) ==
    [k \in 1..(Len(array) + number - 1) \div number |->
        SubSeq(array, (k - 1) * number + 1, Least(k * number, Len(array)))]

InGroupsOf(array, number, fillWith) ==
    LET slices == EachSlice(array, number)
    IN  [k \in DOMAIN slices |->
            [i \in 1..number |-> IF i \in DOMAIN slices[k] THEN slices[k][i] ELSE fillWith]]

\* zip asks every array for the values at the first one's indices.
At(array, i) == IF i \in DOMAIN array THEN array[i] ELSE Undefined
FirstOf(array) == At(array, 1)
LastOf(array) == At(array, Len(array))
ZipWith(array, other) == [i \in DOMAIN array |-> <<array[i], At(other, i)>>]

-----------------------------------------------------------------------------
\* Array: indices count from 0, and -1 means that there is none.  A negative start counts
\* from the end.
StartIndex(array, i) == IF i < 0 THEN Len(array) + i ELSE i
IndexOf(array, item, i) ==
    LET at == {k \in StartIndex(array, i)..Len(array) - 1 : array[k + 1] = item}
    IN  IF at = {} THEN -1 ELSE CHOOSE k \in at : \A l \in at : k <= l

\* Backwards: over the reversed copy of what comes up to the start, counted from the start.
LastIndexOf(array, item, i) ==
    LET end == StartIndex(array, i) + 1
        n   == IndexOf(Reverse(SubSeq(array, 1, Least(end, Len(array)))), item, 0)
    IN  IF n < 0 THEN n ELSE end - n - 1

\* Mutant: only the first value is compared with.
IncludeFirst(array, v) == array # <<>> /\ LooselyEqual(array[1], v)

Include(array, v) ==
    \/ IndexOf(array, v, 0) # -1
    \/ \E i \in DOMAIN array : LooselyEqual(array[i], v)

Concat(array, other) == array \o other

\* An array of arrays of values.
Flatten(arrays) == Inject(<<>>, Concat, arrays)

Compact(array) == FindAll({v \in ToSet(array) : ~ LooselyEqual(v, Null)}, array)
Without(array, values) == FindAll({v \in ToSet(array) : ~ Include(values, v)}, array)

\* With `sorted' a value is compared with the last one kept only.
Uniq(array, sorted) ==
    Inject(<<>>,
           LAMBDA r, v : Pushed(r, v, r = <<>> \/ (IF sorted THEN ~ LooselyEqual(LastOf(r), v)
                                                            ELSE ~ Include(r, v))),
           array)

\* detect gives the value that was found: one that is false counts as not found.
Intersect(array, other) ==
    FindAll({item \in ToSet(array) : Truthy(Detect({item}, other))}, Uniq(array, FALSE))

-----------------------------------------------------------------------------
\* Numbers and ranges: from the start on, as long as the value is in the range.
RangeIncludes(start, end, exclusive, v) ==
    v >= start /\ (IF exclusive THEN v < end ELSE v <= end)
RangeArray(start, end, exclusive) ==
    LET from[v \in Int] ==
          IF RangeIncludes(start, end, exclusive, v) THEN <<v>> \o from[v + 1] ELSE <<>>
    IN  from[start]
Times(n) == RangeArray(0, n, TRUE)

-----------------------------------------------------------------------------
\* Hash: its pairs, in the order in which the keys came.
HashKeys(hash) == Pluck(hash, "key")
HashValues(hash) == Pluck(hash, "value")

HashSet(hash, k, v) ==
    IF \E i \in DOMAIN hash : hash[i].key = k
      THEN [i \in DOMAIN hash |-> IF hash[i].key = k THEN [key |-> k, value |-> v] ELSE hash[i]]
      ELSE Append(hash, [key |-> k, value |-> v])
HashGet(hash, k) ==
    LET at == {i \in DOMAIN hash : hash[i].key = k}
    IN  IF at = {} THEN Undefined ELSE hash[CHOOSE i \in at : TRUE].value
HashUnset(hash, k) == FindAll({pair \in ToSet(hash) : pair.key # k}, hash)
HashIndex(hash, v) ==
    LET at == FindAll({pair \in ToSet(hash) : pair.value = v}, hash)
    IN  IF at = <<>> THEN Undefined ELSE at[1].key

HashUpdate(hash, other) == Inject(hash, LAMBDA h, pair : HashSet(h, pair.key, pair.value), other)

-----------------------------------------------------------------------------
\* A query string is the sequence of its pairs; the text of a parameter's value is NoText
\* where there is no "=" at all.  A parameter is an array of values, or one value.
Text(v) == IF v = Undefined THEN NoText ELSE IF v = Null THEN EmptyText ELSE v
One(v) == [isArray |-> FALSE, values |-> <<v>>]
Many(vs) == [isArray |-> TRUE, values |-> vs]

\* A pair of the query string for each value.
QueryPairs(pair) ==
    [i \in DOMAIN pair.value.values |-> [key |-> pair.key, text |-> Text(pair.value.values[i])]]
ToQueryString(params) == Inject(<<>>, LAMBDA r, pair : Concat(r, QueryPairs(pair)), params)

\* Mutant: the last pair with a key wins.
ToQueryParamsLast(query) ==
    Inject(<<>>, LAMBDA hash, pair :
                   IF pair.key = EmptyKey THEN hash ELSE HashSet(hash, pair.key, One(pair.text)),
           query)

\* Parsing: a pair without a key is skipped, a key that came before makes its value an array.
\* (A key is none that every object inherits: one that it does is "in" the empty hash.)
Parsed(hash, pair) ==
    IF pair.key = EmptyKey THEN hash
    ELSE IF \E i \in DOMAIN hash : hash[i].key = pair.key
    THEN HashSet(hash, pair.key, Many(Append(HashGet(hash, pair.key).values, pair.text)))
    ELSE HashSet(hash, pair.key, One(pair.text))
ToQueryParams(query) == Inject(<<>>, Parsed, query)
=============================================================================
