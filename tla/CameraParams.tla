---------------------------- MODULE CameraParams ----------------------------
(***************************************************************************)
(* The camera parameters of libmocha: CameraParameters, a sorted map, and  *)
(* CameraParameters2, a list that remembers the order of the sets.  Both   *)
(* cross the binder as one string, "k=v;k=v".                              *)
(*                                                                         *)
(* Strings are sequences of characters here, since the properties are      *)
(* about what survives the conversion.  Every call is made on an object of *)
(* each class.                                                             *)
(***************************************************************************)
EXTENDS Integers, Sequences, SequencesExt, TLC

CONSTANTS
    Keys, Values,      \* strings given to set(), some with a "=" or a ";"
    Numbers,           \* widths and heights
    MaxSets            \* bound: calls of set()

VARIABLES
    map,       \* CameraParameters::mMap
    list,      \* CameraParameters2::mMap.mList
    lastSet,   \* history: for each key set, its value and when it was set
    sets       \* history: calls of set() so far

vars == <<map, list, lastSet, sets>>

KEY_PREVIEW_SIZE == <<"p">>
KEY_SUPPORTED_PREVIEW_SIZES == <<"s">>

Init == map = <<>> /\ list = <<>> /\ lastSet = <<>> /\ sets = 0

-----------------------------------------------------------------------------
(* Conversions *)

Digits == <<"0", "1", "2", "3", "4", "5", "6", "7", "8", "9">>

RECURSIVE Natural(_), Scan(_, _), Pairs(_), ParseSizesList(_)

Natural(n) == IF n < 10 THEN <<Digits[n + 1]>> ELSE Natural(n \div 10) \o <<Digits[(n % 10) + 1]>>

\* sprintf("%d")
Decimal(n) == IF n < 0 THEN <<"-">> \o Natural(-n) ELSE Natural(n)

\* sprintf("%dx%d")
FormatPair(w, h) == Decimal(w) \o <<"x">> \o Decimal(h)

Scan(s, n) ==
    IF s = <<>> \/ Head(s) \notin ToSet(Digits) THEN [value |-> n, rest |-> s]
    ELSE Scan(Tail(s), 10 * n + (CHOOSE d \in 0..9 : Digits[d + 1] = Head(s)))

\* strtol(s, &rest, 10): without digits it takes nothing and returns 0.
Strtol(s) ==
    LET minus == s # <<>> /\ Head(s) = "-"
        digits == IF minus THEN Tail(s) ELSE s
        r == Scan(digits, 0)
    IN  IF r.rest = digits THEN [value |-> 0, rest |-> s]
        ELSE [r EXCEPT !.value = IF minus THEN -r.value ELSE r.value]

\* parse_pair() that takes the second number from the delimiter on.
ParsePair_KeepsDelimiter(s, delim) ==
    LET a == Strtol(s) IN
    IF a.rest = <<>> \/ Head(a.rest) # delim THEN [ok |-> FALSE, first |-> -1, second |-> -1, rest |-> s]
    ELSE LET b == Strtol(a.rest) IN [ok |-> TRUE, first |-> a.value, second |-> b.value, rest |-> b.rest]

ParsePair(s, delim) ==
    LET a == Strtol(s) IN
    IF a.rest = <<>> \/ Head(a.rest) # delim THEN [ok |-> FALSE, first |-> -1, second |-> -1, rest |-> s]
    ELSE LET b == Strtol(Tail(a.rest))
         IN  [ok |-> TRUE, first |-> a.value, second |-> b.value, rest |-> b.rest]

\* The sizes up to the first that is malformed.
ParseSizesList(s) ==
    LET p == ParsePair(s, "x") IN
    IF ~p.ok \/ (p.rest # <<>> /\ Head(p.rest) # ",") THEN <<>>
    ELSE <<<<p.first, p.second>>>> \o IF p.rest = <<>> THEN <<>> ELSE ParseSizesList(Tail(p.rest))

Upto(s, c) == CHOOSE i \in 1..Len(s) + 1 : /\ i = Len(s) + 1 \/ s[i] = c
                                           /\ \A j \in 1..i - 1 : s[j] # c

\* The pairs of unflatten(), in the order of the string: what follows the last
\* "k=v", and a key without "=", is dropped.
Pairs(s) ==
    LET eq == Upto(s, "=") IN
    IF eq > Len(s) THEN <<>>
    ELSE LET rest == SubSeq(s, eq + 1, Len(s))
             end == Upto(rest, ";")
         IN  <<<<SubSeq(s, 1, eq - 1), SubSeq(rest, 1, end - 1)>>>>
             \o IF end > Len(rest) THEN <<>> ELSE Pairs(SubSeq(rest, end + 1, Len(rest)))

\* flatten()
Flatten(pairs) ==
    FlattenSeq([i \in DOMAIN pairs |-> pairs[i][1] \o <<"=">> \o pairs[i][2]
                                       \o IF i = Len(pairs) THEN <<>> ELSE <<";">>])

\* The order of the keys of the sorted map does not matter here.
SortedPairs(m) == LET ks == SetToSeq(DOMAIN m) IN [i \in DOMAIN ks |-> <<ks[i], m[ks[i]]>>]
Collect(pairs) == [k \in {p[1] : p \in ToSet(pairs)} |->
                     LET last == CHOOSE i \in DOMAIN pairs :
                                    pairs[i][1] = k /\ \A j \in i + 1..Len(pairs) : pairs[j][1] # k
                     IN  pairs[last][2]]

-----------------------------------------------------------------------------
(* Operations *)

Reserved(s) == {"=", ";"} \cap ToSet(s) # {}

Without(l, k) == SelectSeq(l, LAMBDA p : p[1] # k)

\* replaceValueFor() that leaves a key where it was first set.
ReplaceValueFor_InPlace(l, k, v) ==
    IF \E p \in ToSet(l) : p[1] = k
    THEN [i \in DOMAIN l |-> IF l[i][1] = k THEN <<k, v>> ELSE l[i]]
    ELSE Append(l, <<k, v>>)

\* OrderedKeyedVector::replaceValueFor(): a key set again moves to the end.
ReplaceValueFor(l, k, v) == Append(Without(l, k), <<k, v>>)

\* set(), which refuses what would not survive the flattening.
Set(k, v) ==
    /\ sets < MaxSets
    /\ sets' = sets + 1
    /\ IF Reserved(k) \/ Reserved(v)
       THEN UNCHANGED <<map, list, lastSet>>
       ELSE /\ map' = (k :> v) @@ map
            /\ list' = ReplaceValueFor(list, k, v)
            /\ lastSet' = (k :> [value |-> v, at |-> sets]) @@ lastSet

SetPreviewSize(w, h) == Set(KEY_PREVIEW_SIZE, FormatPair(w, h))

\* The HAL announces two sizes.
SetSupported(w, h) ==
    Set(KEY_SUPPORTED_PREVIEW_SIZES, FormatPair(w, h) \o <<",">> \o FormatPair(h, w))

\* remove()
RemoveKey(k) ==
    /\ k \in DOMAIN lastSet
    /\ map' = [x \in DOMAIN map \ {k} |-> map[x]]
    /\ list' = Without(list, k)
    /\ lastSet' = [x \in DOMAIN lastSet \ {k} |-> lastSet[x]]
    /\ UNCHANGED sets

\* The object is flattened on one side of the binder and unflattened on the other.
Transfer ==
    /\ map' = Collect(Pairs(Flatten(SortedPairs(map))))
    /\ list' = Pairs(Flatten(list))
    /\ UNCHANGED <<lastSet, sets>>

Next ==
    \/ \E k \in Keys, v \in Values : Set(k, v)
    \/ \E w, h \in Numbers : SetPreviewSize(w, h) \/ SetSupported(w, h)
    \/ \E k \in Keys \cup {KEY_PREVIEW_SIZE} : RemoveKey(k)
    \/ Transfer

Spec == Init /\ [][Next]_vars

\* get() of each class: CameraParameters takes an empty value for none.
Get(k) == IF k \in DOMAIN map THEN map[k] ELSE <<>>
Get2(k) == LET at == SelectInSeq(list, LAMBDA p : p[1] = k) IN IF at = 0 THEN <<>> ELSE list[at][2]

GetPreviewSize(s) == LET p == ParsePair(s, "x") IN <<p.first, p.second>>

-----------------------------------------------------------------------------
(* Properties *)

\* Whatever is set, removed and sent to the other side, an object holds the last
\* value of each key, and CameraParameters2 holds the keys in the order in which
\* they were last set ("Keys that are set() later are stored later in the map"),
\* which compareSetOrder() answers from.
SettingsSurvive ==
    /\ map = [k \in DOMAIN lastSet |-> lastSet[k].value]
    /\ ToSet(list) = {<<k, lastSet[k].value>> : k \in DOMAIN lastSet}
    /\ \A i, j \in DOMAIN list : i < j => lastSet[list[i][1]].at < lastSet[list[j][1]].at

\* A size that setPreviewSize() formatted, and the list of sizes of the HAL, are
\* parsed back to the numbers they were made from, by both classes.
SizesReadBack ==
    \A w, h \in Numbers :
       /\ KEY_PREVIEW_SIZE \in DOMAIN lastSet /\ lastSet[KEY_PREVIEW_SIZE].value = FormatPair(w, h)
          => /\ GetPreviewSize(Get(KEY_PREVIEW_SIZE)) = <<w, h>>
             /\ GetPreviewSize(Get2(KEY_PREVIEW_SIZE)) = <<w, h>>
       /\ KEY_SUPPORTED_PREVIEW_SIZES \in DOMAIN lastSet
          /\ lastSet[KEY_SUPPORTED_PREVIEW_SIZES].value = FormatPair(w, h) \o <<",">> \o FormatPair(h, w)
          => /\ ParseSizesList(Get(KEY_SUPPORTED_PREVIEW_SIZES)) = << <<w, h>>, <<h, w>> >>
             /\ ParseSizesList(Get2(KEY_SUPPORTED_PREVIEW_SIZES)) = << <<w, h>>, <<h, w>> >>
=============================================================================
