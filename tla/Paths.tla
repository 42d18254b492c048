------------------------------- MODULE Paths -------------------------------
(***************************************************************************)
(* Paths of configuration, pkg/target/util.go: how SetIntent reads the     *)
(* path of a Config blob, and how paths are printed and joined.            *)
(*                                                                         *)
(* A string is a sequence of characters, those that mean something and two *)
(* that do not.  A path is an origin and a sequence of elements, each with *)
(* a name and a map from keys to values.                                   *)
(***************************************************************************)
EXTENDS Naturals, Sequences, FiniteSets, SequencesExt

\* In the order of their codes
Alphabet == <<"/", ":", "=", "[", "\\", "]", "a", "b">>
Char == ToSet(Alphabet)

Malformed == [ok |-> FALSE]
Path(origin, elem) == [ok |-> TRUE, origin |-> origin, elem |-> elem]
NoKeys == [k \in {} |-> <<>>]
With(kvs, key, value) == [k \in DOMAIN kvs \cup {key} |-> IF k = key THEN value ELSE kvs[k]]

Positions(s, c) == {i \in DOMAIN s : s[i] = c}

\* A bracket that is not escaped: each scanner compares with the rune before.
Bracket(s, i) == s[i] \in {"[", "]"} /\ (i > 1 => s[i - 1] # "\\")

-----------------------------------------------------------------------------
(* Parsing *)

\* Mutant: the escapes stay.
KeepEscapes(s) == s

\* escapedBracketsReplacer
Unescape(s) ==
  LET kept[i \in 0..Len(s)] ==
        IF i = 0 THEN <<>>
        ELSE IF s[i] = "\\" /\ i < Len(s) /\ s[i + 1] \in {"[", "]"} THEN kept[i - 1]
        ELSE Append(kept[i - 1], s[i])
  IN kept[Len(s)]

\* Mutant: an empty value passes.
KeyWithoutValue(text) ==
  LET eq == Positions(text, "=") IN
  IF eq = {} \/ Min(eq) = 1 THEN Malformed
  ELSE [ok |-> TRUE,
        key |-> Unescape(SubSeq(text, 1, Min(eq) - 1)),
        value |-> Unescape(SubSeq(text, Min(eq) + 1, Len(text)))]

\* The text between the brackets is split at its first "=".
KeyOf(text) ==
  LET eq == Positions(text, "=") IN
  IF eq = {} \/ Min(eq) \in {1, Len(text)} THEN Malformed
  ELSE [ok |-> TRUE,
        key |-> Unescape(SubSeq(text, 1, Min(eq) - 1)),
        value |-> Unescape(SubSeq(text, Min(eq) + 1, Len(text)))]

\* What is between the keys, or behind them, is skipped; the last of two equal
\* keys counts.  One turn of the loop of parseXPathKeys:
KeysTurn(s, state, i) ==
  CASE ~state.ok \/ ~Bracket(s, i) -> state
    [] state.ok /\ Bracket(s, i) /\ s[i] = "[" ->
         IF state.inKey THEN [state EXCEPT !.ok = FALSE]
         ELSE [state EXCEPT !.inKey = TRUE, !.start = i + 1]
    [] state.ok /\ Bracket(s, i) /\ s[i] # "[" ->
         LET kv == KeyOf(SubSeq(s, state.start, i - 1)) IN
         IF ~state.inKey \/ ~kv.ok THEN [state EXCEPT !.ok = FALSE]
         ELSE [state EXCEPT !.inKey = FALSE, !.kvs = With(@, kv.key, kv.value)]

ScanKeys(s) ==
  LET scan[i \in 0..Len(s)] ==
        IF i = 0 THEN [ok |-> TRUE, inKey |-> FALSE, start |-> 1, kvs |-> NoKeys]
        ELSE KeysTurn(s, scan[i - 1], i)
  IN scan[Len(s)]

ParseXPathKeys(s) ==
  LET end == ScanKeys(s) IN
  IF end.ok /\ ~end.inKey THEN [ok |-> TRUE, kvs |-> end.kvs] ELSE Malformed

\* An element that starts with a bracket is all name.
ToPathElem(s) ==
  LET open == {i \in Positions(s, "[") : Bracket(s, i)}
      idx  == Min(open)
      keys == ParseXPathKeys(SubSeq(s, idx, Len(s)))
  IN IF open = {} \/ 1 \in open THEN [ok |-> TRUE, elem |-> [name |-> s, key |-> NoKeys]]
     ELSE IF ~keys.ok THEN Malformed
     ELSE [ok |-> TRUE, elem |-> [name |-> SubSeq(s, 1, idx - 1), key |-> keys.kvs]]

\* A slash separates elements unless it is inside a key; empty ones are dropped.
\* One turn of the loop of toPathElems:
ElemsTurn(p, state, i) ==
  CASE ~state.ok -> state
    [] state.ok /\ Bracket(p, i) ->
         IF state.inKey = (p[i] = "[") THEN [state EXCEPT !.ok = FALSE]
         ELSE [state EXCEPT !.inKey = ~@]
    [] state.ok /\ p[i] = "/" /\ ~state.inKey ->
         [state EXCEPT !.start = i + 1,
                       !.elems = IF state.start = i THEN @
                                 ELSE Append(@, SubSeq(p, state.start, i - 1))]
    [] OTHER -> state

ScanElems(p) ==
  LET scan[i \in 0..Len(p)] ==
        IF i = 0 THEN [ok |-> TRUE, inKey |-> FALSE, start |-> 1, elems |-> <<>>]
        ELSE ElemsTurn(p, scan[i - 1], i)
  IN scan[Len(p)]

Slashed(p) == IF p # <<>> /\ Last(p) = "/" THEN p ELSE Append(p, "/")

ToPathElems(p) ==
  LET end    == ScanElems(Slashed(p))
      parsed == [i \in DOMAIN end.elems |-> ToPathElem(end.elems[i])]
  IN IF ~end.ok \/ end.inKey \/ \E i \in DOMAIN parsed : ~parsed[i].ok THEN Malformed
     ELSE Path(<<>>, [i \in DOMAIN parsed |-> parsed[i].elem])

\* Up to the first colon, if a slash or nothing follows it and none precedes it
HasOrigin(p) ==
  LET colon == Positions(p, ":") IN
  /\ colon # {} /\ p[1] # "/"
  /\ \A i \in 1..(Min(colon) - 1) : p[i] # "/"
  /\ Min(colon) < Len(p) => p[Min(colon) + 1] = "/"

ParsePath(p) ==
  IF p # <<>> /\ HasOrigin(p)
  THEN LET idx == Min(Positions(p, ":"))
           q   == ToPathElems(SubSeq(p, idx + 1, Len(p)))
       IN IF q.ok THEN [q EXCEPT !.origin = SubSeq(p, 1, idx - 1)] ELSE Malformed
  ELSE ToPathElems(p)

-----------------------------------------------------------------------------
(* Printing *)

\* Mutant: the value first.
SwappedKeyStrings(key) ==
  {FlattenSeq([i \in DOMAIN order |-> <<"[">> \o key[order[i]] \o <<"=">> \o order[i] \o <<"]">>]) :
     order \in SetToSeqs(DOMAIN key)}

\* The range over the keys of an element has any order.  Nothing is escaped.
KeyStrings(key) ==
  {FlattenSeq([i \in DOMAIN order |-> <<"[">> \o order[i] \o <<"=">> \o key[order[i]] \o <<"]">>]) :
     order \in SetToSeqs(DOMAIN key)}

ElemStrings(e, noKeys) == {e.name \o ks : ks \in IF noKeys THEN {<<>>} ELSE KeyStrings(e.key)}

\* All strings ToXPath may return.  The origin has a colon and no slash.
ToXPath(path, noKeys) ==
  LET prefix == IF path.origin = <<>> THEN <<>> ELSE Append(path.origin, ":")
      n == Len(path.elem)
      printed[i \in 0..n] ==
        IF i = 0 THEN {prefix}
        ELSE UNION {{s \o e \o (IF i # n THEN <<"/">> ELSE <<>>) :
                       e \in ElemStrings(path.elem[i], noKeys)} : s \in printed[i - 1]}
  IN printed[n]

\* sort.Strings
Code(c) == CHOOSE i \in DOMAIN Alphabet : Alphabet[i] = c
Less(s, t) ==
  \E i \in 0..Len(s) :
    /\ i <= Len(t) /\ \A j \in 1..i : s[j] = t[j]
    /\ i < Len(t)
    /\ i < Len(s) => Code(s[i + 1]) < Code(t[i + 1])

SortedVals(key) ==
  LET ks == CHOOSE ks \in SetToSeqs(DOMAIN key) : \A i, j \in DOMAIN ks : i < j => Less(ks[i], ks[j])
  IN [i \in DOMAIN ks |-> key[ks[i]]]

\* The fields of path.Target are left out: ParsePath never sets it.
ToStrings(path, prefix, noKeys) ==
  (IF prefix /\ path.origin # <<>> THEN <<path.origin>> ELSE <<>>)
  \o FlattenSeq([i \in DOMAIN path.elem |->
       <<path.elem[i].name>> \o IF noKeys THEN <<>> ELSE SortedVals(path.elem[i].key)])

\* Mutant: the elements of the prefix are lost under an origin of its own.
CompleteFromOrigin(prefix, path) ==
  LET front == IF prefix.origin # <<>> THEN <<prefix.origin>> ELSE ToStrings(prefix, FALSE, FALSE)
  IN [ok |-> TRUE, strings |-> front \o ToStrings(path, FALSE, FALSE)]

CompletePath(prefix, path) ==
  LET indexed == ToStrings(prefix, FALSE, FALSE)
      joined(front) == [ok |-> TRUE, strings |-> front \o ToStrings(path, FALSE, FALSE)]
  IN CASE prefix.origin # <<>> /\ path.origin # <<>> -> Malformed
       [] prefix.origin # <<>> /\ path.origin = <<>> -> joined(<<prefix.origin>> \o indexed)
       [] prefix.origin = <<>> /\ path.origin # <<>> ->
            IF indexed # <<>> THEN Malformed ELSE joined(<<path.origin>>)
       [] OTHER -> joined(indexed)

-----------------------------------------------------------------------------
(* What is expected *)

\* The strings that denote a path, said without scanning: the brackets that are
\* not escaped alternate, and in every element that has a name before them each
\* pair holds a key, "=" and a value.
WellFormed(p) ==
  LET q == IF p # <<>> /\ HasOrigin(p) THEN SubSeq(p, Min(Positions(p, ":")) + 1, Len(p)) ELSE p
      brackets == {i \in DOMAIN q : Bracket(q, i)}
      UpTo(i)  == Cardinality({j \in brackets : j <= i})
      Start(i) == 1 + Max({0} \cup {j \in 1..(i - 1) : q[j] = "/" /\ UpTo(j) % 2 = 0})
      Close(i) == Min({j \in brackets : j > i})
      Text(i)  == SubSeq(q, i + 1, Close(i) - 1)
  IN /\ Cardinality(brackets) % 2 = 0
     /\ \A i \in brackets : (q[i] = "[") <=> (UpTo(i) % 2 = 1)
     /\ \A i \in brackets :
          q[i] = "[" /\ Start(i) \notin brackets =>
            \E e \in 2..(Len(Text(i)) - 1) :
              Text(i)[e] = "=" /\ \A d \in 1..(e - 1) : Text(i)[d] # "="

\* A string for a path, with brackets in keys and values escaped.
Escape(s) ==
  FlattenSeq([i \in DOMAIN s |-> IF s[i] \in {"[", "]"} THEN <<"\\", s[i]>> ELSE <<s[i]>>])

Render(path) ==
  (IF path.origin = <<>> THEN <<>> ELSE Append(path.origin, ":"))
  \o FlattenSeq([i \in DOMAIN path.elem |->
       LET key == path.elem[i].key
           ks  == SetToSeq(DOMAIN key)
       IN <<"/">> \o path.elem[i].name
          \o FlattenSeq([j \in DOMAIN ks |->
               <<"[">> \o Escape(ks[j]) \o <<"=">> \o Escape(key[ks[j]]) \o <<"]">>])])

\* ToXPath loses the escapes of brackets.
Printable(path) ==
  \A i \in DOMAIN path.elem : \A k \in DOMAIN path.elem[i].key :
    \A c \in {"[", "]"} : Positions(k, c) \cup Positions(path.elem[i].key[k], c) = {}

-----------------------------------------------------------------------------
(* A string that is typed, and two paths that are chosen *)

CONSTANTS
  Seed, MaxTyped,      \* the strings typing starts from, and how much is added
  Origin, Elem,        \* origins and elements of paths
  PrefixElem,          \* elements of prefixes
  MaxElems             \* bound on the elements of a path

\* What can be written at all.  A slash ends a name and a bracket that is not
\* escaped opens a key; the first "=" ends the key, and a backslash before the
\* bracket that closes it would escape it.
IsElem(e) ==
  /\ e = [name |-> e.name, key |-> [k \in DOMAIN e.key |-> e.key[k]]]
  /\ e.name \in Seq(Char) /\ e.name # <<>> /\ Positions(e.name, "/") = {}
  /\ \A i \in DOMAIN e.name : ~Bracket(e.name, i)
  /\ IsFiniteSet(DOMAIN e.key) /\ (DOMAIN e.key # {} => Last(e.name) # "\\")
  /\ \A k \in DOMAIN e.key :
       /\ k \in Seq(Char) /\ k # <<>> /\ Positions(k, "=") = {}
       /\ e.key[k] \in Seq(Char) /\ e.key[k] # <<>> /\ Last(e.key[k]) # "\\"

IsOrigin(o) == o \in Seq(Char) /\ Positions(o, ":") \cup Positions(o, "/") = {}

ASSUME PathsAssumption ==
  /\ Seed \subseteq Seq(Char) /\ MaxTyped \in Nat /\ MaxElems \in Nat
  /\ \A o \in Origin : IsOrigin(o)
  /\ \A e \in Elem \cup PrefixElem : IsElem(e)

VARIABLES input, prefix, path
pvars == <<input, prefix, path>>

PathsUpTo(n, elems) == {Path(x[1], x[2]) : x \in Origin \X UNION {[1..i -> elems] : i \in 0..n}}
NoPath == Path(<<>>, <<>>)

PathsInit == input \in Seed /\ prefix = NoPath /\ path = NoPath

Type ==
  /\ \E s \in Seed : IsPrefix(s, input) /\ Len(input) < Len(s) + MaxTyped
  /\ \E c \in Char : input' = Append(input, c)
  /\ UNCHANGED <<prefix, path>>

Choose ==
  /\ path = NoPath
  /\ prefix' \in PathsUpTo(1, PrefixElem) /\ path' \in PathsUpTo(MaxElems, Elem)
  /\ UNCHANGED input

PathsSpec == PathsInit /\ [][Type \/ Choose]_pvars

\* ParsePath takes a string exactly when it is one for a path: its two scanners,
\* one over the string and one over each element, agree with a grammar that does
\* not scan on where brackets open and close (ParsePath, toPathElems,
\* parseXPathKeys).
AcceptsWellFormed == ParsePath(input).ok <=> WellFormed(input)

\* What ParsePath has made of a string is what it makes of every form ToXPath
\* prints of it, in whatever order the keys come out, unless a key or a value has
\* brackets, whose escapes ToXPath loses, or there is an origin (ToXPath).
PrintsBack ==
  \A q \in {ParsePath(input)} :
    q.ok /\ q.origin = <<>> /\ Printable(q) =>
      \A x \in ToXPath(q, FALSE) : ParsePath(<<"/">> \o x) = q

\* A path comes back from the string that is written for it, whatever slashes,
\* brackets, colons and equal signs are in its values (ParsePath).
RoundTrip == ParsePath(Render(path)) = path

\* Completing a path under a prefix gives the strings of the joined path with its
\* one origin in front, and is refused when that would be ambiguous: two origins,
\* or an origin behind elements of the prefix (CompletePath).
CompletesToJoin ==
  LET done    == CompletePath(prefix, path)
      origin  == IF prefix.origin # <<>> THEN prefix.origin ELSE path.origin
      refused == path.origin # <<>> /\ (prefix.origin # <<>> \/ prefix.elem # <<>>)
  IN /\ done.ok <=> ~refused
     /\ done.ok => done.strings = ToStrings(Path(origin, prefix.elem \o path.elem), TRUE, FALSE)
=============================================================================
