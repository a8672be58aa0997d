------------------------------ MODULE Template ------------------------------
(***************************************************************************)
(* match() of src/dynamic.cc: a template such as /users/{id} against URLs,  *)
(* with one map of parameters that the caller keeps from call to call.      *)
(* Templates and URLs come cut at each "/" behind the first character; a    *)
(* segment of a template is its literal characters, none special in a       *)
(* regular expression, and its parameters, whose names hold no "/" and no   *)
(* brace.                                                                   *)
(***************************************************************************)
EXTENDS Naturals, Sequences, SequencesExt

CONSTANTS
  Templates,  \* sequences of segments, each a sequence of pieces
  Parameters, \* the pieces that are parameters, by name
  Urls,       \* sequences of segments, each a sequence of characters
  MaxCalls    \* bound on the calls with one map

VARIABLES
  params,  \* function from the names assigned so far to strings
  called,  \* <<template, url, found>> of the last call, or <<>>
  earlier, \* history: params before that call
  calls    \* how many there were

templateVars == <<params, called, earlier, calls>>

TemplateInit == params = <<>> /\ called = <<>> /\ earlier = <<>> /\ calls = 0

\* Where the pieces of a segment may end in a string: what the expression,
\* with ([^/]+) for each parameter, can match.
Cuts(segment, s) ==
  { cut \in [0 .. Len(segment) -> 0 .. Len(s)] :
      /\ cut[0] = 0 /\ cut[Len(segment)] = Len(s)
      /\ \A k \in 1 .. Len(segment) :
           IF segment[k] \in Parameters THEN cut[k] > cut[k - 1]
           ELSE cut[k] = cut[k - 1] + 1 /\ s[cut[k]] = segment[k] }

\* The one std::regex settles on: each capture in turn as long as can be.
Greedy(segment, s) ==
  CHOOSE c \in Cuts(segment, s) :
    \A d \in Cuts(segment, s) \ {c} :
      \E k \in DOMAIN c : c[k] > d[k] /\ \A j \in 0 .. k - 1 : c[j] = d[j]

\* The captures of a segment, in order.
Captures(segment, s) ==
  LET cut == Greedy(segment, s)
      at == SelectSeq([k \in 1 .. Len(segment) |-> k], LAMBDA k : segment[k] \in Parameters)
  IN  [i \in DOMAIN at |-> SubSeq(s, cut[at[i] - 1] + 1, cut[at[i]])]

Matches(template, url) ==
  /\ Len(template) = Len(url)
  /\ \A i \in DOMAIN template : Cuts(template[i], url[i]) # {}

\* segment.substr(1, segment.size() - 2) of one that begins with a brace: the
\* last brace goes, or the last literal while the brace before it stays.
ParamName(segment) ==
  IF Last(segment) \in Parameters THEN segment ELSE Append(Front(segment), "}")

\* Faulty variant: the first capture is match[0], the whole URL.
Assigned_FromZero(template, url) ==
  LET named == SelectSeq(template, LAMBDA g : g # <<>> /\ g[1] \in Parameters)
      match == <<FlattenSeq(url)>>
                 \o FlattenSeq([i \in DOMAIN template |-> Captures(template[i], url[i])])
  IN  [i \in DOMAIN named |-> <<ParamName(named[i]), match[i]>>]

\* The assignments, in order: the k-th segment that begins with a brace gets
\* the k-th capture.
Assigned(template, url) ==
  LET named == SelectSeq(template, LAMBDA g : g # <<>> /\ g[1] \in Parameters)
      match == FlattenSeq([i \in DOMAIN template |-> Captures(template[i], url[i])])
  IN  [i \in DOMAIN named |-> <<ParamName(named[i]), match[i]>>]

With(map, pair) ==
  [n \in DOMAIN map \cup {pair[1]} |-> IF n = pair[1] THEN pair[2] ELSE map[n]]

match(template, url) ==
  /\ params' = IF Matches(template, url)
               THEN FoldLeft(With, params, Assigned(template, url)) ELSE params
  /\ called' = <<template, url, Matches(template, url)>>
  /\ earlier' = params /\ calls' = calls + 1

TemplateNext == calls < MaxCalls /\ \E t \in Templates, u \in Urls : match(t, u)

-----------------------------------------------------------------------------
\* matchRoute(), which match() replaced: splitPath() drops empty segments, and
\* what begins with a brace matches any segment.
SplitPath(path) == SelectSeq(path, LAMBDA g : g # <<>>)
RouteMatches(template, url) ==
  LET segments == SplitPath(template)
      pathSegments == SplitPath(url)
  IN  /\ Len(segments) = Len(pathSegments)
      /\ \A i \in DOMAIN segments :
           segments[i][1] \in Parameters \/ segments[i] = pathSegments[i]

IsParameter(segment) == Len(segment) = 1 /\ segment[1] \in Parameters
Literal(segment) == \A k \in DOMAIN segment : segment[k] \notin Parameters

(* Where matchRoute() and match() promise the same, they answer the same:   *)
(* if each segment of the template is one parameter or literal and none is  *)
(* empty, match() accepts what matchRoute() does and only refuses in        *)
(* addition the URLs with an empty segment, as /x/ and //x (lines 22-49,    *)
(* 61-71, 103-110).                                                         *)
AnswersAsMatchRoute(t, u, found) ==
  (\A i \in DOMAIN t : t[i] # <<>> /\ (IsParameter(t[i]) \/ Literal(t[i])))
    => (found <=> RouteMatches(t, u) /\ \A i \in DOMAIN u : u[i] # <<>>)

\* The longest text at the head of string s that leaves the rest to the pieces
\* behind the parameter a segment begins with.
Own(segment, s) ==
  SubSeq(s, 1, CHOOSE n \in 1 .. Len(s) :
                 /\ Cuts(Tail(segment), SubSeq(s, n + 1, Len(s))) # {}
                 /\ \A m \in n + 1 .. Len(s) : Cuts(Tail(segment), SubSeq(s, m + 1, Len(s))) = {})

\* Every parameter before segment i is the head of a segment, and thus named.
Straight(t, i) ==
  \A j \in 1 .. i - 1 : \A k \in DOMAIN t[j] : t[j][k] \in Parameters => k = 1

(* The names a call assigns, the last place counting where one is repeated: *)
(* the name of a segment that begins with a parameter gets the text that    *)
(* parameter stands for, unless one before it is within a segment, as in    *)
(* /x{id}/{name}, where the name gets text of an earlier segment; never of  *)
(* a later one.  All else the caller's map holds stays, and a call that     *)
(* fails changes nothing (lines 110-126).                                   *)
NamesGetTheirText ==
  called # <<>> =>
    LET t == called[1]
        u == called[2]
        found == called[3]
        Begins(i) == t[i] # <<>> /\ t[i][1] \in Parameters
        Named(n) == {i \in DOMAIN t : found /\ Begins(i) /\ ParamName(t[i]) = n}
        Place(n) == CHOOSE i \in Named(n) : \A j \in Named(n) : j <= i
        Parts(s) == {SubSeq(s, a, b) : a, b \in 1 .. Len(s)} \ {<<>>}
    IN  /\ AnswersAsMatchRoute(t, u, found)
        /\ DOMAIN params =
             DOMAIN earlier \cup {ParamName(t[i]) : i \in {j \in DOMAIN t : found /\ Begins(j)}}
        /\ \A n \in DOMAIN params :
             IF Named(n) = {} THEN params[n] = earlier[n]
             ELSE /\ Straight(t, Place(n)) => params[n] = Own(t[Place(n)], u[Place(n)])
                  /\ \E j \in 1 .. Place(n) : params[n] \in Parts(u[j])
=============================================================================
