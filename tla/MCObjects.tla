------------------------------ MODULE MCObjects ------------------------------
(* Three parts of the library that no thread and no kernel takes part in.  *)
(* They share nothing, so a behaviour is that of one of them, the subject.  *)
(* Generators: callers of every kind with coroutines of up to three yields  *)
(* that return or throw, and careful callers of fibonacci_sequence around   *)
(* its limit.  Requests: bad first lines, a message in HTTP's form (each    *)
(* line with "\r"), and the form the code accepts, with headers good and    *)
(* bad.  Templates: of up to two segments, with parameters alone, repeated, *)
(* and within a segment; some segments are empty.                          *)
EXTENDS Fibonacci, Request, Template

VARIABLE subject

CONSTANTS v1, v2, o1, o2, id, name

\* Generators.
MCObjects == {o1, o2}
Short == [values : SeqOf({v1, v2}, 3), throws : BOOLEAN, range : {{v1, v2}}]
MCUses ==
  [body : Short, habits : {{}, {"blind", "catches", "copies"}}]
    \cup [body : {fibonacci_sequence(n) : n \in 0 .. 4 \cup 93 .. 97}, habits : {{}}]

\* Requests.
Line(kind) == [kind |-> kind]
Empty == Line("empty")
Cr == Line("cr")
NoColon == Line("no colon")
Header(v) == [kind |-> "header", key |-> "Host", value |-> v]
Text(first, lines) == [first |-> first, lines |-> lines]

MCValues == {"a"}
MCTexts ==
  { Text("missing", <<>>), Text("malformed", <<>>), Text("complete", <<>>),
    Text("complete", <<Header("a"), Cr, NoColon>>),
    Text("complete", <<Empty>>),
    Text("complete", <<Empty, Header("a")>>),
    Text("complete", <<Empty, Header("b"), Empty, NoColon>>),
    Text("complete", <<Empty, Header("b"), Line("ends at colon"), Empty>>),
    Text("complete", <<Empty, NoColon, Header("b"), Empty>>),
    Text("complete", <<Empty, Header("a"), Cr>>) }

\* Templates.
MCParameters == {id, name}
MCSegments == {<<>>, <<"x">>, <<id>>, <<name>>, <<"x", id>>, <<id, "x">>, <<id, name>>}
MCTemplates ==
  SeqOf(MCSegments, 1) \cup {<<g, h>> : g \in MCSegments, h \in {<<>>, <<id>>, <<name>>, <<id, "x">>}}
MCUrls == SeqOf({<<>>, <<"x">>, <<"x", "y">>, <<"y", "x", "x">>}, 2)

-----------------------------------------------------------------------------
MCInit ==
  /\ subject \in {"generator", "request", "template"}
  /\ Init /\ RequestInit /\ TemplateInit
  /\ subject # "generator" => habits = {} /\ body = fibonacci_sequence(0)
  /\ subject # "request" => path_ = "none"

MCNext ==
  /\ UNCHANGED subject
  /\ \/ subject = "generator" /\ Next /\ UNCHANGED <<requestVars, templateVars>>
     \/ subject = "request" /\ RequestNext /\ UNCHANGED <<vars, templateVars>>
     \/ subject = "template" /\ TemplateNext /\ UNCHANGED <<vars, requestVars>>

MCSpec == MCInit /\ [][MCNext]_<<vars, requestVars, templateVars, subject>>
=============================================================================
