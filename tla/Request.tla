------------------------------- MODULE Request -------------------------------
(***************************************************************************)
(* mux/Request.hpp and the HTTPHeader it holds: one Request object that is  *)
(* made, set and asked to parse() one text after another.  A text is its    *)
(* first line, by what ">>" makes of it, and the lines behind it as         *)
(* getline() returns them.                                                  *)
(***************************************************************************)
EXTENDS Naturals, Sequences, SequencesExt

CONSTANTS
  Texts,   \* records [first, lines]
  Values   \* values a setter may be called with

\* A line behind the first; only a header has a key and a value.
LineKinds == {"header", "empty", "cr", "no colon", "ends at colon"}
ASSUME TextsAssumption ==
  \A t \in Texts : /\ t.first \in {"missing", "malformed", "complete"}
                   /\ \A i \in DOMAIN t.lines : t.lines[i].kind \in LineKinds

VARIABLES
  method_, protocol_, body_,
  path_,    \* a view: "none", "relative" or "absolute" (of a live string of
            \* the caller), or "dangling"
  query_,   \* with hashFragment_, assigned beside it
  host_,    \* with port_, which comes from the same header
  headers_, \* function from the keys present to values
  outcome,  \* of the last call: "none", "parsed", what parse() threw, "undefined"
  given     \* history: a path was given since a text last got past its URL

fields == <<method_, protocol_, body_, path_, query_, host_, headers_>>
requestVars == <<fields, outcome, given>>

Nothing == ""  \* an empty std::string
WithHeader(h, key, value) == [k \in DOMAIN h \cup {key} |-> IF k = key THEN value ELSE h[k]]

\* Request(int); Request(const ParsedRequest&) takes the path of the caller.
RequestInit ==
  /\ method_ = Nothing /\ protocol_ = Nothing /\ body_ = Nothing
  /\ path_ \in {"none", "relative", "absolute"}
  /\ query_ = Nothing /\ host_ = Nothing /\ headers_ = <<>>
  /\ outcome = "none" /\ given = (path_ # "none")

-----------------------------------------------------------------------------
\* headers[key], which inserts an empty string where there is none; "Host" is
\* the one key whose value is ever used.
HostHeader == IF "Host" \in DOMAIN headers_ THEN headers_["Host"] ELSE Nothing

\* The setters.
setPath ==
  /\ outcome # "undefined" /\ outcome' = "none"
  /\ path_' \in {"relative", "absolute"} /\ given' = TRUE
  /\ UNCHANGED <<method_, protocol_, body_, query_, host_, headers_>>

Set ==
  /\ outcome # "undefined" /\ outcome' = "none"
  /\ UNCHANGED <<path_, given>>
  /\ \/ \E v \in Values : method_' = v /\ UNCHANGED <<protocol_, body_, query_, host_, headers_>>
     \/ \E v \in Values : protocol_' = v /\ UNCHANGED <<method_, body_, query_, host_, headers_>>
     \/ \E v \in Values : body_' = v /\ UNCHANGED <<method_, protocol_, query_, host_, headers_>>
     \/ \E v \in Values : query_' = v /\ UNCHANGED <<method_, protocol_, body_, host_, headers_>>
     \/ \E v \in Values : host_' = v /\ UNCHANGED <<method_, protocol_, body_, query_, headers_>>

\* setHeader, getHeader (which inserts too), removeHeader and clearHeader.
UseHeaders ==
  /\ outcome # "undefined" /\ outcome' = "none"
  /\ \/ \E v \in Values : headers_' = WithHeader(headers_, "Host", v)
     \/ headers_' = WithHeader(headers_, "Host", HostHeader)
     \/ headers_' = Restrict(headers_, DOMAIN headers_ \ {"Host"})
     \/ headers_' = <<>>
  /\ UNCHANGED <<method_, protocol_, body_, path_, query_, host_, given>>

\* The string behind the path goes, or is changed.
CallersStringGoes ==
  /\ path_ \in {"relative", "absolute"} /\ outcome # "undefined"
  /\ path_' = "dangling"
  /\ UNCHANGED <<method_, protocol_, body_, query_, host_, headers_, outcome, given>>

-----------------------------------------------------------------------------
\* parse() step by step; each step is reached when those before it passed.
RequestLineOk(t) == t.first = "complete"

\* ada::parse() of this->path_, not of the path just read; it needs a scheme.
UrlOk(t) == path_ = "absolute"

\* The line behind the request line must be empty ("\r" is not).
BlankLineOk(t) == t.lines # <<>> /\ t.lines[1].kind = "empty"

\* The lines of the header loop: up to the first empty line or the end.
Blank(t) == SelectInSubSeq(t.lines, 2, Len(t.lines), LAMBDA l : l.kind = "empty")
HeaderLines(t) == SubSeq(t.lines, 2, IF Blank(t) = 0 THEN Len(t.lines) ELSE Blank(t) - 1)
Bad(lines) == SelectInSeq(lines, LAMBDA l : l.kind \in {"cr", "no colon", "ends at colon"})
Stored(lines) ==
  FoldLeft(LAMBDA h, l : WithHeader(h, l.key, l.value),
           WithHeader(headers_, "Host", HostHeader), lines)

Rejections == {"Malformed request line", "Malformed URL"}
Ends(how) ==
  /\ outcome' = how
  /\ given' = (given /\ how \in Rejections \cup {"undefined"})

\* Throws before anything is assigned.
ParseRejected(t) ==
  /\ outcome # "undefined"
  /\ \/ ~RequestLineOk(t) /\ Ends("Malformed request line")
     \/ RequestLineOk(t) /\ path_ # "dangling" /\ ~UrlOk(t) /\ Ends("Malformed URL")
  /\ UNCHANGED fields

\* A view of a string that is gone is read.
ParseUndefined(t) ==
  /\ outcome # "undefined" /\ RequestLineOk(t) /\ path_ = "dangling"
  /\ Ends("undefined") /\ UNCHANGED fields

\* Faulty variant: the object keeps the path it had.
UrlAssigned_KeepsPath == path_' = path_ /\ query_' = "of path_"

\* setPath, setQuery, setHashFragment; the path is a view into parsedUrl,
\* which does not outlive the call.
UrlAssigned == path_' = "dangling" /\ query_' = "of path_"

PastUrl(t) == outcome # "undefined" /\ RequestLineOk(t) /\ path_ # "dangling" /\ UrlOk(t)

\* The lookup of Host, before any header of the text is read, leaves an empty
\* entry behind.
ParseNoHost(t) ==
  /\ PastUrl(t) /\ HostHeader = Nothing
  /\ UrlAssigned /\ headers_' = WithHeader(headers_, "Host", Nothing)
  /\ Ends("Missing Host header")
  /\ UNCHANGED <<method_, protocol_, body_, host_>>

ParseNoBlankLine(t) ==
  /\ PastUrl(t) /\ HostHeader # Nothing /\ ~BlankLineOk(t)
  /\ UrlAssigned /\ host_' = HostHeader
  /\ Ends("Missing blank line after headers")
  /\ UNCHANGED <<method_, protocol_, body_, headers_>>

\* requestStream is good only if the loop stopped at an empty line; str() is
\* the whole text.
Body(t) == IF Blank(t) = 0 THEN body_ ELSE "whole text"

\* Faulty variant: the body is set before the headers are read.
ParseBadHeader_BodyFirst(t) ==
  /\ PastUrl(t) /\ HostHeader # Nothing /\ BlankLineOk(t) /\ Bad(HeaderLines(t)) # 0
  /\ headers_' = headers_ /\ Ends("Malformed header line")
  /\ UrlAssigned /\ host_' = HostHeader /\ body_' = Body(t)
  /\ UNCHANGED <<method_, protocol_>>

\* The headers before the bad line are stored.
ParseBadHeader(t) ==
  /\ PastUrl(t) /\ HostHeader # Nothing /\ BlankLineOk(t)
  /\ LET lines == HeaderLines(t)
         bad == Bad(lines)
     IN  /\ bad # 0
         /\ headers_' = Stored(SubSeq(lines, 1, bad - 1))
         /\ Ends(IF lines[bad].kind = "ends at colon" THEN "out_of_range" ELSE "Malformed header line")
  /\ UrlAssigned /\ host_' = HostHeader
  /\ UNCHANGED <<method_, protocol_, body_>>

ParseSucceeds(t) ==
  /\ PastUrl(t) /\ HostHeader # Nothing /\ BlankLineOk(t) /\ Bad(HeaderLines(t)) = 0
  /\ headers_' = Stored(HeaderLines(t))
  /\ UrlAssigned /\ host_' = HostHeader /\ body_' = Body(t)
  /\ Ends("parsed")
  /\ UNCHANGED <<method_, protocol_>>

parse(t) ==
  \/ ParseRejected(t) \/ ParseUndefined(t) \/ ParseNoHost(t)
  \/ ParseNoBlankLine(t) \/ ParseBadHeader(t) \/ ParseSucceeds(t)

RequestNext == setPath \/ Set \/ UseHeaders \/ CallersStringGoes \/ \E t \in Texts : parse(t)

-----------------------------------------------------------------------------
(* parse() works on the path the object already has, not on the text's: no  *)
(* URL serves two texts.  One that gets past the URL, even if parse() then  *)
(* throws, needs a path given since the last that did; an object that was   *)
(* never given one rejects every text (lines 192-218).                      *)
UrlServesOneText ==
  [][\A t \in Texts :
       (parse(t) /\ outcome' \notin Rejections \cup {"undefined"}) => given]_requestVars

(* A parse() that throws may leave another path, host and headers behind,   *)
(* but never another body (209-257).                                        *)
BodyOnlyOnSuccess ==
  [][\A t \in Texts : (parse(t) /\ outcome' # "parsed") => UNCHANGED body_]_requestVars
=============================================================================
