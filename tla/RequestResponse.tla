--------------------------- MODULE RequestResponse ---------------------------
(***************************************************************************)
(* The decoder and encoder, the request functions and the response         *)
(* functions of xhttp/fanout (spec sections 4.1 to 4.3, and the cases of   *)
(* src/xhttp/fanout/requestResponse_test.go).                              *)
(*                                                                         *)
(* An http.Header is a function from canonical names to lists of values.   *)
(* A name as an application spells it is made canonical before it is       *)
(* looked up; Canonical is that conversion on the spellings in use.  A     *)
(* request or response function is a record of its kind and arguments, and *)
(* a pipeline applies its functions in the order they were declared.       *)
(***************************************************************************)
EXTENDS Sequences, SequencesExt, TLC

CONSTANTS
    Canonical,   \* textproto.CanonicalMIMEHeaderKey: spelling -> canonical name
    BodyError    \* an inbound body whose Read fails

NoHeader    == <<>>
ContentType == "Content-Type"

\* MUTANT of CopyHeader: the name is looked up as it is spelled.
CopyHeaderAsSpelled(into, from, name) ==
    IF name \in DOMAIN from /\ from[name] # <<>>
    THEN (name :> from[name]) @@ into
    ELSE into

\* One name of ForwardHeaders or ReturnHeaders: its values are copied under
\* the canonical name, when there are any.
CopyHeader(into, from, name) ==
    LET key == Canonical[name] IN
    IF key \in DOMAIN from /\ from[key] # <<>>
    THEN (key :> from[key]) @@ into
    ELSE into

CopyHeaders(names, from, into) ==
    FoldLeft(LAMBDA h, name : CopyHeader(h, from, name), into, names)

\* What the engine attaches to every replica: the body as it was read and
\* the Content-Type; neither when the body cannot be read.
DefaultDecoder(original) ==
    IF original.body = BodyError
    THEN [err |-> TRUE, body |-> <<>>, header |-> NoHeader]
    ELSE [err |-> FALSE, body |-> original.body,
          header |-> CopyHeaders(<<ContentType>>, original.header, NoHeader)]

ForwardHeaders(names) == [kind |-> "ForwardHeaders", names |-> names]
UsePath(path)         == [kind |-> "UsePath", path |-> path]
ForwardVariableAsHeader(variable, name) ==
    [kind |-> "ForwardVariableAsHeader", variable |-> variable, name |-> name]

\* The replica after the request function rf.
Forward(replica, original, rf) ==
    CASE rf.kind = "ForwardHeaders" ->
            [replica EXCEPT !.header = CopyHeaders(rf.names, original.header, @)]
      [] rf.kind = "UsePath" ->
            [replica EXCEPT !.path = rf.path, !.rawPath = ""]
      [] rf.kind = "ForwardVariableAsHeader" ->
            IF rf.variable \in DOMAIN original.vars /\ original.vars[rf.variable] # ""
            THEN [replica EXCEPT !.header = (Canonical[rf.name] :> <<original.vars[rf.variable]>>) @@ @]
            ELSE replica

\* MUTANT of NewReplica: each function starts from the engine's replica again,
\* so that only the last one's work is kept.
NewReplicaLastWins(before, original, url) ==
    Forward([header |-> DefaultDecoder(original).header, body |-> DefaultDecoder(original).body,
             path |-> url, rawPath |-> url],
            original, Last(before))

\* The replica request for the endpoint at url: the decoder's header, then
\* the request functions in their order.
NewReplica(before, original, url) ==
    FoldLeft(LAMBDA replica, rf : Forward(replica, original, rf),
             [header |-> DefaultDecoder(original).header, body |-> DefaultDecoder(original).body,
              path |-> url, rawPath |-> url],
             before)

ReturnHeaders(names) == [kind |-> "ReturnHeaders", names |-> names]

\* The caller's header after the response function rf.
Returned(header, response, rf) == CopyHeaders(rf.names, response.header, header)

DefaultEncoder(response, header) == CopyHeaders(<<ContentType>>, response.header, header)

\* The header of the answer to the caller: the response functions in their
\* order, then the encoder, all on the one response that won.
Outbound(after, response) ==
    DefaultEncoder(response,
                   FoldLeft(LAMBDA h, rf : Returned(h, response, rf), NoHeader, after))

=============================================================================
