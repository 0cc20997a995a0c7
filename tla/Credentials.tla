---------------------------- MODULE Credentials ----------------------------
(***************************************************************************)
(* The values that travel between a client, the keyserver and a service    *)
(* behind an AuthorizationHandler, as far as the handlers tell them apart. *)
(***************************************************************************)

\* The body of a request to the keyserver; any other body is a JSON
\* document of claims, a function from claim names to values.
NoBody     == [body |-> "nil"]
Unreadable == [body |-> "unreadable"]
Empty      == [body |-> "empty"]
NotJSON    == [body |-> "not JSON"]

IsDocument(body) == body \notin {NoBody, Unreadable, Empty, NotJSON}

\* A list as a claim holds it: its Go type and its elements.  What
\* encoding/json decodes from an array is a []interface{}.
List(type, elems) == [type |-> type, elems |-> elems]

\* A query the URL parser refuses; any other is a record [kid, alg, exp, nbf].
BadQuery == [query |-> "bad"]

\* The text of a date: the form the parser finds it in, and its number.
Text(form, value) == [form |-> form, value |-> value]
Absent == Text("empty", 0)

\* The value of an authorization header: none, one that is no token, or a
\* token of a type with a value.
Missing   == [header |-> "missing"]
Malformed == [header |-> "malformed"]
Token(type, value) == [type |-> type, value |-> value]

=============================================================================
