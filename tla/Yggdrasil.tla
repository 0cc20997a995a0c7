----------------------------- MODULE Yggdrasil -----------------------------
(***************************************************************************)
(* YggdrasilClient (src/webhookStore/yggdrasil.go): the store that keeps   *)
(* the subscriptions in a remote service.  Push, Remove and GetWebhook are *)
(* one HTTP exchange each; a ticker goroutine pulls the subscriptions and  *)
(* hands them to the listener.                                             *)
(*                                                                         *)
(* A URL is the sequence of the strings it is put together from.  What is  *)
(* kept of a string is whether it holds a "%" that is not followed by two  *)
(* hex digits, which is what url.Parse refuses.                            *)
(***************************************************************************)
EXTENDS Integers, Sequences, Functions

CONSTANTS
    Clients, Ids, Secrets,
    Listeners, Nil, NoSnapshot,
    Address, Prefix,      \* YggdrasilConfig.Address, YggdrasilConfig.Prefix
    MaxCalls              \* bound: calls a client makes

VARIABLES
    remote,       \* what the remote service stores: ids to secrets
    listener,     \* c.options.listener
    seen,         \* seen[l]: the snapshot l was given last
    stopped,      \* the ticker has been stopped
    crashed,      \* a goroutine has panicked
    sent,         \* the requests that reached client.Do
    result,       \* result[c]: how c's last call ended
    calls

vars == <<remote, listener, seen, stopped, crashed, sent, result, calls>>

W == [id : Ids, secret : Secrets]

ListFormat == "%s/store/%s"
ItemFormat == "%s/store/%s/%s"

\* fmt.Sprint: the operands one after the other; no operand is a format.
Sprint(operands) == operands

\* base64.RawURLEncoding.EncodeToString: ids travel encoded.
Encoded(id) == <<"base64url", id>>

\* url.Parse, as far as http.NewRequest is concerned.
InvalidEscape(url) == \E i \in DOMAIN url : url[i] \in {ListFormat, ItemFormat}

NoError == "none"

\* http.NewRequest
NewRequest(method, url) ==
    IF InvalidEscape(url)
    THEN [err |-> "request"]
    ELSE [err |-> NoError, method |-> method, url |-> url]

\* What the remote service and the network make of a request.
Exchanges == {"200", "500", "lost", "applied-lost"}

\* c's call ends with err.
Returns(c, op, err) ==
    /\ result' = [result EXCEPT ![c] = [op |-> op, err |-> err]]
    /\ calls' = [calls EXCEPT ![c] = @ + 1]

Running(c) == ~crashed /\ calls[c] < MaxCalls

(***************************************************************************)
(* The part Push, Remove and GetWebhook share: the request is built, the   *)
(* token acquired, the request sent, the status looked at.  `effect` is    *)
(* what the service stores once the request has reached it.                *)
(***************************************************************************)
Call(c, op, method, url, effect) ==
    LET request == NewRequest(method, url) IN
    IF request.err # NoError
    THEN /\ Returns(c, op, request.err)
         /\ UNCHANGED <<remote, sent>>
    ELSE \/ /\ Returns(c, op, "acquire")
            /\ UNCHANGED <<remote, sent>>
         \/ \E x \in Exchanges :
              /\ sent' = sent \cup {request}
              /\ remote' = IF x \in {"200", "applied-lost"} THEN effect ELSE remote
              /\ Returns(c, op, CASE x = "200" -> NoError
                                  [] x = "500" -> "status"
                                  [] OTHER     -> "transport")

Push(c, w) ==
    /\ Running(c)
    /\ Call(c, "Push", "POST", Sprint(<<ItemFormat, Address, Prefix, Encoded(w.id)>>),
            [i \in DOMAIN remote \cup {w.id} |-> IF i = w.id THEN w.secret ELSE remote[i]])
    /\ UNCHANGED <<listener, seen, stopped, crashed>>

Remove(c, id) ==
    /\ Running(c)
    /\ Call(c, "Remove", "DELETE", Sprint(<<ItemFormat, Address, Prefix, id>>),
            Restrict(remote, DOMAIN remote \ {id}))
    /\ UNCHANGED <<listener, seen, stopped, crashed>>

(***************************************************************************)
(* GetWebhook: as Call, and on a 200 the body is read: from request.Body,  *)
(* which is nil for a GET, so that ioutil.ReadAll panics.                  *)
(***************************************************************************)
Fetch ==
    LET request == NewRequest("GET", Sprint(<<ListFormat, Address, Prefix>>)) IN
    IF request.err # NoError
    THEN {[err |-> request.err, sent |-> {}]}
    ELSE {[err |-> e, sent |-> IF e = "acquire" THEN {} ELSE {request}] :
              e \in {"acquire", "status", "transport", "panic"}}

GetWebhook(c) ==
    /\ Running(c)
    /\ \E f \in Fetch :
         /\ sent' = sent \cup f.sent
         /\ crashed' = (f.err = "panic")
         /\ Returns(c, "GetWebhook", f.err)
    /\ UNCHANGED <<remote, listener, seen, stopped>>

SetListener(c, l) ==
    /\ Running(c)
    /\ listener' = l
    /\ Returns(c, "SetListener", NoError)
    /\ UNCHANGED <<remote, seen, stopped, crashed, sent>>

\* Stop stops the ticker; the goroutine that ranges over it stays.
Stop(c) ==
    /\ Running(c)
    /\ stopped' = TRUE
    /\ Returns(c, "Stop", NoError)
    /\ UNCHANGED <<remote, listener, seen, crashed, sent>>

\* The ticker fires: with a listener the hooks are fetched, and handed
\* over when the fetch succeeded.
Pull ==
    /\ ~crashed /\ ~stopped
    /\ IF listener = Nil
       THEN UNCHANGED <<sent, crashed, seen>>
       ELSE \E f \in Fetch :
              /\ sent' = sent \cup f.sent
              /\ crashed' = (f.err = "panic")
              /\ seen' = IF f.err = NoError
                         THEN [seen EXCEPT ![listener] = f.hooks]
                         ELSE seen
    /\ UNCHANGED <<remote, listener, stopped, result, calls>>

Init ==
    /\ remote = <<>> /\ sent = {}
    /\ listener \in Listeners \cup {Nil}
    /\ seen = [l \in Listeners |-> NoSnapshot]
    /\ stopped = FALSE /\ crashed = FALSE
    /\ result = [c \in Clients |-> [op |-> "none", err |-> NoError]]
    /\ calls = [c \in Clients |-> 0]

Next ==
    \/ \E c \in Clients :
          \/ \E w \in W : Push(c, w)
          \/ \E id \in Ids : Remove(c, id)
          \/ \E l \in Listeners : SetListener(c, l)
          \/ GetWebhook(c)
          \/ Stop(c)
    \/ Pull

Spec == Init /\ [][Next]_vars

-----------------------------------------------------------------------------
(***************************************************************************)
(* Spec section 4.7: Push issues POST {address}/store/{prefix}/{id}, and   *)
(* what it reports are the failures of the exchange (no token, no answer,  *)
(* a status other than 200).  A Push that has returned has either sent its *)
(* request or failed to acquire a token (yggdrasil.go:114-131).            *)
(***************************************************************************)
PushIssuesRequest ==
    \A c \in Clients :
        result[c].op = "Push" =>
            \/ result[c].err = "acquire"
            \/ \E r \in sent : r.method = "POST"

=============================================================================
