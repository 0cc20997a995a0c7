----------------------------- MODULE DeviceGate -----------------------------
(***************************************************************************)
(* devicegate.FilterGate and devicegate.FilterHandler                      *)
(* (src/device/devicegate/filter.go and filterHandler.go): a store of      *)
(* filters, key -> set of values, behind a read/write lock; an HTTP        *)
(* handler through which clients read, set and delete filters; and         *)
(* AllowConnection, which refuses a connecting device whose claims or      *)
(* metadata carry a filtered value.                                        *)
(*                                                                         *)
(* A value is a scalar (a member of Scalars) or a list: a set of scalars,  *)
(* which stands for a JSON array, a Go []interface{}, and cannot be the    *)
(* key of a Go map.  A device is a record [claims, map] of two functions   *)
(* from some keys to values.                                               *)
(***************************************************************************)
EXTENDS Integers, FiniteSets, Functions, TLC

CONSTANTS
    Keys,            \* the filter keys
    NoKey,           \* the empty string, as a key
    Scalars,         \* the hashable values
    Clients,         \* the goroutines serving requests of the handler
    Devices,         \* the devices that connect
    Requests,        \* the requests a client may send: [method, body]
    AllowedChoices,  \* what FilterGate.AllowedFilters may be: Nil or a set of keys
    Nil

metadataMapLocation == "metadata_map"
claimsLocation      == "claims"

\* The body of a request: one that cannot be read, one that is not the JSON
\* of a filterRequest, or a filterRequest with its Key and the set of its Values.
Unreadable == [kind |-> "unreadable"]
Malformed  == [kind |-> "malformed"]
Message(key, values) == [kind |-> "message", Key |-> key, Values |-> values]

VARIABLES
    FilterStore,     \* f.FilterStore: a function from the keys it holds to sets
    AllowedFilters,  \* f.AllowedFilters
    update,          \* update[c]: the filter c has set or deleted and not yet answered
    overtaken,       \* history: that filter was updated by another client since
    resp,            \* the response written last
    result           \* the answer of AllowConnection its caller has yet to take

vars == <<FilterStore, AllowedFilters, update, overtaken, resp, result>>

NoResponse == [status |-> 0]
NoResult   == [allow |-> Nil]
Hashable(v) == v \in Scalars

Allow == [allow |-> TRUE]

\* MUTANT of Refuse: the fields of the MatchResult are swapped.
RefuseSwapped(location, key) == [allow |-> FALSE, Location |-> key, Key |-> location]

Refuse(location, key) == [allow |-> FALSE, Location |-> location, Key |-> key]
Panic == [panic |-> TRUE]

-----------------------------------------------------------------------------
(* FilterGate *)

\* VisitAll, under the read lock: the filters a visitor is shown, in any order.
VisitAll == FilterStore

GetFilter(key) ==
    IF key \in DOMAIN FilterStore THEN [set |-> FilterStore[key], ok |-> TRUE] ELSE [set |-> Nil, ok |-> FALSE]

\* MUTANT of SetFilter: the values are added to those the key has.
SetFilterAdds(key, values) ==
    (key :> (values \cup IF GetFilter(key).ok THEN GetFilter(key).set ELSE {})) @@ FilterStore

\* The store after SetFilter(key, values): the values replace the old ones.
SetFilter(key, values) == (key :> values) @@ FilterStore

\* The store after DeleteFilter(key).
DeleteFilter(key) == Restrict(FilterStore, DOMAIN FilterStore \ {key})

GetAllowedFilters == [set |-> AllowedFilters, found |-> AllowedFilters # Nil]

\* FilterSet.Has is a map lookup: it panics on a key that cannot be hashed.
\* filterMatch gets the value as one parameter, whatever its type: the type
\* switch of its callers takes every non-nil value in its first case.
filterMatch(filterValues, param) ==
    IF ~Hashable(param) THEN "panic"
    ELSE IF param \in filterValues THEN "match" ELSE "no"

claimsMatch(keyToCheck, filterValues, m) ==
    IF keyToCheck \in DOMAIN m.claims THEN filterMatch(filterValues, m.claims[keyToCheck]) ELSE "no"

\* MUTANT of metadataMapMatch: the claims are looked at a second time.
metadataMapMatchClaims(keyToCheck, filterValues, m) == claimsMatch(keyToCheck, filterValues, m)

metadataMapMatch(keyToCheck, filterValues, m) ==
    IF keyToCheck \in DOMAIN m.map THEN filterMatch(filterValues, m.map[keyToCheck]) ELSE "no"

Continue == [continue |-> TRUE]

\* One iteration of AllowConnection's loop: how it ends the loop, or Continue.
visitFilter(filterKey, m) ==
    LET inClaims == claimsMatch(filterKey, FilterStore[filterKey], m)
        inMap    == metadataMapMatch(filterKey, FilterStore[filterKey], m)
    IN  CASE inClaims = "panic" -> Panic
          [] inClaims = "match" -> Refuse(metadataMapLocation, filterKey)
          [] inMap = "panic"    -> Panic
          [] inMap = "match"    -> Refuse(claimsLocation, filterKey)
          [] OTHER              -> Continue

(***************************************************************************)
(* AllowConnection, under the read lock: the loop visits the filters in    *)
(* the order of a Go map, which is any order, and ends at the first filter *)
(* that matches or panics.  The operator is the set of its outcomes.       *)
(***************************************************************************)
AllowConnection(m) ==
    LET ends == {visitFilter(k, m) : k \in DOMAIN FilterStore} \ {Continue}
    IN  IF ends = {} THEN {Allow} ELSE ends

-----------------------------------------------------------------------------
(* FilterHandler *)

Updating == {"POST", "PUT", "DELETE"}
IsMessage(body) == body.kind = "message"

\* MUTANT of Rejects: the values and the allowed filters are checked for
\* POST only.
RejectsPostOnly(r) ==
    IsMessage(r.body) =>
        \/ r.body.Key = NoKey
        \/ /\ r.method = "POST"
           /\ \/ r.body.Values = {}
              \/ GetAllowedFilters.found /\ r.body.Key \notin GetAllowedFilters.set

\* The checks of ServeHTTP that end an updating request with 400: a body
\* that is no filterRequest, no key, and for POST and PUT no values or a key
\* that is not allowed.
Rejects(r) ==
    IsMessage(r.body) =>
        \/ r.body.Key = NoKey
        \/ /\ r.method \in {"POST", "PUT"}
           /\ \/ r.body.Values = {}
              \/ GetAllowedFilters.found /\ r.body.Key \notin GetAllowedFilters.set

Init ==
    /\ FilterStore = <<>>
    /\ AllowedFilters \in AllowedChoices
    /\ update = [c \in Clients |-> Nil]
    /\ overtaken = [c \in Clients |-> FALSE]
    /\ resp = NoResponse
    /\ result = NoResult

\* The answer with the filters as they are now: filtersToString visits the
\* store under the read lock.  Only GET sets the Content-Type before the
\* header is written.
Filters(status, contentType) ==
    [status |-> status, contentType |-> contentType, filters |-> VisitAll]

\* A request that changes no filter is answered in one step.
Answers(c, response) ==
    /\ update[c] = Nil
    /\ resp' = response
    /\ UNCHANGED <<FilterStore, AllowedFilters, update, overtaken, result>>

\* ServeHTTP of a GET.
ServeGet(c, r) == r.method = "GET" /\ Answers(c, Filters(200, "application/json"))

\* ServeHTTP of a method it does not know: nothing is written.
ServeOther(c, r) == r.method \notin Updating \cup {"GET"} /\ Answers(c, [status |-> 200])

\* ServeHTTP of a POST, PUT or DELETE that fails one of the checks.
ServeRejected(c, r) == r.method \in Updating /\ Rejects(r) /\ Answers(c, [status |-> 400])

\* c has left the gate with the store changed at key: values is what it
\* set, Nil when it deleted.  Whoever was between its own update of that key
\* and its answer has been overtaken.
Updated(c, key, values) ==
    /\ update' = [update EXCEPT ![c] = [Key |-> key, Values |-> values]]
    /\ overtaken' = [d \in Clients |->
                        /\ d # c
                        /\ update[d] # Nil
                        /\ overtaken[d] \/ update[d].Key = key]
    /\ UNCHANGED <<AllowedFilters, resp, result>>

\* ServeHTTP of a POST or PUT that passes the checks, up to the end of
\* SetFilter.  A value that cannot be hashed makes SetFilter panic before it
\* changes the store; the deferred Unlock runs and the server drops the
\* connection.
ServeSet(c, r) ==
    /\ r.method \in {"POST", "PUT"}
    /\ ~Rejects(r)
    /\ IF \A v \in r.body.Values : Hashable(v)
       THEN /\ update[c] = Nil
            /\ FilterStore' = SetFilter(r.body.Key, r.body.Values)
            /\ Updated(c, r.body.Key, r.body.Values)
       ELSE Answers(c, [status |-> 0, panic |-> TRUE])

\* ServeHTTP of a DELETE that passes the checks, up to the end of DeleteFilter.
ServeDelete(c, r) ==
    /\ update[c] = Nil
    /\ r.method = "DELETE"
    /\ ~Rejects(r)
    /\ FilterStore' = DeleteFilter(r.body.Key)
    /\ Updated(c, r.body.Key, Nil)

\* The rest of an update: the filters are read again, and written with a
\* Content-Type that is set after WriteHeader and so never sent.
Respond(c) ==
    /\ update[c] # Nil
    /\ resp' = Filters(200, "")
    /\ update' = [update EXCEPT ![c] = Nil]
    /\ overtaken' = [overtaken EXCEPT ![c] = FALSE]
    /\ UNCHANGED <<FilterStore, AllowedFilters, result>>

\* A device connects and the gate is asked.
Connect(d) ==
    /\ result = NoResult
    /\ result' \in AllowConnection(d)
    /\ UNCHANGED <<FilterStore, AllowedFilters, update, overtaken, resp>>

\* The caller of AllowConnection takes the answer.
Connected ==
    /\ result # NoResult
    /\ result' = NoResult
    /\ UNCHANGED <<FilterStore, AllowedFilters, update, overtaken, resp>>

Next ==
    \/ \E c \in Clients, r \in Requests :
          \/ ServeGet(c, r)
          \/ ServeOther(c, r)
          \/ ServeRejected(c, r)
          \/ ServeSet(c, r)
          \/ ServeDelete(c, r)
    \/ \E c \in Clients : Respond(c)
    \/ \E d \in Devices : Connect(d)
    \/ Connected

Spec == Init /\ [][Next]_vars

-----------------------------------------------------------------------------
(* Properties *)

Outcomes ==
    {Allow, Panic} \cup [allow : {FALSE}, Location : {metadataMapLocation, claimsLocation},
                         Key : Keys]

\* The type invariant.
TypeOK ==
    /\ DOMAIN FilterStore \subseteq Keys \cup {NoKey}
    /\ \A k \in DOMAIN FilterStore : FilterStore[k] \subseteq Scalars
    /\ AllowedFilters \in AllowedChoices
    /\ update \in [Clients -> {Nil} \cup [Key : Keys, Values : {Nil} \cup SUBSET Scalars]]
    /\ overtaken \in [Clients -> BOOLEAN]
    /\ resp.status \in {0, 200, 400}
    /\ result \in Outcomes \cup {NoResult}

(***************************************************************************)
(* What the handler lets into the store: every filter has a key that is    *)
(* not empty and is one of the allowed filters when the gate has any, and  *)
(* a set of values that is not empty.  The checks of ServeHTTP are spread  *)
(* over the three updating methods; the store must be well formed whatever *)
(* sequence of POST, PUT and DELETE the clients send.                      *)
(***************************************************************************)
StoreWellFormed ==
    \A k \in DOMAIN FilterStore :
        /\ k # NoKey
        /\ FilterStore[k] # {}
        /\ AllowedFilters # Nil => k \in AllowedFilters

\* The filters that hold a value the device carries, in its claims or in
\* its metadata map.
Matching(store, d) ==
    {k \in DOMAIN store :
        \/ k \in DOMAIN d.claims /\ d.claims[k] \in store[k]
        \/ k \in DOMAIN d.map /\ d.map[k] \in store[k]}

HashableDevice(d) ==
    /\ \A k \in DOMAIN d.claims : Hashable(d.claims[k])
    /\ \A k \in DOMAIN d.map : Hashable(d.map[k])

(***************************************************************************)
(* AllowConnection decides by the filters that are in the store when it is *)
(* called: a device all of whose values are scalars is refused exactly     *)
(* when some filter holds one of its values, in the claims or in the       *)
(* metadata map, and the key of the MatchResult is such a filter, whatever *)
(* the order in which the loop visits the store.                           *)
(***************************************************************************)
DecisionMatchesFilters ==
    [][\A d \in Devices :
          (Connect(d) /\ HashableDevice(d)) =>
             /\ result' # Panic
             /\ result'.allow <=> Matching(FilterStore, d) = {}
             /\ ~result'.allow => result'.Key \in Matching(FilterStore, d)]_vars

\* The filters show the update u: what it set, or nothing when it deleted.
Shows(filters, u) ==
    IF u.Values = Nil
    THEN u.Key \notin DOMAIN filters
    ELSE u.Key \in DOMAIN filters /\ filters[u.Key] = u.Values

(***************************************************************************)
(* The answer to a POST, PUT or DELETE shows the filters as that request   *)
(* left them at its key, unless another client has updated the same key in *)
(* between.  ServeHTTP leaves the gate after SetFilter or DeleteFilter and *)
(* enters it again in filtersToString (filterHandler.go:69-75), so other   *)
(* requests get in between; they must not disturb what they do not touch.  *)
(***************************************************************************)
AnswerShowsTheUpdate ==
    [][\A c \in Clients :
          (Respond(c) /\ ~overtaken[c]) => Shows(resp'.filters, update[c])]_vars

=============================================================================
