---------------------------- MODULE MCDeviceGate ----------------------------
(***************************************************************************)
(* DeviceGate for model checking: two filter keys, two scalar values, two  *)
(* clients of the handler, and three devices: one with a value in its      *)
(* claims and another in its metadata map under the same key, one whose    *)
(* only value is in the metadata map, one with a list-valued claim.        *)
(***************************************************************************)
EXTENDS DeviceGate, TLC

CONSTANTS k1, k2, v1, v2, c1, c2

MCKeys    == {k1, k2}
MCScalars == {v1, v2}
MCClients == {c1, c2}

Both   == [claims |-> (k1 :> v1), map |-> (k1 :> v2 @@ k2 :> v1)]
MapOnly == [claims |-> <<>>, map |-> (k2 :> v2)]
Listed == [claims |-> (k2 :> {v1, v2}), map |-> <<>>]

MCDevices == {Both, MapOnly, Listed}

\* Every updating method with every body: the two that are no
\* filterRequest, and every key (the empty one too) with no value, a scalar
\* value, or a list.  The body of a GET or a PATCH is not read.
MCRequests ==
    [method : {"GET", "PATCH"}, body : {Unreadable}]
    \cup [method : {"POST", "PUT", "DELETE"},
          body   : {Unreadable, Malformed}
                     \cup {Message(k, vs) : k \in MCKeys \cup {NoKey},
                                            vs \in {{}, {v1}, {v2}, {v1, v2}, {{v1}}}}]

MCAllowedChoices == {Nil, {k1}}
=============================================================================
