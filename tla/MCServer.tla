------------------------------ MODULE MCServer ------------------------------
(* Server for TLC. *)
EXTENDS Server, TLC

CONSTANTS c1, c2, l1

MCCallers   == {c1, c2}
MCListeners == {l1}
MCIntervals == {0, 1}

WebPA(address, certificate, clientCA, unreadable, gatherer) ==
    [address |-> address, certificate |-> certificate,
     clientCA |-> clientCA, unreadable |-> unreadable, gatherer |-> gatherer]

\* every server, the primary with mutual TLS, a gatherer of the caller's
Full == WebPA(Servers, {"primary", "health"}, {"primary"}, {}, "gatherer")
\* the CA file of the primary cannot be read; no alternate, no pprof
BadCA == WebPA({"health", "primary", "metrics"}, {"primary"}, {"primary"}, {"primary"}, Nil)
\* no primary address
Headless == WebPA({"health", "pprof", "alternate", "metrics"}, {}, {"alternate"}, {}, Nil)
\* no health; the primary names a client CA and has no certificate
Blind == WebPA({"primary", "alternate"}, {"alternate"}, {"primary"}, {}, "gatherer")

Symmetry == Permutations(MCCallers)

MCConfigurations == {Full, BadCA, Headless, Blind}

=============================================================================
