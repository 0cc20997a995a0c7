--------------------------- MODULE SNSValidation ---------------------------
(***************************************************************************)
(* The validator of Amazon SNS message signatures                          *)
(* (src/webhook/aws/signature_validation.go).  Validate decodes the        *)
(* signature of a message, fetches the certificate from the URL the        *)
(* message names, and verifies the signature over the message's fields     *)
(* with the certificate's key.  The fetch is a call to the network: other  *)
(* validations go on meanwhile, and what a URL serves is up to its host.   *)
(*                                                                         *)
(* A message is [content, Subject, Signature, SigningCertURL]; content     *)
(* stands for Message, MessageId, Timestamp, TopicArn and Type together.   *)
(* A signature is NotBase64 or [key, over]: the key that made it and the   *)
(* text it was made over.                                                  *)
(***************************************************************************)
EXTENDS Integers, FiniteSets, TLC

CONSTANTS
    Validators,   \* the goroutines that call Validate
    Messages,     \* the messages that arrive
    URLs,         \* the addresses a message may name
    Serves,       \* Serves[u]: what the host of u may answer
    Nil

VARIABLES
    served,    \* served[u]: what a GET of u is answered now
    pc,        \* pc[v]: "idle" or "fetching"
    msg,       \* msg[v]: the message v validates
    returned   \* returned[v]: how v's last validation ended

vars == <<served, pc, msg, returned>>

NotBase64 == [signature |-> "not base64"]

\* What a GET is answered: no answer, or no request to send; a body that
\* holds no PEM block (any page, with any status); a block that is no
\* certificate; a certificate with a key that is not RSA; a certificate with
\* the RSA key k.
TransportError == [answer |-> "error"]
NoPEM          == [answer |-> "no PEM block"]
NoCertificate  == [answer |-> "no certificate"]
OtherKey       == [answer |-> "certificate", rsa |-> FALSE]
Certificate(k) == [answer |-> "certificate", rsa |-> TRUE, key |-> k]

Answers == UNION {Serves[u] : u \in URLs}

ASSUME DOMAIN Serves = URLs /\ \A u \in URLs : Serves[u] # {}

-----------------------------------------------------------------------------
base64Decode(m) ==
    [err |-> m.Signature = NotBase64, signature |-> m.Signature]

\* getPemFile: the body, whatever the status of the response.
getPemFile(answer) ==
    [err |-> answer = TransportError, body |-> answer]

\* getCerticate: no certificate and no error for a body without a block.
getCerticate(body) ==
    CASE body = NoPEM         -> [err |-> FALSE, cert |-> Nil]
      [] body = NoCertificate -> [err |-> TRUE,  cert |-> Nil]
      [] OTHER                -> [err |-> FALSE, cert |-> body]

\* MUTANT of generateSignature: the subject is left out of every text.
generateSignatureWithoutSubject(m) == [content |-> m.content]

\* generateSignature: the text a signature is made over; the subject is
\* part of it when the message has one.
generateSignature(m) ==
    IF m.Subject # ""
    THEN [content |-> m.content, Subject |-> m.Subject]
    ELSE [content |-> m.content]

\* rsa.VerifyPKCS1v15
VerifyPKCS1v15(pub, hashed, signature) ==
    signature.key = pub /\ signature.over = hashed

Return(ok, err) == [ok |-> ok, err |-> err, panic |-> FALSE]
Panic           == [ok |-> FALSE, err |-> FALSE, panic |-> TRUE]

\* MUTANT of NotRSA: the error is left out.
NotRSASilent == Return(FALSE, FALSE)

\* A certificate whose key is not an RSA key.
NotRSA == Return(FALSE, TRUE)

\* MUTANT of Verdict: the verdict is set before the signature is verified.
VerdictSetFirst(verified) == Return(TRUE, ~verified)

\* The end of Validate: true for a signature that verifies, an error for
\* one that does not.
Verdict(verified) == Return(verified, ~verified)

(***************************************************************************)
(* Validate, from the answer of the fetch on: an error of the fetch or of  *)
(* the parser is returned; the key of a certificate that is nil is read,   *)
(* which panics; a key that is not RSA is an error; then the verdict is    *)
(* that of the verification.                                               *)
(***************************************************************************)
AfterFetch(m, answer) ==
    LET pem  == getPemFile(answer)
        cert == getCerticate(pem.body).cert
    IN  CASE pem.err \/ getCerticate(pem.body).err -> Return(FALSE, TRUE)
          [] cert = Nil -> Panic
          [] ~cert.rsa  -> NotRSA
          [] OTHER      -> Verdict(VerifyPKCS1v15(cert.key, generateSignature(m), m.Signature))

-----------------------------------------------------------------------------
Init ==
    /\ served \in [URLs -> Answers]
    /\ \A u \in URLs : served[u] \in Serves[u]
    /\ pc = [v \in Validators |-> "idle"]
    /\ msg = [v \in Validators |-> Nil]
    /\ returned = [v \in Validators |-> Nil]

\* Validate, up to the fetch: a signature that does not decode is an error.
Validate(v, m) ==
    /\ pc[v] = "idle"
    /\ msg' = [msg EXCEPT ![v] = m]
    /\ IF base64Decode(m).err
       THEN /\ returned' = [returned EXCEPT ![v] = Return(FALSE, TRUE) @@ [body |-> Nil]]
            /\ UNCHANGED pc
       ELSE /\ pc' = [pc EXCEPT ![v] = "fetching"]
            /\ returned' = [returned EXCEPT ![v] = Nil]
    /\ UNCHANGED served

\* The answer to the GET arrives, and Validate runs to its end.
Fetched(v) ==
    /\ pc[v] = "fetching"
    /\ LET answer == served[msg[v].SigningCertURL]
       IN  returned' = [returned EXCEPT ![v] = AfterFetch(msg[v], answer) @@ [body |-> answer]]
    /\ pc' = [pc EXCEPT ![v] = "idle"]
    /\ UNCHANGED <<served, msg>>

\* The host of a URL changes what it serves.
Rotate(u) ==
    /\ \E answer \in Serves[u] \ {served[u]} : served' = [served EXCEPT ![u] = answer]
    /\ UNCHANGED <<pc, msg, returned>>

Next ==
    \/ \E v \in Validators : (\E m \in Messages : Validate(v, m)) \/ Fetched(v)
    \/ \E u \in URLs : Rotate(u)

Spec == Init /\ [][Next]_vars

-----------------------------------------------------------------------------
Done == {v \in Validators : returned[v] # Nil}

TypeOK ==
    /\ \A u \in URLs : served[u] \in Serves[u]
    /\ pc \in [Validators -> {"idle", "fetching"}]
    /\ \A v \in Validators : pc[v] = "fetching" => msg[v] \in Messages /\ returned[v] = Nil
    /\ \A v \in Done : returned[v].ok \in BOOLEAN /\ ~(returned[v].ok /\ returned[v].err)

(***************************************************************************)
(* Validate answers true only for a message whose signature was made, over *)
(* every field of the message as it arrived, its subject included, with    *)
(* the key of the certificate that the message's SigningCertURL served     *)
(* when Validate fetched it (signature_validation.go:125-148): a message   *)
(* whose subject was added, removed or changed after signing is refused,   *)
(* whatever other validations and hosts do meanwhile.                      *)
(***************************************************************************)
ValidOnlyIfSigned ==
    \A v \in Done :
        returned[v].ok =>
            /\ returned[v].body.answer = "certificate" /\ returned[v].body.rsa
            /\ msg[v].Signature.key = returned[v].body.key
            /\ msg[v].Signature.over.content = msg[v].content
            /\ IF "Subject" \in DOMAIN msg[v].Signature.over
               THEN msg[v].Signature.over.Subject = msg[v].Subject
               ELSE msg[v].Subject = ""

(***************************************************************************)
(* A message is never refused without a reason: when Validate returns      *)
(* false it returns an error with it (signature_validation.go:120-145).    *)
(* The one path with neither, a body without a PEM block                   *)
(* (signature_validation.go:52-53), does not return: it panics at the      *)
(* type assertion on the nil certificate's key.                            *)
(***************************************************************************)
RefusalHasAReason ==
    \A v \in Done :
        (~returned[v].panic /\ ~returned[v].ok) => returned[v].err

=============================================================================
