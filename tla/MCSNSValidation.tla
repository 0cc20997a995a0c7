-------------------------- MODULE MCSNSValidation --------------------------
(***************************************************************************)
(* Two validators, Amazon's address and another one, and messages signed   *)
(* by Amazon's key or by another, over the message as it is or over the    *)
(* message with another subject.                                           *)
(***************************************************************************)
EXTENDS SNSValidation

MCURLs == {"sns.amazonaws.com", "elsewhere"}

MCServes ==
    [u \in MCURLs |->
        IF u = "sns.amazonaws.com"
        THEN {Certificate("amazon"), TransportError}
        ELSE {Certificate("other"), OtherKey, NoCertificate, NoPEM}]

Over(subject) ==
    IF subject # "" THEN [content |-> "notification", Subject |-> subject]
    ELSE [content |-> "notification"]

MCMessages ==
    { [content |-> "notification", Subject |-> subject, Signature |-> signature,
       SigningCertURL |-> u] :
        subject \in {"", "update"}, u \in MCURLs,
        signature \in {NotBase64} \cup
                      { [key |-> k, over |-> Over(signed)] :
                          k \in {"amazon", "other"}, signed \in {"", "update", "alarm"} } }

=============================================================================
