----------------------------- MODULE MCSettings -----------------------------
(* A small instance of Settings for TLC. *)
EXTENDS Settings

CONSTANTS verify, host, password, i1, i2, empty, on

Mail == [k \in Keys |-> IF k = host THEN on ELSE empty]
NoMail == [k \in Keys |-> empty]
BothEnvs == {Mail, NoMail}

Body1(k, v) == [x \in Keys |-> IF x = k THEN v ELSE Unset]

\* Verification on, with or without a mail server; no mail server; a password.
SmallChanges == {Body1(verify, on), [Body1(verify, on) EXCEPT ![host] = on],
                 Body1(host, empty), Body1(password, on)}

=============================================================================
