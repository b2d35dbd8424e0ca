----------------------------- MODULE MCVerifier -----------------------------
(* An instance of Verifier for TLC. *)
EXTENDS Verifier

CONSTANT n1

AsMap == [at |-> "runtime", form |-> "map", wrap |-> 0, layers |-> 1]

Token ==
    [jwt |-> TRUE, kid |-> "k1", signer |-> "old", echo |-> AsMap, type |-> "tdxvm",
     life |-> 2, wait |-> 0, delay |-> 0]

Real(sources, token) == [simulated |-> FALSE, sources |-> sources, kind |-> token]

\* A simulated agent; a helper whose token verifies, but not a time unit later; one whose
\* token names no key and has the nonce in encoded JSON text; a token signed by somebody
\* else; and one read from a file, with another nonce.
MCAgents ==
    {[simulated |-> TRUE, sources |-> {}, kind |-> Token],
     Real({"helper", "endpoint"}, [Token EXCEPT !.delay = 1]),
     Real({"helper"}, [Token EXCEPT !.kid = None,
             !.echo = [at |-> "isolation", form |-> "json", wrap |-> 1, layers |-> 1]]),
     Real({"helper"}, [Token EXCEPT !.signer = "stranger"]),
     Real({"file", "helper"}, Token)}

Key(kid, form, key) == [kid |-> kid, form |-> form, key |-> key]

\* The endpoint does not answer, has no usable key, one key, or a list with a broken key
\* and two of the same kid.
MCKeyDocs ==
    {None, <<Key("k1", "other", "old")>>, <<Key("k1", "x5c", "old")>>,
     <<Key("k1", "x5c", "new"), Key("k2", "other", "new"), Key("k1", "modulus", "old")>>}
=============================================================================
