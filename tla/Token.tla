-------------------------------- MODULE Token --------------------------------
(***************************************************************************)
(* The tokens a TokenHandler makes and takes back, over time and restarts: *)
(* a JWT is signed and encrypted by the keys of the configuration and      *)
(* carries its own end; a redis token is the key of an entry that redis    *)
(* drops.  Times count the smallest unit of a Duration, of which a second  *)
(* has Second; a Duration wraps at Half, as an int64 does at 2^63.         *)
(***************************************************************************)
EXTENDS Integers, FiniteSets

CONSTANTS Confs,      \* what the configuration may say: [kind, timeout, pub, pri]
          Auths,      \* what tokens are made for: [id, account, roles, principal]
          Second, Half,
          Resolution, \* the shortest time redis keeps
          MaxNow, MaxTokens

VARIABLES conf,    \* a key pair has one name for both halves; nothing checks it is one
          now,
          issued,  \* the tokens made
          store    \* those redis has
vars == <<conf, now, issued, store>>

Init ==
    /\ conf \in Confs
    /\ now = 0 /\ issued = {} /\ store = {}

Duration(n) == ((n + Half) % (2 * Half)) - Half
SecondsFloor(t) == t - (t % Second)

\* The numbers of a principal are floats when they come back from JSON.
Encoded(auth) == [auth EXCEPT !.principal = IF @ = "integer" THEN "float" ELSE @]

\* ends is {} for a token without an end; it was made for the Authorized auth,
\* at a time and with a timeout that are not in it.
Token(auth, ends) ==
    [serial |-> Cardinality(issued), claims |-> Encoded(auth), ends |-> ends,
     pub |-> conf.pub, pri |-> conf.pri,
     auth |-> auth, at |-> now, timeout |-> conf.timeout]

JwtEndsInUnits ==
    IF conf.timeout > 0 THEN {SecondsFloor(now + conf.timeout)} ELSE {}

JwtEnds ==
    IF conf.timeout > 0 THEN {SecondsFloor(now + Duration(conf.timeout * Second))} ELSE {}

\* RSA encrypts a block: a principal longer than the key is refused.
GenerateJwt ==
    /\ conf.kind = "jwt" /\ Cardinality(issued) < MaxTokens
    /\ \E auth \in Auths :
          /\ auth.principal # "long"
          /\ issued' = issued \cup {Token(auth, JwtEnds)}
    /\ UNCHANGED <<conf, now, store>>

\* Timeout.String() names the unit, so redis keeps the token for that time;
\* what it does with less than it resolves is its own affair.
GenerateRedis ==
    /\ conf.kind = "redis" /\ Cardinality(issued) < MaxTokens
    /\ \E auth \in Auths :
       \E ends \in IF conf.timeout < Resolution THEN {{}, {now}} ELSE {{now + conf.timeout}} :
          LET token == Token(auth, ends)
          IN  issued' = issued \cup {token} /\ store' = store \cup {token}
    /\ UNCHANGED <<conf, now>>

Tick == now < MaxNow /\ now' = now + 1 /\ UNCHANGED <<conf, issued, store>>

\* The service restarts with another configuration of the same kind.
Restart ==
    /\ conf' \in {c \in Confs : c.kind = conf.kind}
    /\ UNCHANGED <<now, issued, store>>

\* redis loses an entry before its end.
Evict ==
    /\ \E token \in store : store' = store \ {token}
    /\ UNCHANGED <<conf, now, issued>>

Next == GenerateJwt \/ GenerateRedis \/ Tick \/ Restart \/ Evict
Spec == Init /\ [][Next]_vars

-----------------------------------------------------------------------------
(* ParseToken of a token a client presents "whole", as it was issued, or    *)
(* "split" otherwise into fields at the spaces.  No result is a refusal.    *)

InTime(token) == \A end \in token.ends : now < end

\* The signature is checked with the public key.
Verified(token, form) == form = "whole" /\ token.pri = conf.pub /\ InTime(token)

\* The principal is decrypted with the private key; the audience is the account.
ParseJwtUnnamed(token, form) ==
    IF Verified(token, form) /\ token.pub = conf.pri THEN {[token.claims EXCEPT !.account = ""]} ELSE {}

ParseJwtVerified(token, form) ==
    IF Verified(token, form) THEN {token.claims} ELSE {}

ParseJwt(token, form) ==
    IF Verified(token, form) /\ token.pub = conf.pri THEN {token.claims} ELSE {}

ParseRedis(token, form) ==
    IF form = "whole" /\ token \in store /\ InTime(token) THEN {token.claims} ELSE {}

\* TokenAuthorization.Authentication asks the handler.
Authentication(token, form) ==
    IF conf.kind = "jwt" THEN ParseJwt(token, form) ELSE ParseRedis(token, form)

-----------------------------------------------------------------------------
\* Whoever is authenticated is the one the token was made for, with the account,
\* the roles and the principal of then, except that an integer of the principal
\* is a float after JSON.
ParsedAsIssued ==
    \A token \in issued, form \in {"whole", "split"} :
        \A a \in Authentication(token, form) :
            /\ a = [token.auth EXCEPT !.principal = a.principal]
            /\ a.principal = IF token.auth.principal = "integer" THEN "float" ELSE token.auth.principal

\* A token lives as long as the timeout it was made with says, across restarts
\* that keep the keys, less what is cut off to whole seconds, and no longer.
\* JWT counts the timeout in seconds and redis in units; one that JWT's
\* multiplication wraps is excepted, and one too short for redis.
AcceptedInTime ==
    \A token \in issued :
        LET jwt == conf.kind = "jwt"
            life == token.timeout * (IF jwt THEN Second ELSE 1)
            kept == IF jwt THEN token.pub = token.pri /\ conf.pub = token.pub /\ conf.pri = token.pri
                    ELSE token \in store
            end == token.at + life
        IN  IF jwt /\ life = 0 THEN kept => Authentication(token, "whole") # {}
            ELSE life \in (IF jwt THEN 1 ELSE Resolution)..(Half - 1) =>
                 /\ kept /\ now <= end - (IF jwt THEN Second ELSE 1) => Authentication(token, "whole") # {}
                 /\ now >= end => Authentication(token, "whole") = {}

\* A JWT is taken only under the opposite halves of the two keys it was made
\* with.  So the tokens of a pair are taken under that pair alone, and a pair
\* takes no others; half pairs do not take what they made themselves, though
\* they do what the opposite half pairs made.  No token is taken that is not
\* presented as it was issued.
RefusedUnderOtherKeys ==
    \A token \in issued :
        /\ Authentication(token, "split") = {}
        /\ conf.kind = "jwt" /\ Authentication(token, "whole") # {} =>
              LET madeHere == conf.pub = token.pub /\ conf.pri = token.pri
              IN  /\ conf.pub = token.pri /\ conf.pri = token.pub
                  /\ madeHere <=> conf.pub = conf.pri

\* A token says what it was made for, to a service with the opposite keys.
TokensTrue == ParsedAsIssued /\ RefusedUnderOtherKeys
=============================================================================
