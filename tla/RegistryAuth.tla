---------------------------- MODULE RegistryAuth ----------------------------
(***************************************************************************)
(* The HTTP transport of htvend verify                                     *)
(* (registryauthclient/wrapping_registry_auth_client.go): it answers a     *)
(* registry's challenge by asking for a bearer token, and keeps the token  *)
(* for the next request to the same repository.  One request is under way  *)
(* at a time.                                                              *)
(*                                                                         *)
(* There is no clock: what is kept of an instant is how far away it is,    *)
(* and Tick brings all of them nearer.  Registry and token server are      *)
(* external.  A message is at most MaxDelay under way.                     *)
(***************************************************************************)
EXTENDS Integers

CONSTANTS
  Keys,       \* repositories, as the regular expression cuts them from a URL
  None,       \* a URL of no repository, or no token
  Life,       \* for how long a token is good
  Margin,     \* what RoundTrip takes off expires_in (10 seconds)
  MaxDelay    \* the longest a token answer or a request is under way

VARIABLES
  tokens,     \* tokens[k]: the cached token of repository k
  trip        \* the request under way

authVars == <<tokens, trip>>

\* ttl: until the cache entry expires.  life: until the token does.
Token == [ttl : -1 .. Life, life : -1 .. Life]

\* at: what is being waited for, or the answer.  key: the repository.  life:
\* of the token on its way.  says: its expires_in.  age: of the message.
Trip == [at : {"idle", "plain", "challenged", "issued", "sent",
               "ok", "refused", "expired", "error"},
         key : Keys \cup {None}, life : -1 .. Life, says : 0 .. Life,
         age : 0 .. MaxDelay]

AuthTypeOK == tokens \in [Keys -> Token \cup {None}] /\ trip \in Trip

NoTokens == [k \in Keys |-> None]
Leg(where, k, life, says) ==
  [at |-> where, key |-> k, life |-> life, says |-> says, age |-> 0]
Idle == Leg("idle", None, -1, 0)

AuthInit == tokens = NoTokens /\ trip = Idle

\* val.TTL.Before(time.Now()) does not hold.
Usable(k) == k # None /\ tokens[k] # None /\ tokens[k].ttl >= 0

\* RoundTrip up to its first request: with the cached token if there is one.
RoundTrip(k) ==
  /\ trip.at = "idle"
  /\ IF Usable(k)
       THEN trip' = Leg("sent", k, tokens[k].life, 0) /\ UNCHANGED tokens
       ELSE /\ trip' = Leg("plain", k, -1, 0)
            /\ tokens' = [j \in Keys |-> IF j = k THEN None ELSE tokens[j]]

\* The plain request is answered 401, with a challenge that names a realm,
\* service and scope.  Only a URL of a repository gets any further.
Challenge ==
  /\ trip.at = "plain" /\ trip.key # None
  /\ trip' = [trip EXCEPT !.at = "challenged"]
  /\ UNCHANGED tokens

\* The token server issues a token.  It may leave out expires_in, which the
\* decoder then takes for 0.
Issue ==
  /\ trip.at = "challenged"
  /\ \E says \in {0, Life} : trip' = Leg("issued", trip.key, Life, says)
  /\ UNCHANGED tokens

\* A plausible bug: the token is kept for all of expires_in.
ReceiveNoMargin ==
  /\ trip.at = "issued"
  /\ tokens' = [tokens EXCEPT ![trip.key] = [ttl |-> trip.says, life |-> trip.life]]
  /\ trip' = Leg("sent", trip.key, trip.life, 0)

\* The token arrives, is cached until Margin before it expires, and goes with
\* the final request.
Receive ==
  /\ trip.at = "issued"
  /\ tokens' = [tokens EXCEPT ![trip.key] =
       [ttl |-> IF trip.says >= Margin THEN trip.says - Margin ELSE -1,
        life |-> trip.life]]
  /\ trip' = Leg("sent", trip.key, trip.life, 0)

\* The registry's answer, 200 or not.  To a token that has expired it is 401,
\* and RoundTrip returns that: it neither forgets the token nor tries again.
Answer ==
  /\ trip.at \in {"plain", "sent"}
  /\ IF trip.at = "sent" /\ trip.life < 0
       THEN trip' = [trip EXCEPT !.at = "expired"]
       ELSE \E what \in {"ok", "refused"} : trip' = [trip EXCEPT !.at = what]
  /\ UNCHANGED tokens

\* A request fails, or the token server's answer cannot be used.
TripFails ==
  /\ trip.at \in {"plain", "challenged", "issued", "sent"}
  /\ trip' = [trip EXCEPT !.at = "error"]
  /\ UNCHANGED tokens

Later(t) == IF t > -1 THEN t - 1 ELSE -1

\* Time passes, but not beyond what a message may take.
Tick ==
  /\ trip.at \in {"issued", "sent"} => trip.age < MaxDelay
  /\ trip' = [trip EXCEPT
       !.life = Later(@),
       !.age = IF trip.at \in {"issued", "sent"} THEN @ + 1 ELSE @]
  /\ tokens' = [k \in Keys |->
       IF tokens[k] = None THEN None
       ELSE [ttl |-> Later(tokens[k].ttl), life |-> Later(tokens[k].life)]]

\* No token is presented after it has expired, neither a new one nor one from
\* the cache: what RoundTrip takes off expires_in makes up for the time the
\* token and then the request are under way.
TokenInTime == trip.at # "expired"
=============================================================================
