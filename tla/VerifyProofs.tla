---------------------------- MODULE VerifyProofs ----------------------------
(***************************************************************************)
(* Proofs about htvend verify, for every manifest, blob store and set of   *)
(* repositories: no token is used after its time, --repair replaces only   *)
(* what was missing, and success means what the documentation says of it,  *)
(* but for what the origin refused.                                        *)
(***************************************************************************)
EXTENDS Verify, Integers, TLAPS

(* The transport.                                                          *)

\* A token in the cache that may still be used is good for longer than the
\* cache says, by the margin less what its answer was under way.
CachedLives ==
  \A k \in Keys : tokens[k] # None =>
    (tokens[k].ttl >= 0 => tokens[k].life >= tokens[k].ttl + (Margin - MaxDelay))

\* A token on its way has aged as much as its message, and one that is sent
\* is good for as long as the request may still take.
TripLives ==
  /\ trip.at = "issued" => trip.life = Life - trip.age
  /\ trip.at = "sent" => trip.life >= MaxDelay - trip.age
  /\ trip.at # "expired"

AuthInv == Auth!AuthTypeOK /\ CachedLives /\ TripLives

(* The manifest.                                                           *)

\* An entry of m is the one verify started with, or was replaced by --repair.
Derived(m) ==
  \A u \in Urls : m[u] = before[u] \/
    (repair /\ u \in missing /\ m[u] # None /\ Present(m[u]))

\* How far Execute is tells how far the manifest is and with which options.
Phase ==
  /\ pc = "start" => st = "closed" /\ missing = {}
  /\ pc \in {"start", "scan"} => cur = None
  /\ pc # "fetch" \/ cur = None => trip.at = "idle"
  /\ pc \in {"scan", "fetch", "save"} => st = "open"
  /\ pc = "close" => st \in {"open", "saving"}
  /\ st # "closed" => options.Writable = repair /\ options.AllowOverwrite = repair

\* What is looked up, and then fetched, are entries of the manifest.
Lists ==
  /\ missing \subseteq Entries(before)
  /\ pc = "scan" => todo \subseteq Entries(before)
  /\ pc \in {"fetch", "save"} => todo \subseteq missing /\ cur \in missing \cup {None}
  /\ pc = "save" => cur \in missing /\ got \in LF!BlobInfo /\ Present(got)

\* Manifest and file come from what was loaded, and agree when Close finds
\* nothing to write.
Maps ==
  /\ st # "closed" => Derived(blobs)
  /\ pc # "start" /\ disk \in LF!BlobMap => Derived(disk)
  /\ st = "open" /\ (~options.Writable \/ ~dirty) => disk = blobs

\* An entry that has been dealt with is confirmed or is listed as wrong.
Good(u) == Present(blobs[u]) \/ u \in options.NoCache \cup refused

Confirmed ==
  /\ pc = "scan" => \A u \in Entries(blobs) \ todo :
       u \in missing \cup wrong \/ Present(blobs[u])
  /\ pc \in {"fetch", "save"} => \A u \in Entries(blobs) :
       u \in wrong \cup todo \cup {cur} \/ Good(u)
  /\ pc = "close" /\ retErr = "ok" => \A u \in Entries(blobs) : Good(u)
  /\ ConfirmedUnlessRefused

Inv == TypeOK /\ AuthInv /\ Phase /\ Lists /\ Maps /\ Confirmed
-----------------------------------------------------------------------------
(* The transport keeps its invariant, whatever verify does in between.     *)

\* The client that has been asked nothing has its type.
LEMMA IdleTrip == Auth!NoTokens \in [Keys -> Auth!Token \cup {None}] /\ Auth!Idle \in Auth!Trip
  BY VerifyAssumption DEF Auth!NoTokens, Auth!Idle, Auth!Leg, Auth!Trip

\* Between two requests there is nothing but the cache.
LEMMA AuthRests ==
  ASSUME AuthInv, trip' = Auth!Idle, tokens' \in {tokens, Auth!NoTokens}
  PROVE  AuthInv'
<1>1. Auth!AuthTypeOK'
  BY IdleTrip DEF AuthInv, Auth!AuthTypeOK
<1>2. CachedLives'
  BY VerifyAssumption DEF AuthInv, CachedLives, Auth!NoTokens
<1>3. TripLives'
  BY DEF TripLives, Auth!Idle, Auth!Leg
<1> QED
  BY <1>1, <1>2, <1>3 DEF AuthInv

\* Every step of the authentication client keeps its invariant.
LEMMA AuthStep ==
  ASSUME AuthInv,
         \/ \E k \in Keys \cup {None} : Auth!RoundTrip(k)
         \/ Auth!Challenge \/ Auth!Issue \/ Auth!Receive \/ Auth!Answer
         \/ Auth!TripFails \/ Auth!Tick
  PROVE  AuthInv'
<1> USE VerifyAssumption
<1>t. /\ tokens \in [Keys -> Auth!Token \cup {None}] /\ trip \in Auth!Trip
      /\ CachedLives /\ TripLives
  BY DEF AuthInv, Auth!AuthTypeOK
<1>f. /\ trip.at \in {"idle", "plain", "challenged", "issued", "sent",
                      "ok", "refused", "expired", "error"}
      /\ trip.key \in Keys \cup {None} /\ trip.life \in -1 .. Life
      /\ trip.says \in 0 .. Life /\ trip.age \in 0 .. MaxDelay
  BY <1>t DEF Auth!Trip
\* A new leg of the journey.
<1>l. ASSUME NEW where \in {"plain", "challenged", "issued", "sent"}, NEW k \in Keys \cup {None},
             NEW life \in -1 .. Life, NEW says \in 0 .. Life,
             trip' = Auth!Leg(where, k, life, says),
             where = "issued" => life = Life, where = "sent" => life >= MaxDelay
      PROVE  trip' \in Auth!Trip /\ TripLives'
  <2>1. trip' \in Auth!Trip
    BY <1>l DEF Auth!Leg, Auth!Trip
  <2>2. trip'.at = where /\ trip'.life = life /\ trip'.age = 0
    BY <1>l DEF Auth!Leg
  <2> QED
    BY <1>l, <2>1, <2>2 DEF TripLives
\* The request goes on, or ends.
<1>a. ASSUME NEW where \in {"challenged", "ok", "refused", "error"},
             trip' = [trip EXCEPT !.at = where]
      PROVE  trip' \in Auth!Trip /\ TripLives'
  BY <1>a, <1>t DEF Auth!Trip, TripLives
<1>q. ASSUME UNCHANGED tokens, trip' \in Auth!Trip, TripLives' PROVE AuthInv'
  BY <1>q, <1>t DEF AuthInv, Auth!AuthTypeOK, CachedLives
<1>1. ASSUME NEW k \in Keys \cup {None}, Auth!RoundTrip(k) PROVE AuthInv'
  <2>1. CASE Auth!Usable(k)
    <3>1. tokens[k] \in Auth!Token /\ k \in Keys /\ tokens[k].ttl >= 0
      BY <1>t, <2>1 DEF Auth!Usable
    <3>2. tokens[k].life \in -1 .. Life /\ tokens[k].life >= MaxDelay
      BY <1>t, <2>1, <3>1 DEF CachedLives, Auth!Usable, Auth!Token
    <3>3. trip' = Auth!Leg("sent", k, tokens[k].life, 0) /\ UNCHANGED tokens
      BY <1>1, <2>1 DEF Auth!RoundTrip
    <3> QED
      BY <1>l, <1>q, <3>2, <3>3
  <2>2. CASE ~Auth!Usable(k)
    <3>1. /\ trip' = Auth!Leg("plain", k, -1, 0)
          /\ tokens' = [j \in Keys |-> IF j = k THEN None ELSE tokens[j]]
      BY <1>1, <2>2 DEF Auth!RoundTrip
    <3>2. trip' \in Auth!Trip /\ TripLives'
      BY <1>l, <3>1
    <3>3. tokens' \in [Keys -> Auth!Token \cup {None}] /\ CachedLives'
      BY <1>t, <3>1 DEF CachedLives
    <3> QED
      BY <3>2, <3>3 DEF AuthInv, Auth!AuthTypeOK
  <2> QED
    BY <2>1, <2>2
<1>2. CASE Auth!Challenge
  BY <1>2, <1>a, <1>q DEF Auth!Challenge
<1>3. CASE Auth!Issue
  <2>1. PICK says \in {0, Life} : trip' = Auth!Leg("issued", trip.key, Life, says)
    BY <1>3 DEF Auth!Issue
  <2>2. Life \in -1 .. Life /\ says \in 0 .. Life
    BY <2>1
  <2>3. trip' \in Auth!Trip /\ TripLives'
    BY <1>l, <1>f, <2>1, <2>2
  <2> QED
    BY <1>3, <1>q, <2>3 DEF Auth!Issue
<1>4. CASE Auth!Receive
  <2> DEFINE T == [ttl |-> IF trip.says >= Margin THEN trip.says - Margin ELSE -1,
                   life |-> trip.life]
  <2>1. trip.at = "issued" /\ trip.life = Life - trip.age
    BY <1>4, <1>t DEF Auth!Receive, TripLives
  <2>2. trip.life >= Life - MaxDelay /\ trip.life >= MaxDelay
    BY <1>f, <2>1
  <2>3. trip' = Auth!Leg("sent", trip.key, trip.life, 0)
        /\ tokens' = [tokens EXCEPT ![trip.key] = T]
    BY <1>4 DEF Auth!Receive
  <2>4. T \in Auth!Token /\ (T.ttl >= 0 => T.life >= T.ttl + (Margin - MaxDelay))
    BY <1>f, <2>2 DEF Auth!Token
  <2>5. trip' \in Auth!Trip /\ TripLives'
    BY <1>f, <1>l, <2>2, <2>3
  <2> HIDE DEF T
  <2>6. tokens' \in [Keys -> Auth!Token \cup {None}]
    BY <1>t, <2>3, <2>4
  <2>7. CachedLives'
    BY <1>t, <2>3, <2>4 DEF CachedLives
  <2> QED
    BY <2>5, <2>6, <2>7 DEF AuthInv, Auth!AuthTypeOK
<1>5. CASE Auth!Answer
  <2>1. ~(trip.at = "sent" /\ trip.life < 0)
    BY <1>f, <1>t DEF TripLives
  <2> QED
    BY <1>5, <1>a, <1>q, <2>1 DEF Auth!Answer
<1>6. CASE Auth!TripFails
  BY <1>6, <1>a, <1>q DEF Auth!TripFails
<1>7. CASE Auth!Tick
  <2> DEFINE age == IF trip.at \in {"issued", "sent"} THEN trip.age + 1 ELSE trip.age
  <2>1. trip.at \in {"issued", "sent"} => trip.age < MaxDelay
    BY <1>7 DEF Auth!Tick
  <2>2. trip' = [trip EXCEPT !.life = Auth!Later(trip.life), !.age = age]
    BY <1>7 DEF Auth!Tick
  <2>3. age \in 0 .. MaxDelay
    BY <1>f, <2>1
  <2>4. \A x \in -1 .. Life : /\ Auth!Later(x) \in -1 .. Life
                              /\ x >= 0 => Auth!Later(x) = x - 1
                              /\ Auth!Later(x) >= 0 => x >= 1
    BY DEF Auth!Later
  <2>5. trip' \in Auth!Trip
    BY <1>t, <1>f, <2>2, <2>3, <2>4 DEF Auth!Trip
  <2>6. trip'.at = trip.at /\ trip'.life = Auth!Later(trip.life) /\ trip'.age = age
    BY <1>t, <2>2 DEF Auth!Trip
  <2>7. TripLives'
    <3>1. CASE trip.at \in {"issued", "sent"}
      <4>1. trip.life >= 0 /\ age = trip.age + 1
        BY <1>t, <1>f, <2>1, <3>1 DEF TripLives
      <4>2. trip'.life = trip.life - 1 /\ trip'.age = trip.age + 1
        BY <1>f, <2>4, <2>6, <4>1
      <4> HIDE DEF age
      <4> QED
        BY <1>t, <1>f, <2>6, <4>2 DEF TripLives
    <3>2. CASE trip.at \notin {"issued", "sent"}
      BY <1>t, <2>6, <3>2 DEF TripLives
    <3> QED
      BY <3>1, <3>2
  <2>8. tokens' = [k \in Keys |-> IF tokens[k] = None THEN None
                    ELSE [ttl |-> Auth!Later(tokens[k].ttl), life |-> Auth!Later(tokens[k].life)]]
    BY <1>7 DEF Auth!Tick
  <2>9. ASSUME NEW k \in Keys
        PROVE  /\ tokens'[k] \in Auth!Token \cup {None}
               /\ tokens'[k] # None => (tokens'[k].ttl >= 0 =>
                    tokens'[k].life >= tokens'[k].ttl + (Margin - MaxDelay))
    <3>1. CASE tokens[k] = None
      BY <2>8, <3>1
    <3>2. CASE tokens[k] # None
      <4>1. tokens[k].ttl \in -1 .. Life /\ tokens[k].life \in -1 .. Life
        BY <1>t, <3>2 DEF Auth!Token
      <4>2. tokens'[k] = [ttl |-> Auth!Later(tokens[k].ttl), life |-> Auth!Later(tokens[k].life)]
        BY <2>8, <3>2
      <4>3. tokens'[k] \in Auth!Token
        BY <2>4, <4>1, <4>2 DEF Auth!Token
      <4>4. ASSUME tokens'[k].ttl >= 0
            PROVE  tokens'[k].life >= tokens'[k].ttl + (Margin - MaxDelay)
        <5>1. tokens[k].ttl >= 1 /\ tokens'[k].ttl = tokens[k].ttl - 1
          BY <2>4, <4>1, <4>2, <4>4
        <5>2. tokens[k].life >= tokens[k].ttl + (Margin - MaxDelay)
          BY <1>t, <3>2, <4>1, <5>1 DEF CachedLives
        <5>3. tokens'[k].life = tokens[k].life - 1
          BY <2>4, <4>1, <4>2, <5>1, <5>2
        <5> QED
          BY <4>1, <5>1, <5>2, <5>3
      <4> QED
        BY <4>3, <4>4
    <3> QED
      BY <3>1, <3>2
  <2>10. tokens' \in [Keys -> Auth!Token \cup {None}] /\ CachedLives'
    BY <2>8, <2>9 DEF CachedLives
  <2> QED
    BY <2>5, <2>7, <2>10 DEF AuthInv, Auth!AuthTypeOK
<1> QED
  BY <1>1, <1>2, <1>3, <1>4, <1>5, <1>6, <1>7
-----------------------------------------------------------------------------
(* The manifest and the blob store.                                        *)

\* The manifest of a process that is not there has its type.
LEMMA EmptyMapTyped == LF!EmptyMap \in LF!BlobMap /\ LF!ReadOnly \in LF!Options
  BY DEF LF!EmptyMap, LF!BlobMap, LF!ReadOnly, LF!Options

\* Before the command the invariant holds, for any manifest and store.
LEMMA InitInv == Init => Inv
<1> SUFFICES ASSUME Init PROVE Inv
  OBVIOUS
<1> USE VerifyAssumption
<1>1. AuthInv
  <2>1. Auth!AuthTypeOK
    BY IdleTrip DEF Init, Auth!AuthInit, Auth!AuthTypeOK
  <2>2. CachedLives /\ TripLives
    BY DEF Init, Auth!AuthInit, Auth!NoTokens, CachedLives, TripLives, Auth!Idle, Auth!Leg
  <2> QED
    BY <2>1, <2>2 DEF AuthInv
<1>2. LF!TypeOK
  BY EmptyMapTyped DEF Init, LF!TypeOK, LF!BlobMap, Recordable
<1>3. TypeOK
  BY <1>1, <1>2, EmptyMapTyped DEF Init, TypeOK, AuthInv
<1>4. Phase /\ Lists /\ Maps /\ Confirmed
  BY DEF Init, Phase, Lists, Maps, Confirmed, ConfirmedUnlessRefused, Auth!AuthInit,
     Auth!Idle, Auth!Leg
<1> QED
  BY <1>1, <1>3, <1>4 DEF Inv

\* All that happens to the store: a blob is committed, by verify or another
\* command.
StoreGrows == store' = store \/ \E h \in Contents : store' = [store EXCEPT ![h] = h]

\* What is in the store under its hash stays there.
LEMMA PresentStays ==
  ASSUME TypeOK, StoreGrows,
         NEW i \in LF!BlobInfo, Present(i)
  PROVE  Present(i)'
  BY DEF TypeOK, StoreGrows, Present, LF!BlobInfo

\* A manifest that is derived from the first one stays so.
LEMMA DerivedStays ==
  ASSUME TypeOK, StoreGrows,
         UNCHANGED <<before, repair>>, missing \subseteq missing',
         NEW m \in LF!BlobMap, Derived(m)
  PROVE  \A u \in Urls : m[u] = before'[u] \/
           (repair' /\ u \in missing' /\ m[u] # None /\ Present(m[u])')
<1> SUFFICES ASSUME NEW u \in Urls, m[u] # before[u]
             PROVE  repair /\ u \in missing /\ m[u] # None /\ Present(m[u])'
  OBVIOUS
<1>1. repair /\ u \in missing /\ m[u] # None /\ Present(m[u])
  BY DEF Derived
<1>2. m[u] \in LF!BlobInfo
  BY <1>1 DEF LF!BlobMap
<1> QED
  BY <1>1, <1>2, PresentStays

\* Steps that leave the manifest alone.
LEMMA MapsStay ==
  ASSUME Inv, StoreGrows,
         UNCHANGED <<fileVars, before, repair>>, missing \subseteq missing', pc # "start"
  PROVE  Maps' /\ LF!TypeOK'
<1>1. LF!TypeOK /\ LF!TypeOK' /\ TypeOK /\ Maps
  BY DEF Inv, TypeOK, fileVars, LF!TypeOK
<1>2. st # "closed" => Derived(blobs)'
  <2>1. CASE st # "closed"
    <3>1. blobs \in LF!BlobMap /\ Derived(blobs) /\ blobs' = blobs
      BY <1>1, <2>1 DEF Maps, LF!TypeOK, fileVars
    <3> QED
      BY <1>1, <3>1, DerivedStays DEF Derived
  <2> QED
    BY <2>1
<1>3. disk \in LF!BlobMap => Derived(disk)'
  <2>1. CASE disk \in LF!BlobMap
    <3>1. Derived(disk) /\ disk' = disk
      BY <1>1, <2>1 DEF Maps, fileVars
    <3> QED
      BY <1>1, <2>1, <3>1, DerivedStays DEF Derived
  <2> QED
    BY <2>1
<1> QED
  BY <1>1, <1>2, <1>3 DEF Maps, fileVars

\* Return of doValidate: it may report success only if every entry has been
\* confirmed.
LEMMA ReturnInv ==
  ASSUME Inv, pc \in {"scan", "fetch", "save"}, NEW how \in {"ok", "error", "readonly"},
         Return(how), UNCHANGED <<fileVars, store, flagVars, missing, wrong, histVars>>,
         how = "ok" => \A u \in Entries(blobs) : Good(u)
  PROVE  Inv'
<1>1. Maps' /\ LF!TypeOK'
  BY MapsStay DEF flagVars, histVars, StoreGrows
<1>2. AuthInv'
  BY AuthRests DEF Inv, Return
<1>3. TypeOK'
  BY <1>1, <1>2 DEF Inv, TypeOK, AuthInv, Return, flagVars, histVars
<1>4. Phase' /\ Lists'
  BY DEF Inv, Phase, Lists, Return, fileVars, flagVars, histVars, Entries,
     Auth!Idle, Auth!Leg
<1>5. Confirmed'
  <2>1. pc' = "close" /\ retErr' = how
        /\ UNCHANGED <<blobs, store, options, refused>>
    BY DEF Return, fileVars, histVars
  <2>2. \A u \in Entries(blobs) : Good(u)' <=> Good(u)
    BY <2>1 DEF Good, Present
  <2> QED
    BY <2>1, <2>2 DEF Confirmed, ConfirmedUnlessRefused, Entries
<1> QED
  BY <1>1, <1>2, <1>3, <1>4, <1>5 DEF Inv

\* A step within the loop over the missing entries that only moves on.
LEMMA FetchMoves ==
  ASSUME Inv, pc = "fetch", pc' = "fetch", AuthInv',
         UNCHANGED <<fileVars, store, flagVars, missing, wrong, got, retErr, before>>,
         todo' \subseteq missing, cur' \in missing \cup {None}, refused' \subseteq Urls,
         refused \subseteq refused', cur' = None => trip'.at = "idle",
         \A u \in todo \cup {cur} : u \in Urls => u \in todo' \cup {cur'} \/ Good(u)'
  PROVE  Inv'
<1>1. Maps' /\ LF!TypeOK'
  BY MapsStay DEF flagVars, histVars, StoreGrows
<1>2. TypeOK'
  BY <1>1 DEF Inv, TypeOK, AuthInv, flagVars
<1>3. Phase' /\ Lists'
  BY DEF Inv, Phase, Lists, fileVars, flagVars, Entries
<1>4. Confirmed'
  <2>1. ASSUME NEW u \in Entries(blobs) PROVE u \in wrong \cup todo' \cup {cur'} \/ Good(u)'
    <3>1. CASE u \in todo \cup {cur}
      BY <3>1 DEF Entries
    <3>2. CASE u \notin todo \cup {cur}
      <4>1. u \in wrong \/ Good(u)
        BY <3>2 DEF Inv, Confirmed
      <4>2. Good(u) => Good(u)'
        BY DEF Good, Present, fileVars
      <4> QED
        BY <4>1, <4>2
    <3> QED
      BY <3>1, <3>2
  <2> QED
    BY <2>1 DEF Confirmed, ConfirmedUnlessRefused, Entries, fileVars
<1> QED
  BY <1>1, <1>2, <1>3, <1>4 DEF Inv

\* Opening the manifest and the store keeps it.
LEMMA StartInv == Inv /\ Start => Inv'
<1> SUFFICES ASSUME Inv, Start PROVE Inv'
  OBVIOUS
<1> USE VerifyAssumption
<1>1. PICK nc \in SUBSET NoCacheUrls :
        LF!NewMapFile([Writable |-> repair, AllowOverwrite |-> repair, NoCache |-> nc])
  BY DEF Start
<1> DEFINE o == [Writable |-> repair, AllowOverwrite |-> repair, NoCache |-> nc]
<1>2. /\ pc = "start" /\ missing = {} /\ cur = None
      /\ disk \in LF!BlobMap \cup {NoFile, Torn} /\ LF!TypeOK /\ TypeOK
  BY DEF Inv, Start, Phase, TypeOK, LF!TypeOK
<1>3. o \in LF!Options /\ o.Writable = repair /\ o.AllowOverwrite = repair
  BY <1>2 DEF TypeOK, LF!Options
<1>4. disk \in LF!BlobMap \/ (disk = NoFile /\ repair)
  BY <1>1, <1>3 DEF LF!NewMapFile, LF!Loadable
<1>5. /\ st' = "open" /\ options' = o /\ disk' = disk /\ previousBlobs' = LF!EmptyMap
      /\ blobs' = IF disk = NoFile THEN LF!EmptyMap ELSE disk
      /\ dirty' = (disk = NoFile)
  BY <1>1 DEF LF!NewMapFile
<1>6. blobs' \in LF!BlobMap /\ LF!TypeOK'
  <2>1. blobs' \in LF!BlobMap
    BY <1>4, <1>5, EmptyMapTyped
  <2> QED
    BY <1>2, <1>3, <1>5, <2>1, EmptyMapTyped DEF LF!TypeOK
<1>7. before' = blobs' /\ UNCHANGED <<store, flagVars, missing, wrong, refused>>
  BY DEF Start
<1>8. Maps'
  <2>1. Derived(blobs)'
    BY <1>7 DEF Derived
  <2>2. disk' \in LF!BlobMap => disk' = blobs'
    BY <1>5
  <2>3. disk' \in LF!BlobMap => Derived(disk)'
    BY <2>1, <2>2 DEF Derived
  <2>4. ~options'.Writable \/ ~dirty' => disk' = blobs'
    BY <1>3, <1>4, <1>5
  <2> QED
    BY <2>1, <2>3, <2>4 DEF Maps
<1> HIDE DEF o
<1>9. CASE pc' = "scan" /\ todo' = Entries(blobs') /\ UNCHANGED <<retErr, cur, got, authVars>>
  <2>1. AuthInv'
    BY <1>9 DEF Inv, AuthInv, authVars, Auth!AuthTypeOK, CachedLives, TripLives
  <2>2. TypeOK'
    BY <1>2, <1>6, <1>7, <1>9, <2>1 DEF TypeOK, AuthInv, flagVars, Entries
  <2>3. Phase' /\ Lists'
    BY <1>2, <1>3, <1>5, <1>7, <1>9 DEF Inv, Phase, Lists, flagVars, Entries, authVars
  <2>4. Confirmed'
    BY <1>9 DEF Confirmed, ConfirmedUnlessRefused, Entries
  <2> QED
    BY <1>8, <2>1, <2>2, <2>3, <2>4 DEF Inv
<1>10. CASE Return("error")
  <2>1. AuthInv'
    BY <1>10, AuthRests DEF Inv, Return
  <2>2. TypeOK'
    BY <1>2, <1>6, <1>7, <1>10, <2>1 DEF TypeOK, AuthInv, flagVars, Return
  <2>3. Phase' /\ Lists'
    BY <1>2, <1>3, <1>5, <1>7, <1>10 DEF Phase, Lists, flagVars, Entries, Return,
       Auth!Idle, Auth!Leg
  <2>4. Confirmed'
    BY <1>10 DEF Confirmed, ConfirmedUnlessRefused, Return
  <2> QED
    BY <1>8, <2>1, <2>2, <2>3, <2>4 DEF Inv
<1> QED
  BY <1>9, <1>10 DEF Start

\* A look at one entry of the manifest keeps it.
LEMMA ScanInv ==
  ASSUME Inv, NEW u \in Urls, Scan(u)
  PROVE  Inv'
<1> USE VerifyAssumption
<1>1. /\ pc = "scan" /\ u \in todo /\ todo' = todo \ {u}
      /\ UNCHANGED <<fileVars, authVars, store, flagVars, pc, cur, got, retErr, histVars>>
  BY DEF Scan
<1>2. /\ missing' = IF store[blobs[u].sha] = None THEN missing \cup {u} ELSE missing
      /\ wrong' = IF store[blobs[u].sha] \notin {None, blobs[u].sha}
                    THEN wrong \cup {u} ELSE wrong
  BY DEF Scan
<1>3. Maps' /\ LF!TypeOK'
  BY <1>1, <1>2, MapsStay DEF flagVars, histVars, StoreGrows
<1>4. AuthInv'
  BY <1>1 DEF Inv, AuthInv, authVars, Auth!AuthTypeOK, CachedLives, TripLives
<1>5. TypeOK'
  BY <1>1, <1>2, <1>3, <1>4 DEF Inv, TypeOK, AuthInv, flagVars, histVars
<1>6. Phase' /\ Lists'
  <2>1. u \in Entries(before)
    BY <1>1 DEF Inv, Lists
  <2> QED
    BY <1>1, <1>2, <2>1
    DEF Inv, Phase, Lists, fileVars, authVars, flagVars, histVars, Entries
<1>7. Confirmed'
  <2>1. ASSUME NEW v \in Entries(blobs) \ todo'
        PROVE  v \in missing' \cup wrong' \/ Present(blobs[v])
    <3>1. CASE v = u
      BY <1>2, <3>1 DEF Present
    <3>2. CASE v # u
      BY <1>1, <1>2, <3>2 DEF Inv, Confirmed
    <3> QED
      BY <3>1, <3>2
  <2>2. \A v \in Urls : Present(blobs[v])' <=> Present(blobs[v])
    BY <1>1 DEF Present, fileVars
  <2> QED
    BY <1>1, <2>1, <2>2 DEF Confirmed, ConfirmedUnlessRefused, Entries, fileVars
<1> QED
  BY <1>3, <1>4, <1>5, <1>6, <1>7 DEF Inv

\* The loop over the entries ends.
LEMMA ScanEndsInv == Inv /\ ScanEnds => Inv'
<1> SUFFICES ASSUME Inv, ScanEnds PROVE Inv'
  OBVIOUS
<1>1. /\ pc = "scan" /\ todo = {}
      /\ UNCHANGED <<fileVars, store, flagVars, missing, wrong, histVars>>
  BY DEF ScanEnds
<1>2. \A u \in Entries(blobs) : u \in missing \cup wrong \/ Present(blobs[u])
  BY <1>1 DEF Inv, Confirmed
<1>3. CASE ~(fetch \/ repair)
  <2>1. Result \in {"ok", "error"}
        /\ (Result = "ok" => \A u \in Entries(blobs) : Good(u))
    BY <1>2, <1>3 DEF Result, Good
  <2> QED
    BY <1>1, <1>3, <2>1, ReturnInv DEF ScanEnds
<1>4. CASE fetch \/ repair
  <2>1. pc' = "fetch" /\ todo' = missing /\ UNCHANGED <<retErr, cur, got, authVars>>
    BY <1>4 DEF ScanEnds
  <2>2. Maps' /\ LF!TypeOK'
    BY <1>1, MapsStay DEF flagVars, histVars, StoreGrows
  <2>3. AuthInv'
    BY <2>1 DEF Inv, AuthInv, authVars, Auth!AuthTypeOK, CachedLives, TripLives
  <2>4. TypeOK'
    BY <1>1, <2>1, <2>2, <2>3 DEF Inv, TypeOK, AuthInv, flagVars, histVars
  <2>5. Phase' /\ Lists'
    BY <1>1, <2>1 DEF Inv, Phase, Lists, fileVars, authVars, flagVars, histVars, Entries
  <2>6. Confirmed'
    <3>1. \A u \in Urls : Present(blobs[u])' <=> Present(blobs[u])
      BY <1>1 DEF Present, fileVars
    <3> QED
      BY <1>1, <1>2, <2>1, <3>1
      DEF Confirmed, ConfirmedUnlessRefused, Good, Entries, fileVars
  <2> QED
    BY <2>2, <2>3, <2>4, <2>5, <2>6 DEF Inv
<1> QED
  BY <1>3, <1>4

\* The steps of the loop that neither save nor record.
LEMMA FetchInv ==
  ASSUME Inv, \/ \E u \in Urls : FetchStarts(u)
              \/ Travel \/ Tick \/ FetchFails \/ FetchPassed \/ SaveFails \/ FetchEnds
  PROVE  Inv'
<1> USE VerifyAssumption
<1>t. TypeOK /\ AuthInv /\ Lists /\ Phase
  BY DEF Inv
<1>1. ASSUME NEW u \in Urls, FetchStarts(u) PROVE Inv'
  <2>1. /\ pc = "fetch" /\ u \in todo /\ cur = None /\ cur' = u /\ todo' = todo \ {u}
        /\ UNCHANGED <<fileVars, store, flagVars, pc, missing, wrong, got, retErr, histVars>>
    BY <1>1 DEF FetchStarts
  <2>2. AuthInv'
    BY <1>1, <1>t, AuthStep DEF FetchStarts
  <2> QED
    BY <1>t, <2>1, <2>2, FetchMoves DEF Lists, histVars, TypeOK
<1>2. CASE Travel \/ Tick
  <2>1. /\ pc = "fetch"
        /\ UNCHANGED <<fileVars, store, flagVars, pc, listVars, retErr, histVars>>
    BY <1>2 DEF Travel, Tick
  <2>2. AuthInv'
    BY <1>2, <1>t, AuthStep DEF Travel, Tick
  <2>3. cur = None => trip'.at = "idle"
    <3>1. cur = None => trip.at = "idle" /\ Tick
      BY <1>2, <1>t, <2>1 DEF Phase, Travel
    <3>2. Tick => trip'.at = trip.at
      BY <1>t DEF Tick, Auth!Tick, AuthInv, Auth!AuthTypeOK, Auth!Trip
    <3> QED
      BY <3>1, <3>2
  <2> QED
    BY <1>t, <2>1, <2>2, <2>3, FetchMoves DEF Lists, histVars, listVars, TypeOK
<1>3. CASE FetchFails
  BY <1>3, ReturnInv DEF FetchFails
<1>4. CASE SaveFails
  <2>1. PICK how \in {"error", "readonly"} : Return(how)
    BY <1>4 DEF SaveFails
  <2> QED
    BY <1>4, <2>1, ReturnInv DEF SaveFails, Saving
<1>5. CASE FetchPassed
  <2>1. /\ pc = "fetch" /\ cur' = None /\ trip' = Auth!Idle
        /\ UNCHANGED <<fileVars, tokens, store, flagVars, pc, todo, missing, wrong, got, retErr, before>>
        /\ refused' = IF trip.at = "refused" THEN refused \cup {cur} ELSE refused
        /\ trip.at \in {"refused", "expired"} \/ LF!SkipSave(cur)
    BY <1>5 DEF FetchPassed
  <2>2. AuthInv'
    BY <1>t, <2>1, AuthRests
  <2>3. trip.at # "expired"
    BY <1>t DEF AuthInv, TripLives
  <2>4. cur \in Urls
    <3>1. cur # None
      <4>1. trip.at # "idle"
        BY <1>5 DEF FetchPassed
      <4> QED
        BY <1>t, <4>1 DEF Phase
    <3> QED
      BY <1>t, <3>1 DEF TypeOK
  <2>5. /\ refused' \subseteq Urls /\ refused \subseteq refused'
        /\ cur \in options'.NoCache \cup refused'
    <3>1. CASE trip.at = "refused"
      BY <1>t, <2>1, <2>4, <3>1 DEF TypeOK
    <3>2. CASE trip.at # "refused"
      BY <1>t, <2>1, <2>3, <3>2 DEF LF!SkipSave, fileVars, TypeOK
    <3> QED
      BY <3>1, <3>2
  <2>6. trip'.at = "idle"
    BY <2>1 DEF Auth!Idle, Auth!Leg
  <2>7. \A u \in todo \cup {cur} : u \in todo' \cup {cur'} \/ Good(u)'
    <3>1. ASSUME NEW u \in todo \cup {cur} PROVE u \in todo' \/ Good(u)'
      <4>1. CASE u = cur
        BY <2>5, <4>1 DEF Good
      <4>2. CASE u # cur
        BY <2>1, <3>1, <4>2
      <4> QED
        BY <4>1, <4>2
    <3> QED
      BY <3>1
  <2> QED
    BY <1>t, <2>1, <2>2, <2>5, <2>6, <2>7, FetchMoves DEF Lists, TypeOK
<1>6. CASE FetchEnds
  <2>1. pc = "fetch" /\ todo = {} /\ cur = None /\ Return(Result)
        /\ UNCHANGED <<fileVars, store, flagVars, missing, wrong, histVars>>
    BY <1>6 DEF FetchEnds
  <2>2. \A u \in Entries(blobs) : u \in wrong \/ Good(u)
    BY <2>1 DEF Inv, Confirmed, Entries
  <2>3. Result \in {"ok", "error"} /\ (Result = "ok" => \A u \in Entries(blobs) : Good(u))
    BY <2>2 DEF Result
  <2> QED
    BY <2>1, <2>3, ReturnInv
<1> QED
  BY <1>1, <1>2, <1>3, <1>4, <1>5, <1>6

\* The body is in the store before the entry is recorded.
LEMMA SaveInv ==
  ASSUME Inv, NEW i \in Recordable, Save(i)
  PROVE  Inv'
<1> USE VerifyAssumption
<1>1. /\ pc = "fetch" /\ trip.at = "ok" /\ pc' = "save" /\ got' = i /\ trip' = Auth!Idle
      /\ store' = [store EXCEPT ![i.sha] = i.sha]
      /\ UNCHANGED <<fileVars, tokens, flagVars, todo, missing, wrong, cur, retErr, histVars>>
  BY DEF Save, Saving
<1>2. i \in LF!BlobInfo /\ i.sha \in Contents
  BY DEF Recordable, LF!BlobInfo
<1>3. StoreGrows
  BY <1>1, <1>2 DEF StoreGrows
<1>4. Maps' /\ LF!TypeOK'
  BY <1>1, <1>3, MapsStay DEF flagVars, histVars
<1>5. AuthInv' /\ trip'.at = "idle"
  BY <1>1, AuthRests DEF Inv, Auth!Idle, Auth!Leg
<1>6. TypeOK'
  BY <1>1, <1>2, <1>4, <1>5 DEF Inv, TypeOK, AuthInv, flagVars, histVars
<1>7. Phase'
  BY <1>1, <1>5 DEF Inv, Phase, fileVars, flagVars
<1>8. Lists'
  <2>1. cur \in missing
    BY <1>1 DEF Inv, Phase, Lists
  <2>2. Present(got)'
    BY <1>1, <1>2 DEF Inv, TypeOK, Present
  <2> QED
    BY <1>1, <1>2, <2>1, <2>2 DEF Inv, Lists, histVars, Entries
<1>9. Confirmed'
  <2>1. ASSUME NEW u \in Entries(blobs), Good(u) PROVE Good(u)'
    <3>1. blobs[u] \in LF!BlobInfo
      BY DEF Inv, TypeOK, LF!TypeOK, LF!BlobMap, Entries
    <3>2. Present(blobs[u]) => Present(blobs[u])'
      <4>1. ASSUME NEW j \in LF!BlobInfo, Present(j) PROVE Present(j)'
        BY <1>3, <4>1, PresentStays DEF Inv
      <4>2. blobs' = blobs
        BY <1>1 DEF fileVars
      <4> QED
        BY <3>1, <4>1, <4>2 DEF Present
    <3> QED
      BY <1>1, <2>1, <3>2 DEF Good, fileVars, histVars
  <2> QED
    BY <1>1, <2>1 DEF Inv, Confirmed, ConfirmedUnlessRefused, Entries, fileVars
<1> QED
  BY <1>4, <1>5, <1>6, <1>7, <1>8, <1>9 DEF Inv

\* AddBlob: the entry changes only where --repair allows it.
LEMMA RecordInv == Inv /\ Record => Inv'
<1> SUFFICES ASSUME Inv, Record PROVE Inv'
  OBVIOUS
<1> USE VerifyAssumption
<1>1. /\ pc = "save" /\ LF!AddBlob(cur, got)
      /\ UNCHANGED <<store, flagVars, missing, wrong, histVars>>
  BY DEF Record
<1>2. /\ TypeOK /\ LF!TypeOK /\ Maps /\ Lists /\ Phase /\ AuthInv
      /\ st = "open" /\ cur \in missing /\ cur \in Urls /\ got \in LF!BlobInfo /\ Present(got)
      /\ options.Writable = repair /\ options.AllowOverwrite = repair
      /\ Derived(blobs) /\ trip.at = "idle"
  BY <1>1 DEF Inv, TypeOK, Maps, Lists, Phase
<1>3. blobs \in LF!BlobMap /\ blobs[cur] # None /\ before[cur] # None
  BY <1>2 DEF LF!TypeOK, Lists, Derived, Entries
<1>4. /\ UNCHANGED <<st, options, previousBlobs, disk>>
      /\ \/ UNCHANGED <<blobs, dirty>>
         \/ blobs' = [blobs EXCEPT ![cur] = got] /\ dirty' = TRUE /\ repair
  <2>1. CASE LF!SkipSave(cur)
    BY <1>1, <2>1 DEF LF!AddBlob, LF!vars
  <2>2. CASE ~LF!SkipSave(cur)
    BY <1>1, <1>2, <1>3, <2>2 DEF LF!AddBlob, LF!internalAddBlob, LF!Conflict
  <2> QED
    BY <2>1, <2>2
<1>5. blobs' \in LF!BlobMap /\ LF!TypeOK'
  <2>1. blobs' \in LF!BlobMap
    BY <1>2, <1>3, <1>4 DEF LF!BlobMap
  <2> QED
    BY <1>2, <1>4, <2>1 DEF LF!TypeOK
<1>6. \A u \in Urls : u # cur => blobs'[u] = blobs[u]
  BY <1>3, <1>4 DEF LF!BlobMap
<1>7. blobs'[cur] \in {blobs[cur], got} /\ (blobs'[cur] # blobs[cur] => repair)
  BY <1>2, <1>3, <1>4 DEF LF!BlobMap
<1>8. \A i : Present(i)' <=> store[i.sha] = i.sha
  BY <1>1 DEF Present
<1>9. Maps'
  <2>1. ASSUME NEW u \in Urls, blobs'[u] # before[u]
        PROVE  repair /\ u \in missing /\ blobs'[u] # None /\ store[blobs'[u].sha] = blobs'[u].sha
    <3>1. CASE blobs'[u] = blobs[u]
      BY <1>2, <2>1, <3>1 DEF Derived, Present
    <3>2. CASE blobs'[u] # blobs[u]
      BY <1>2, <1>6, <1>7, <3>2 DEF Present
    <3> QED
      BY <3>1, <3>2
  <2>2. Derived(blobs)'
    BY <1>1, <2>1 DEF Derived, Present, flagVars, histVars
  <2>3. disk' \in LF!BlobMap => Derived(disk)'
    <3>1. CASE disk \in LF!BlobMap
      <4>1. Derived(disk)
        BY <1>1, <1>2, <3>1 DEF Maps
      <4> QED
        BY <1>1, <1>4, <4>1 DEF Derived, Present, flagVars, histVars
    <3> QED
      BY <1>4, <3>1
  <2>4. ~options'.Writable \/ ~dirty' => disk' = blobs'
    BY <1>2, <1>4 DEF Maps
  <2> QED
    BY <2>2, <2>3, <2>4 DEF Maps
<1>10. CASE /\ ~LF!AddError(cur, got) /\ pc' = "fetch" /\ cur' = None /\ got' = None
            /\ UNCHANGED <<authVars, todo, retErr>>
  <2>1. AuthInv' /\ trip'.at = "idle"
    BY <1>2, <1>10 DEF AuthInv, authVars, Auth!AuthTypeOK, CachedLives, TripLives
  <2>2. TypeOK'
    BY <1>1, <1>2, <1>5, <1>10, <2>1 DEF TypeOK, AuthInv, flagVars, histVars
  <2>3. Phase' /\ Lists'
    BY <1>1, <1>2, <1>4, <1>10, <2>1 DEF Phase, Lists, flagVars, histVars, Entries
  <2>4. cur \in options.NoCache \/ blobs'[cur] = got
    <3>1. CASE LF!SkipSave(cur)
      BY <3>1 DEF LF!SkipSave
    <3>2. CASE ~LF!SkipSave(cur)
      <4>1. ~LF!Conflict(cur, got) /\ (blobs[cur] = got \/ options.Writable)
        BY <1>10, <3>2 DEF LF!AddError
      <4> QED
        BY <1>1, <1>2, <1>3, <3>2, <4>1
        DEF LF!AddBlob, LF!internalAddBlob, LF!BlobMap
    <3> QED
      BY <3>1, <3>2
  <2>5. ASSUME NEW u \in Entries(blobs') PROVE u \in wrong \cup todo \/ Good(u)'
    <3>1. CASE u = cur
      BY <1>2, <1>4, <1>8, <2>4, <3>1 DEF Good, Present
    <3>2. CASE u # cur
      <4>1. blobs'[u] = blobs[u] /\ u \in Entries(blobs)
        BY <1>6, <3>2 DEF Entries
      <4>2. u \in wrong \cup todo \/ Good(u)
        BY <1>1, <3>2, <4>1 DEF Inv, Confirmed
      <4> QED
        BY <1>1, <1>4, <4>1, <4>2 DEF Good, Present, histVars
    <3> QED
      BY <3>1, <3>2
  <2>6. Confirmed'
    BY <1>1, <1>10, <2>5 DEF Confirmed, ConfirmedUnlessRefused, Entries
  <2> QED
    BY <1>9, <2>1, <2>2, <2>3, <2>6 DEF Inv
<1>11. CASE Return("error")
  <2>1. AuthInv' /\ trip'.at = "idle"
    BY <1>2, <1>11, AuthRests DEF Return, Auth!Idle, Auth!Leg
  <2>2. TypeOK'
    BY <1>1, <1>2, <1>5, <1>11, <2>1 DEF TypeOK, AuthInv, flagVars, histVars, Return
  <2>3. Phase' /\ Lists'
    BY <1>1, <1>2, <1>4, <1>11, <2>1 DEF Phase, Lists, flagVars, histVars, Entries, Return
  <2>4. Confirmed'
    BY <1>11 DEF Confirmed, ConfirmedUnlessRefused, Return
  <2> QED
    BY <1>9, <2>1, <2>2, <2>3, <2>4 DEF Inv
<1> QED
  BY <1>10, <1>11 DEF Record

\* The deferred Close: what it leaves on disk is the manifest, or it reports
\* an error.
LEMMA CloseInv == Inv /\ Close => Inv'
<1> SUFFICES ASSUME Inv, Close PROVE Inv'
  OBVIOUS
<1> USE VerifyAssumption
<1>1. pc = "close" /\ UNCHANGED <<authVars, store, flagVars, listVars, histVars>>
  BY DEF Close
<1>2. /\ TypeOK /\ LF!TypeOK /\ Maps /\ Lists /\ Phase /\ AuthInv /\ Confirmed
      /\ st \in {"open", "saving"} /\ Derived(blobs) /\ blobs \in LF!BlobMap
  BY <1>1 DEF Inv, TypeOK, Maps, Phase, LF!TypeOK
<1>3. AuthInv' /\ trip'.at = trip.at
  BY <1>1, <1>2 DEF AuthInv, authVars, Auth!AuthTypeOK, CachedLives, TripLives
<1>5. Derived(blobs) /\ UNCHANGED blobs => Derived(blobs)'
  BY <1>1 DEF Derived, Present, flagVars, listVars, histVars
<1>6. Derived(disk) /\ UNCHANGED disk => Derived(disk)'
  BY <1>1 DEF Derived, Present, flagVars, listVars, histVars
<1>7. Derived(blobs) /\ disk' = blobs => Derived(disk)'
  BY <1>1 DEF Derived, Present, flagVars, listVars, histVars
<1>8. CASE LF!CloseTruncates /\ UNCHANGED <<pc, retErr>>
  <2>1. /\ st = "open" /\ st' = "saving" /\ disk' = Torn /\ UNCHANGED <<options, blobs, previousBlobs, dirty>>
    BY <1>8 DEF LF!CloseTruncates
  <2>2. LF!TypeOK'
    BY <1>2, <2>1 DEF LF!TypeOK
  <2>3. TypeOK'
    BY <1>1, <1>2, <1>3, <1>8, <2>2 DEF TypeOK, AuthInv, flagVars, listVars, histVars
  <2>4. Phase' /\ Lists'
    BY <1>1, <1>2, <1>3, <1>8, <2>1 DEF Phase, Lists, flagVars, listVars, histVars, Entries
  <2>5. Maps'
    BY <1>2, <1>5, <2>1 DEF Maps
  <2>6. Confirmed'
    BY <1>1, <1>2, <1>8, <2>1
    DEF Confirmed, ConfirmedUnlessRefused, Entries, Good, Present, histVars
  <2> QED
    BY <1>3, <2>3, <2>4, <2>5, <2>6 DEF Inv
<1>9. CASE pc' = "done" /\ (LF!CloseClean \/ LF!CloseWrites)
           /\ (UNCHANGED retErr \/ retErr' = "error")
  <2>1. disk' = blobs /\ UNCHANGED <<options, blobs, previousBlobs>> /\ st' = "saved"
        /\ dirty' \in BOOLEAN
    <3>1. CASE LF!CloseClean
      BY <1>2, <3>1 DEF LF!CloseClean, LF!MustSave, Maps, LF!TypeOK
    <3>2. CASE LF!CloseWrites
      BY <3>2 DEF LF!CloseWrites
    <3> QED
      BY <1>9, <3>1, <3>2
  <2>2. LF!TypeOK'
    BY <1>2, <2>1 DEF LF!TypeOK
  <2>3. TypeOK'
    BY <1>1, <1>2, <1>3, <1>9, <2>2 DEF TypeOK, AuthInv, flagVars, listVars, histVars
  <2>4. Phase' /\ Lists'
    BY <1>1, <1>2, <1>3, <1>9, <2>1 DEF Phase, Lists, flagVars, listVars, histVars, Entries
  <2>5. Maps'
    BY <1>2, <1>5, <1>7, <2>1 DEF Maps
  <2>6. Confirmed'
    <3>1. ASSUME retErr' = "ok", NEW u \in Entries(disk')
          PROVE  Present(disk[u])' \/ u \in options'.NoCache \cup refused'
      <4>1. retErr = "ok" /\ u \in Entries(blobs)
        BY <1>9, <2>1, <3>1 DEF Entries
      <4>2. Good(u)
        BY <1>1, <1>2, <4>1 DEF Confirmed
      <4> QED
        BY <1>1, <2>1, <4>2 DEF Good, Present, histVars
    <3>2. disk' \in LF!BlobMap
      BY <1>2, <2>1
    <3> QED
      BY <1>9, <3>1, <3>2 DEF Confirmed, ConfirmedUnlessRefused, Entries
  <2> QED
    BY <1>3, <2>3, <2>4, <2>5, <2>6 DEF Inv
<1>10. CASE LF!CloseFails /\ pc' = "done" /\ retErr' = "error"
  <2>1. st' = "saved" /\ UNCHANGED <<options, blobs, previousBlobs, dirty, disk>>
    BY <1>10 DEF LF!CloseFails
  <2>2. LF!TypeOK'
    BY <1>2, <2>1 DEF LF!TypeOK
  <2>3. TypeOK'
    BY <1>1, <1>2, <1>3, <1>10, <2>2 DEF TypeOK, AuthInv, flagVars, listVars, histVars
  <2>4. Phase' /\ Lists'
    BY <1>1, <1>2, <1>3, <1>10, <2>1 DEF Phase, Lists, flagVars, listVars, histVars, Entries
  <2>5. Maps'
    BY <1>1, <1>2, <1>5, <1>6, <2>1 DEF Maps
  <2>6. Confirmed'
    BY <1>10 DEF Confirmed, ConfirmedUnlessRefused
  <2> QED
    BY <1>3, <2>3, <2>4, <2>5, <2>6 DEF Inv
<1> QED
  BY <1>8, <1>9, <1>10 DEF Close

\* The command ends early, is killed, or another one uses the store.
LEMMA OutsideInv ==
  ASSUME Inv, StartFails \/ Kill \/ (\E h \in Contents : OtherStores(h)) \/ UNCHANGED vars
  PROVE  Inv'
<1> USE VerifyAssumption
<1>t. TypeOK /\ LF!TypeOK /\ Maps /\ Lists /\ Phase /\ AuthInv /\ Confirmed
  BY DEF Inv, TypeOK
<1>1. CASE StartFails
  <2>1. /\ pc = "start" /\ st = "closed" /\ pc' = "done" /\ retErr' \in {"panic", "error"}
        /\ UNCHANGED <<fileVars, authVars, store, flagVars, listVars, histVars>>
    BY <1>1, <1>t DEF StartFails, LF!NewMapFileFails, LF!vars, fileVars
  <2>2. pc = "start" /\ disk \in LF!BlobMap => FALSE
    BY <1>1 DEF StartFails, LF!NewMapFileFails, LF!Loadable
  <2>3. AuthInv' /\ trip'.at = trip.at
    BY <1>t, <2>1 DEF AuthInv, authVars, Auth!AuthTypeOK, CachedLives, TripLives
  <2>4. TypeOK'
    BY <1>t, <2>1, <2>3 DEF TypeOK, LF!TypeOK, AuthInv, fileVars, flagVars, listVars, histVars
  <2>5. Phase' /\ Lists' /\ Maps' /\ Confirmed'
    BY <1>t, <2>1, <2>2, <2>3 DEF Phase, Lists, Maps, Confirmed, ConfirmedUnlessRefused,
       fileVars, flagVars, listVars, histVars, Entries
  <2> QED
    BY <2>3, <2>4, <2>5 DEF Inv
<1>2. CASE Kill
  <2>1. /\ pc # "start" /\ pc' = "done" /\ retErr' = "killed" /\ st' = "closed"
        /\ todo' = {} /\ cur' = None /\ got' = None
        /\ tokens' = Auth!NoTokens /\ trip' = Auth!Idle
        /\ UNCHANGED <<store, flagVars, missing, wrong, histVars, disk>>
    BY <1>2 DEF Kill, LF!Die, LF!NoProcess
  <2>2. AuthInv' /\ trip'.at = "idle"
    BY <1>t, <2>1, AuthRests DEF Auth!Idle, Auth!Leg
  <2>3. LF!TypeOK'
    BY <1>2, <1>t, EmptyMapTyped DEF Kill, LF!Die, LF!NoProcess, LF!TypeOK
  <2>4. TypeOK'
    BY <1>t, <2>1, <2>2, <2>3 DEF TypeOK, AuthInv, flagVars, histVars
  <2>5. Phase' /\ Lists' /\ Confirmed'
    BY <1>t, <2>1, <2>2
    DEF Phase, Lists, Confirmed, ConfirmedUnlessRefused, flagVars, histVars, Entries
  <2>6. Maps'
    <3>1. disk \in LF!BlobMap => Derived(disk)
      BY <1>t, <2>1 DEF Maps
    <3>2. Derived(disk) => Derived(disk)'
      BY <2>1 DEF Derived, Present, flagVars, histVars
    <3> QED
      BY <2>1, <3>1, <3>2 DEF Maps
  <2> QED
    BY <2>2, <2>4, <2>5, <2>6 DEF Inv
<1>3. CASE (\E h \in Contents : OtherStores(h)) \/ UNCHANGED vars
  <2>1. /\ StoreGrows
        /\ UNCHANGED <<fileVars, authVars, flagVars, pc, listVars, retErr, histVars>>
    BY <1>3 DEF OtherStores, vars, StoreGrows
  <2>2. AuthInv' /\ trip'.at = trip.at
    BY <1>t, <2>1 DEF AuthInv, authVars, Auth!AuthTypeOK, CachedLives, TripLives
  <2>3. store' \in [Contents -> Contents \cup {None}]
    BY <1>t, <2>1 DEF StoreGrows, TypeOK
  <2>4. TypeOK'
    BY <1>t, <2>1, <2>2, <2>3
    DEF TypeOK, LF!TypeOK, AuthInv, fileVars, flagVars, listVars, histVars
  <2>5. ASSUME NEW i \in LF!BlobInfo, Present(i) PROVE Present(i)'
    BY <1>t, <2>1, <2>5, PresentStays
  <2>6. Phase' /\ Lists'
    <3>1. Phase'
      BY <1>t, <2>1, <2>2 DEF Phase, fileVars, flagVars, listVars
    <3>2. got \in LF!BlobInfo /\ Present(got) => Present(got)'
      <4>1. got' = got
        BY <2>1 DEF listVars
      <4> QED
        BY <2>5, <4>1 DEF Present
    <3>3. Lists'
      BY <1>t, <2>1, <3>2 DEF Lists, listVars, histVars, Entries
    <3> QED
      BY <3>1, <3>3
  <2>7. Maps'
    <3>1. CASE pc # "start"
      BY <2>1, <3>1, MapsStay DEF flagVars, listVars, histVars
    <3>2. CASE pc = "start"
      BY <1>t, <2>1, <3>2 DEF Phase, Maps, fileVars
    <3> QED
      BY <3>1, <3>2
  <2>8. Confirmed'
    <3>1. UNCHANGED <<blobs, disk, options, refused, pc, retErr, todo, missing, wrong, cur>>
      BY <2>1 DEF fileVars, listVars, histVars
    <3>2. ASSUME NEW u \in Entries(blobs), Present(blobs[u]) PROVE store'[blobs[u].sha] = blobs[u].sha
      <4>1. blobs[u] \in LF!BlobInfo
        BY <1>t DEF LF!TypeOK, LF!BlobMap, Entries
      <4> QED
        BY <2>5, <3>2, <4>1 DEF Present
    <3>3. ASSUME disk \in LF!BlobMap, NEW u \in Entries(disk), Present(disk[u])
          PROVE  store'[disk[u].sha] = disk[u].sha
      <4>1. disk[u] \in LF!BlobInfo
        BY <3>3 DEF LF!BlobMap, Entries
      <4> QED
        BY <2>5, <3>3, <4>1 DEF Present
    <3>4. \A u \in Entries(blobs) : Good(u) => Good(u)'
      BY <3>1, <3>2 DEF Good, Present
    <3>5. ConfirmedUnlessRefused'
      BY <1>t, <3>1, <3>3 DEF Confirmed, ConfirmedUnlessRefused, Present, Entries
    <3>6. \A u \in Entries(blobs) : Present(blobs[u]) => Present(blobs[u])'
      BY <3>1, <3>2 DEF Present
    <3> QED
      BY <1>t, <3>1, <3>4, <3>5, <3>6 DEF Confirmed, Entries
  <2> QED
    BY <2>2, <2>4, <2>6, <2>7, <2>8 DEF Inv
<1> QED
  BY <1>1, <1>2, <1>3

\* Every step of the command, its client or another command keeps it.
LEMMA StepInv == Inv /\ [Next]_vars => Inv'
<1> SUFFICES ASSUME Inv, [Next]_vars PROVE Inv'
  OBVIOUS
<1>1. CASE ScanFails
  BY <1>1, ReturnInv DEF ScanFails
<1> QED
  BY <1>1, StartInv, ScanInv, ScanEndsInv, FetchInv, SaveInv, RecordInv, CloseInv, OutsideInv
  DEF Next
-----------------------------------------------------------------------------
\* The invariant is inductive.
THEOREM Invariance == Spec => []Inv
  BY InitInv, StepInv, PTL DEF Spec

\* Every variable keeps its type.
THEOREM TypeCorrect == Spec => []TypeOK
  BY Invariance, PTL DEF Inv

\* If a token lives twice as long as a message takes, and the margin is twice
\* as long as well, the transport never presents a token that has expired.
THEOREM TokensAreUsedInTime == Spec => []TokenInTime
<1>1. Inv => TokenInTime
  BY DEF Inv, AuthInv, TripLives, TokenInTime, Auth!TokenInTime
<1> QED
  BY <1>1, Invariance, PTL

\* However verify ends, it has replaced entries only where --repair was given
\* and the old blob was missing, and only by one whose blob is in the store.
THEOREM RepairIsCareful == Spec => []ReplacesOnlyMissing
<1>1. Inv => ReplacesOnlyMissing
  BY DEF Inv, Maps, Derived, ReplacesOnlyMissing
<1> QED
  BY <1>1, Invariance, PTL

\* When verify reports success, the manifest on disk is complete and its blobs
\* are in the store, except for what is not to be cached or was refused.
THEOREM SuccessIsConfirmed == Spec => []ConfirmedUnlessRefused
<1>1. Inv => ConfirmedUnlessRefused
  BY DEF Inv, Confirmed
<1> QED
  BY <1>1, Invariance, PTL
=============================================================================
