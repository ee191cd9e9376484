----------------------------- MODULE ConnectProofs -----------------------------
(***************************************************************************)
(* The tunnel and the key files, proved for any number of proxies.         *)
(*                                                                         *)
(* What a tunnel leaves is a matter of what is open at each place of the   *)
(* handler (Tunnel).  What a child trusts is a matter of the files: as     *)
(* long as no two proxies have been generating at the same time, the one   *)
(* that saves is alone, the files are not a pair while it does, and so     *)
(* nobody works with a pair from the files; what others have read is not   *)
(* the pair it writes (Alone, SaverOK, ReaderOK).                          *)
(***************************************************************************)
EXTENDS Connect, TLAPS

\* What is open at each place of handleConnect: its connections are opened one
\* after the other, and the goroutine runs only while both are open.
Tunnel ==
  /\ pc \in {"none", "dial"} => ~src /\ ~dest /\ up = "none"
  /\ pc = "hijack" => ~src /\ up = "none"
  /\ pc \in {"closeSrc", "closeDest", "returned"} => up # "copying"
  /\ pc \in {"closeDest", "returned"} => ~src
  /\ pc = "returned" => ~dest

\* At most one proxy is saving a pair.
Alone == \A p, q \in Procs : at[p] \in K!Saving /\ at[q] \in K!Saving => p = q

\* The files hold a key and its certificate.
Pair == certFile \in CAs /\ keyFile = certFile

\* While a proxy saves the files are not a pair.  They are as far as it has got,
\* and nobody has read a certificate of the pair it is going to write.
SaverOK(p) ==
  /\ at[p] \in K!Saving => ~Pair /\ \A q \in Procs : read[q] # ca[p]
  /\ at[p] \in {"saveKey", "writeKey", "saveCert"} => certFile # ca[p]
  /\ at[p] = "writeKey" => keyFile = Torn
  /\ at[p] \in {"saveCert", "writeCert"} => keyFile = ca[p]
  /\ at[p] = "writeCert" => certFile = Torn

\* A certificate that was read is still the one in the file if its key is there;
\* who works with a pair from the files works with the one that is there.
ReaderOK(p) ==
  /\ at[p] = "readKey" /\ read[p] \in CAs /\ keyFile = read[p] => certFile = read[p]
  /\ at[p] = "serving" /\ files[p] => keyFile = ca[p] /\ certFile = ca[p]

\* A complete certificate is that of the key, unless it was there before without
\* it.
Files == certFile \in CAs /\ certFile # given => keyFile = certFile

\* Who works with a pair or saves one has one.
HasPair == \A p \in Procs : at[p] \in K!Saving \cup {"serving"} => ca[p] \in CAs

Keys == ~raced => Alone /\ Files /\ \A p \in Procs : SaverOK(p) /\ ReaderOK(p)

Inv == TypeOK /\ Tunnel /\ HasPair /\ Keys
-----------------------------------------------------------------------------
(* The tunnel.                                                             *)

\* At the start there is no tunnel, and the files hold anything.
LEMMA InitInv == Init => Inv
<1> SUFFICES ASSUME Init PROVE Inv
  OBVIOUS
<1> USE ConnectAssumption
<1>1. TypeOK
  BY DEF Init, NoTunnel, TypeOK, K!KeysInit, K!KeysTypeOK, K!File
<1>2. Tunnel
  BY DEF Init, NoTunnel, Tunnel
<1>3. HasPair
  BY DEF Init, HasPair, K!KeysInit, K!Saving
<1>4. Keys
  BY DEF Init, K!KeysInit, Keys, Alone, Files, SaverOK, ReaderOK, K!Saving
<1> QED BY <1>1, <1>2, <1>3, <1>4 DEF Inv

\* What the invariant says of the keys depends on the variables of TlsKeys only.
LEMMA KeysUnchanged ==
  ASSUME Inv, UNCHANGED keyVars
  PROVE  K!KeysTypeOK' /\ HasPair' /\ Keys'
BY DEF Inv, TypeOK, keyVars, K!KeysTypeOK, HasPair, Keys, Alone, Files, Pair,
       SaverOK, ReaderOK, K!Saving, K!File

\* A step of the request, of either end of the tunnel or of the setting of the
\* address keeps the invariant.
LEMMA TunnelStep ==
  ASSUME Inv,
         \/ SetTlsAddr \/ Accept \/ Dial \/ DialFails \/ Hijack
         \/ UpEnds \/ UpBreaks \/ DownEnds \/ DownBreaks
         \/ Drain \/ CloseSrc \/ CloseDest \/ Reuse
         \/ Handshake \/ Request \/ Answered
         \/ ClientCloses \/ PeerNotified \/ PeerCloses
  PROVE  Inv'
<1>1. UNCHANGED keyVars
  BY DEF SetTlsAddr, Accept, Dial, DialFails, Hijack, UpEnds, UpBreaks, DownEnds,
         DownBreaks, Drain, CloseSrc, CloseDest, Reuse, Handshake, Request, Answered, ClientCloses,
         PeerNotified, PeerCloses
<1>2. K!KeysTypeOK' /\ HasPair' /\ Keys'
  BY <1>1, KeysUnchanged
<1>3. TypeOK'
  BY <1>2 DEF Inv, TypeOK, SetTlsAddr, Accept, Dial, DialFails, Hijack, UpEnds, UpBreaks, DownEnds,
         DownBreaks, Drain, CloseSrc, CloseDest, Reuse, Handshake, Request, Answered, ClientCloses,
         PeerNotified, PeerCloses, tunVars
<1>4. Tunnel'
  BY DEF Inv, TypeOK, Tunnel, SetTlsAddr, Accept, Dial, DialFails, Hijack, UpEnds, UpBreaks, DownEnds,
         DownBreaks, Drain, CloseSrc, CloseDest, Reuse, Handshake, Request, Answered, ClientCloses,
         PeerNotified, PeerCloses, tunVars
<1> QED BY <1>2, <1>3, <1>4 DEF Inv
-----------------------------------------------------------------------------
(* The keys.                                                               *)

\* A pair that is new is a pair, and nothing known is it.
LEMMA FreshIsNew ==
  ASSUME NEW c \in K!Fresh
  PROVE  /\ c \in CAs /\ c # certFile /\ c # keyFile
         /\ \A q \in Procs : c # read[q]
BY DEF K!Fresh

\* A step of one proxy changes its own record and nobody else's.
LEMMA OneProxy ==
  ASSUME Inv, NEW p \in Procs, K!KeysStep(p) \/ K!Gone(p)
  PROVE  /\ K!KeysTypeOK'
         /\ HasPair'
         /\ \A q \in Procs \ {p} :
              at'[q] = at[q] /\ files'[q] = files[q] /\ read'[q] = read[q] /\ ca'[q] = ca[q]
         /\ given' = given
<1> USE ConnectAssumption, FreshIsNew DEF Inv, TypeOK, K!KeysTypeOK, K!File, HasPair, K!Saving, K!Goes
<1>1. CASE \E f, g \in BOOLEAN : K!Start(p, f, g)
  <2> PICK f \in BOOLEAN, g \in BOOLEAN : K!Start(p, f, g)
    BY <1>1
  <2>1. CASE f
    BY <2>1 DEF K!Start
  <2>2. CASE ~f
    BY <2>2 DEF K!Start
  <2> QED BY <2>1, <2>2
<1>2. ASSUME NEW from \in {"readCert", "readKey"}, K!Missing(p, from)
      PROVE  /\ K!KeysTypeOK' /\ HasPair'
             /\ \A q \in Procs \ {p} :
                  at'[q] = at[q] /\ files'[q] = files[q] /\ read'[q] = read[q] /\ ca'[q] = ca[q]
             /\ given' = given
  <2>1. CASE generate[p]
    BY <1>2, <2>1 DEF K!Missing
  <2>2. CASE ~generate[p]
    BY <1>2, <2>2 DEF K!Missing
  <2> QED BY <2>1, <2>2
<1>3. CASE at[p] = "readCert" /\ K!ReadCert(p)
  BY <1>2, <1>3 DEF K!ReadCert
<1>4. CASE at[p] = "readKey" /\ K!ReadKey(p)
  BY <1>2, <1>4 DEF K!ReadKey
<1>5. CASE K!SaveKey(p)
  BY <1>5 DEF K!SaveKey
<1>6. CASE K!WriteKey(p)
  BY <1>6 DEF K!WriteKey, K!Filled
<1>7. CASE K!SaveCert(p)
  BY <1>7 DEF K!SaveCert
<1>8. CASE K!WriteCert(p)
  BY <1>8 DEF K!WriteCert, K!Filled
<1>9. CASE K!SaveFails(p)
  BY <1>9 DEF K!SaveFails
<1>10. CASE K!Gone(p)
  BY <1>10 DEF K!Gone
<1> QED BY <1>1, <1>3, <1>4, <1>5, <1>6, <1>7, <1>8, <1>9, <1>10 DEF K!KeysStep

\* A step of a proxy that writes to neither file: only its own place matters,
\* and that what it reads is not what another is saving.
LEMMA ReadingStep ==
  ASSUME Inv, NEW p \in Procs, K!KeysStep(p) \/ K!Gone(p),
         ~raced, UNCHANGED <<keyFile, certFile>>,
         SaverOK(p)', ReaderOK(p)',
         read'[p] \in {read[p], NoFile} \/ read'[p] = certFile,
         at'[p] \in K!Saving =>
           at[p] \in K!Saving \/ \A q \in Procs : at[q] \notin K!Saving
  PROVE  Alone' /\ Files' /\ \A q \in Procs : SaverOK(q)' /\ ReaderOK(q)'
<1> USE ConnectAssumption
<1>1. \A q \in Procs \ {p} :
        at'[q] = at[q] /\ files'[q] = files[q] /\ read'[q] = read[q] /\ ca'[q] = ca[q]
  BY OneProxy
<1>2. Alone /\ Files /\ HasPair /\ \A q \in Procs : SaverOK(q) /\ ReaderOK(q)
  BY DEF Inv, Keys
<1>3. Alone'
  BY <1>1, <1>2 DEF Alone, K!Saving
<1>4. Files'
  <2>1. given' = given
    BY OneProxy
  <2> QED BY <1>2, <2>1 DEF Files
<1>5. ASSUME NEW q \in Procs \ {p} PROVE SaverOK(q)'
  <2>1. Pair' <=> Pair
    BY DEF Pair
  <2>2. ASSUME at[q] \in K!Saving PROVE \A r \in Procs : read'[r] # ca[q]
    <3>1. \A r \in Procs : read[r] # ca[q]
      BY <1>2, <2>2 DEF SaverOK
    <3>2. certFile # ca[q] /\ NoFile # ca[q]
      BY <1>2, <2>2 DEF SaverOK, HasPair, K!Saving
    <3> QED BY <1>1, <3>1, <3>2
  <2>3. at[q] \in K!Saving => ~Pair
    BY <1>2 DEF SaverOK
  <2>4. /\ at[q] \in {"saveKey", "writeKey", "saveCert"} => certFile # ca[q]
        /\ at[q] = "writeKey" => keyFile = Torn
        /\ at[q] \in {"saveCert", "writeCert"} => keyFile = ca[q]
        /\ at[q] = "writeCert" => certFile = Torn
    BY <1>2 DEF SaverOK
  <2>5. at'[q] = at[q] /\ ca'[q] = ca[q]
    BY <1>1
  <2>6. at'[q] \in K!Saving' => ~Pair' /\ \A r \in Procs : read'[r] # ca'[q]
    BY <2>1, <2>2, <2>3, <2>5 DEF K!Saving
  <2> QED BY <2>4, <2>5, <2>6 DEF SaverOK
<1>6. ASSUME NEW q \in Procs \ {p} PROVE ReaderOK(q)'
  BY <1>1, <1>2 DEF ReaderOK
<1> QED BY <1>3, <1>4, <1>5, <1>6

\* A step of the proxy that is saving: nobody else is, nobody relies on the
\* files, and the key of what others have read is not there after the step.
LEMMA SavingStep ==
  ASSUME Inv, NEW p \in Procs, K!KeysStep(p), ~raced,
         at[p] \in K!Saving, Files', SaverOK(p)', ReaderOK(p)',
         keyFile' \in {Torn, ca[p]}
  PROVE  Alone' /\ Files' /\ \A q \in Procs : SaverOK(q)' /\ ReaderOK(q)'
<1> USE ConnectAssumption
<1>1. \A q \in Procs \ {p} :
        at'[q] = at[q] /\ files'[q] = files[q] /\ read'[q] = read[q] /\ ca'[q] = ca[q]
  BY OneProxy
<1>2. Alone /\ HasPair /\ \A q \in Procs : SaverOK(q) /\ ReaderOK(q)
  BY DEF Inv, Keys
<1>3. \A q \in Procs \ {p} : at[q] \notin K!Saving
  BY <1>2 DEF Alone
<1>4. ~Pair /\ \A q \in Procs : read[q] # ca[p]
  BY <1>2 DEF SaverOK
<1>5. Alone'
  BY <1>1, <1>3 DEF Alone, K!Saving
<1>6. ASSUME NEW q \in Procs \ {p} PROVE SaverOK(q)' /\ ReaderOK(q)'
  <2>1. SaverOK(q)'
    BY <1>1, <1>3 DEF SaverOK, K!Saving
  <2>2. ~(read[q] \in CAs /\ keyFile' = read[q])
    BY <1>4
  <2>3. ~(at[q] = "serving" /\ files[q])
    <3>1. at[q] = "serving" => ca[q] \in CAs
      BY <1>2 DEF HasPair
    <3> QED BY <1>2, <1>4, <3>1 DEF ReaderOK, Pair
  <2>4. ReaderOK(q)'
    BY <1>1, <2>2, <2>3 DEF ReaderOK
  <2> QED BY <2>1, <2>4
<1> QED BY <1>5, <1>6

\* A proxy that finds one of the files missing: if it generates a pair it is the
\* only one to, and the pair is unknown to everybody.
LEMMA MissingStep ==
  ASSUME Inv, NEW p \in Procs, NEW from \in {"readCert", "readKey"}, at[p] = from,
         K!KeysStep(p), K!Missing(p, from), NoFile \in {keyFile, certFile}, ~raced'
  PROVE  Alone' /\ Files' /\ \A q \in Procs : SaverOK(q)' /\ ReaderOK(q)'
<1> USE ConnectAssumption
<1>1. /\ at \in [Procs -> {"off", "readCert", "readKey", "serving", "failed"} \cup K!Saving]
      /\ ca \in [Procs -> CAs \cup {NoFile}]
  BY DEF Inv, TypeOK, K!KeysTypeOK
<1>2. UNCHANGED <<keyFile, certFile, read>> /\ at'[p] \in {"saveKey", "failed"}
  BY <1>1 DEF K!Missing, K!Goes
<1>3. ~raced
  BY DEF K!Missing
<1>4. ReaderOK(p)'
  BY <1>2 DEF ReaderOK
<1>5. SaverOK(p)' /\ (at'[p] \in K!Saving => \A q \in Procs : at[q] \notin K!Saving)
  <2>1. CASE generate[p]
    <3>1. at'[p] = "saveKey" /\ \A q \in Procs : at[q] \notin K!Saving
      BY <1>1, <2>1 DEF K!Missing, K!Goes
    <3>2. PICK c \in K!Fresh : ca' = [ca EXCEPT ![p] = c]
      BY <2>1 DEF K!Missing
    <3>3. ca'[p] # certFile /\ \A q \in Procs : read[q] # ca'[p]
      BY <1>1, <3>2, FreshIsNew
    <3>4. ~Pair'
      BY <1>2 DEF Pair
    <3>5. SaverOK(p)'
      BY <1>2, <3>1, <3>3, <3>4 DEF SaverOK
    <3> QED BY <3>1, <3>5
  <2>2. CASE ~generate[p]
    <3>1. at'[p] = "failed"
      BY <1>1, <2>2 DEF K!Missing, K!Goes
    <3> QED BY <3>1 DEF SaverOK, K!Saving
  <2> QED BY <2>1, <2>2
<1> QED BY <1>2, <1>3, <1>4, <1>5, ReadingStep

\* A step of a proxy on its key files, or its end, keeps what the invariant says
\* of them.
LEMMA KeysStepInv ==
  ASSUME Inv, NEW p \in Procs, K!KeysStep(p) \/ K!Gone(p)
  PROVE  Keys'
<1> SUFFICES ASSUME ~raced'
             PROVE  Alone' /\ Files' /\ \A q \in Procs : SaverOK(q)' /\ ReaderOK(q)'
  BY DEF Keys
<1> USE ConnectAssumption
<1>1. Alone /\ Files /\ HasPair /\ SaverOK(p) /\ ReaderOK(p) /\ ~raced
  <2>1. raced => raced'
    BY DEF K!KeysStep, K!Gone, K!Start, K!ReadCert, K!ReadKey, K!Missing, K!SaveKey,
           K!WriteKey, K!SaveCert, K!WriteCert, K!SaveFails
  <2> QED BY <2>1 DEF Inv, Keys
<1>2. /\ keyFile \in K!File /\ certFile \in K!File
      /\ at \in [Procs -> {"off", "readCert", "readKey", "serving", "failed"} \cup K!Saving]
      /\ files \in [Procs -> BOOLEAN] /\ read \in [Procs -> K!File]
      /\ ca \in [Procs -> CAs \cup {NoFile}]
  BY DEF Inv, TypeOK, K!KeysTypeOK
<1>a. given' = given
  BY OneProxy
<1>3. CASE \E f, g \in BOOLEAN : K!Start(p, f, g)
  <2> PICK f \in BOOLEAN, g \in BOOLEAN : K!Start(p, f, g)
    BY <1>3
  <2>1. UNCHANGED <<keyFile, certFile, read>> /\ at'[p] \in {"readCert", "serving"}
    BY <1>2 DEF K!Start, K!Goes
  <2>2. files'[p] = f /\ (at'[p] = "serving" => ~f)
    BY <1>2 DEF K!Start, K!Goes
  <2>3. SaverOK(p)' /\ ReaderOK(p)' /\ at'[p] \notin K!Saving
    BY <2>1, <2>2 DEF SaverOK, ReaderOK, K!Saving
  <2> QED BY <1>1, <2>1, <2>3, ReadingStep
<1>4. CASE at[p] = "readCert" /\ K!ReadCert(p)
  <2>1. CASE certFile = NoFile
    <3>1. K!Missing(p, "readCert")
      BY <1>4, <2>1 DEF K!ReadCert
    <3>2. K!KeysStep(p)
      BY <1>4 DEF K!KeysStep
    <3> QED BY <1>4, <2>1, <3>1, <3>2, MissingStep
  <2>2. CASE certFile # NoFile
    <3>1. /\ UNCHANGED <<keyFile, certFile>>
          /\ at'[p] = "readKey" /\ read'[p] = certFile
      BY <1>2, <1>4, <2>2 DEF K!ReadCert, K!Goes
    <3>2. SaverOK(p)' /\ ReaderOK(p)' /\ at'[p] \notin K!Saving
      BY <3>1 DEF SaverOK, ReaderOK, K!Saving
    <3> QED BY <1>1, <3>1, <3>2, ReadingStep
  <2> QED BY <2>1, <2>2
<1>5. CASE at[p] = "readKey" /\ K!ReadKey(p)
  <2>1. CASE keyFile = NoFile
    <3>1. K!Missing(p, "readKey")
      BY <1>5, <2>1 DEF K!ReadKey
    <3>2. K!KeysStep(p)
      BY <1>5 DEF K!KeysStep
    <3> QED BY <1>5, <2>1, <3>1, <3>2, MissingStep
  <2>2. CASE keyFile # NoFile
    <3>1. UNCHANGED <<keyFile, certFile, files, read>> /\ at'[p] \in {"serving", "failed"}
      BY <1>2, <1>5, <2>2 DEF K!ReadKey, K!Goes
    <3>2. at'[p] = "serving" => ca'[p] = keyFile /\ keyFile \in CAs /\ keyFile = read[p]
      BY <1>2, <1>5, <2>2 DEF K!ReadKey, K!Goes
    <3>3. at'[p] = "serving" => certFile' = ca'[p] /\ keyFile' = ca'[p]
      BY <1>1, <1>5, <3>1, <3>2 DEF ReaderOK
    <3>4. SaverOK(p)' /\ ReaderOK(p)' /\ at'[p] \notin K!Saving
      BY <3>1, <3>3 DEF SaverOK, ReaderOK, K!Saving
    <3> QED BY <1>1, <3>1, <3>4, ReadingStep
  <2> QED BY <2>1, <2>2
<1>6. CASE K!SaveKey(p)
  <2>1. /\ at[p] = "saveKey" /\ at'[p] = "writeKey" /\ UNCHANGED <<ca, read>>
        /\ keyFile' = Torn /\ certFile' = certFile
    BY <1>2, <1>6 DEF K!SaveKey, K!Goes
  <2>2. ~Pair /\ certFile # ca[p] /\ \A q \in Procs : read[q] # ca[p]
    BY <1>1, <2>1 DEF SaverOK, K!Saving
  <2>3. Files' /\ ~Pair'
    BY <1>1, <1>a, <2>1, <2>2 DEF Files, Pair
  <2>4. SaverOK(p)' /\ ReaderOK(p)'
    BY <2>1, <2>2, <2>3 DEF SaverOK, ReaderOK
  <2> QED BY <1>1, <1>6, <2>1, <2>3, <2>4, SavingStep DEF K!Saving, K!KeysStep
<1>7. CASE K!WriteKey(p)
  <2>1. /\ at[p] = "writeKey" /\ at'[p] = "saveCert" /\ UNCHANGED <<ca, read>>
        /\ keyFile' = ca[p] /\ certFile' = certFile
    BY <1>1, <1>2, <1>7 DEF K!WriteKey, K!Goes, K!Filled, SaverOK
  <2>2. ~Pair /\ certFile # ca[p] /\ \A q \in Procs : read[q] # ca[p]
    BY <1>1, <2>1 DEF SaverOK, K!Saving
  <2>3. Files' /\ ~Pair'
    BY <1>1, <1>a, <2>1, <2>2 DEF Files, Pair
  <2>4. SaverOK(p)' /\ ReaderOK(p)'
    BY <2>1, <2>2, <2>3 DEF SaverOK, ReaderOK
  <2> QED BY <1>1, <1>7, <2>1, <2>3, <2>4, SavingStep DEF K!Saving, K!KeysStep
<1>8. CASE K!SaveCert(p)
  <2>1. /\ at[p] = "saveCert" /\ at'[p] = "writeCert" /\ UNCHANGED <<ca, read>>
        /\ keyFile' = keyFile /\ certFile' = Torn
    BY <1>2, <1>8 DEF K!SaveCert, K!Goes
  <2>2. keyFile = ca[p] /\ \A q \in Procs : read[q] # ca[p]
    BY <1>1, <2>1 DEF SaverOK, K!Saving
  <2>3. Files' /\ ~Pair'
    BY <2>1 DEF Files, Pair
  <2>4. SaverOK(p)' /\ ReaderOK(p)'
    BY <2>1, <2>2, <2>3 DEF SaverOK, ReaderOK
  <2> QED BY <1>1, <1>8, <2>1, <2>2, <2>3, <2>4, SavingStep DEF K!Saving, K!KeysStep
<1>9. CASE K!WriteCert(p)
  <2>1. /\ at[p] = "writeCert" /\ at'[p] = "serving" /\ ca' = ca /\ files' = files
        /\ keyFile' = keyFile /\ certFile' = ca[p]
    BY <1>1, <1>2, <1>9 DEF K!WriteCert, K!Goes, K!Filled, SaverOK
  <2>2. keyFile = ca[p]
    BY <1>1, <2>1 DEF SaverOK
  <2>3. Files' /\ SaverOK(p)' /\ ReaderOK(p)'
    BY <2>1, <2>2 DEF Files, SaverOK, ReaderOK, K!Saving
  <2> QED BY <1>1, <1>9, <2>1, <2>2, <2>3, SavingStep DEF K!Saving, K!KeysStep
<1>10. CASE K!SaveFails(p) \/ K!Gone(p)
  <2>1. /\ UNCHANGED <<keyFile, certFile>> /\ at'[p] \in {"off", "failed"}
        /\ read'[p] \in {read[p], NoFile}
    BY <1>2, <1>10 DEF K!SaveFails, K!Gone
  <2>2. SaverOK(p)' /\ ReaderOK(p)' /\ at'[p] \notin K!Saving
    BY <2>1 DEF SaverOK, ReaderOK, K!Saving
  <2> QED BY <1>1, <2>1, <2>2, ReadingStep
<1> QED BY <1>3, <1>4, <1>5, <1>6, <1>7, <1>8, <1>9, <1>10 DEF K!KeysStep
-----------------------------------------------------------------------------
(* The theorems.                                                           *)

\* Every step keeps the invariant: a proxy that goes takes its tunnel along.
LEMMA StepInv == Inv /\ [Next]_vars => Inv'
<1> SUFFICES ASSUME Inv, [Next]_vars PROVE Inv'
  OBVIOUS
<1>1. ASSUME NEW p \in Procs, Gone(p) PROVE Inv'
  <2>1. K!KeysTypeOK' /\ HasPair' /\ Keys'
    BY <1>1, OneProxy, KeysStepInv DEF Gone
  <2>2. CASE p = Proxy
    <3>1. TypeOK'
      BY <1>1, <2>1, <2>2 DEF Gone, TypeOK
    <3>2. Tunnel'
      BY <1>1, <2>2 DEF Gone, Tunnel
    <3> QED BY <2>1, <3>1, <3>2 DEF Inv
  <2>3. CASE p # Proxy
    BY <1>1, <2>1, <2>3 DEF Gone, Inv, TypeOK, Tunnel, tunVars
  <2> QED BY <2>2, <2>3
<1>2. ASSUME NEW p \in Procs, K!KeysStep(p), UNCHANGED <<addr, tunVars>> PROVE Inv'
  <2>1. K!KeysTypeOK' /\ HasPair' /\ Keys'
    BY <1>2, OneProxy, KeysStepInv
  <2> QED BY <1>2, <2>1 DEF Inv, TypeOK, Tunnel, tunVars
<1>3. CASE UNCHANGED vars
  <2>1. K!KeysTypeOK' /\ HasPair' /\ Keys'
    BY <1>3, KeysUnchanged DEF vars
  <2> QED BY <1>3, <2>1 DEF Inv, TypeOK, Tunnel, vars, tunVars
<1> QED BY <1>1, <1>2, <1>3, TunnelStep DEF Next

\* The invariant holds for any number of proxies that start, die and write to
\* the same files in any order, and for the requests to one of them.
THEOREM Invariance == Spec => []Inv
<1> QED BY InitInv, StepInv, PTL DEF Spec

\* Every variable of the tunnel and of the keys has its type.
THEOREM TypeCorrect == Spec => []TypeOK
<1>1. Inv => TypeOK
  BY DEF Inv
<1> QED BY <1>1, Invariance, PTL

\* When handleConnect returns both connections are closed and its goroutine has
\* ended, whichever of dial, hijack and copying it returned from and whoever
\* closed first.
THEOREM TunnelLeavesNothing == Spec => []NothingLeft
<1>1. Inv => NothingLeft
  BY DEF Inv, Tunnel, NothingLeft
<1> QED BY <1>1, Invariance, PTL

\* The child of each of any number of proxies trusts what its proxy signs with,
\* as long as no two have been generating a pair at the same time: a proxy that
\* generates later does not write over a certificate that is in use.
THEOREM ChildrenTrustTheirProxies == Spec => []ChildTrustsProxy
<1>1. Inv => ChildTrustsProxy
  BY DEF Inv, Keys, ReaderOK, ChildTrustsProxy, K!ChildTrustsProxy, K!Trusted
<1> QED BY <1>1, Invariance, PTL

\* Complete key and certificate files belong together, whatever they held at
\* first and whatever died in the middle of saving them: the key is written
\* first, by one proxy at a time.  Only a certificate that was there without its
\* key may be left beside another key.
THEOREM CompleteFilesArePair == Spec => []PairMatches
<1>1. Inv => PairMatches
  BY DEF Inv, Keys, Files, PairMatches, K!PairMatches
<1> QED BY <1>1, Invariance, PTL
=============================================================================
