------------------------------ MODULE TlsKeys ------------------------------
(***************************************************************************)
(* The certificate authority a proxy signs with, and the one its child is  *)
(* told to trust: newSelfSignedServer of proxyserver/http_proxy.go and     *)
(* sslCertFileAppender of htvend/environment_ssl_cert_file.go.             *)
(*                                                                         *)
(* Several proxies may be started with the same --tls-key-pem and          *)
(* --tls-cert-pem.  Each step here is one system call on one of the two    *)
(* files; os.WriteFile is two, and a process may die between any of them.  *)
(* A key and the certificate made with it are the same value.  Only the    *)
(* proxies write to the files: a user who replaces them is not modelled.   *)
(***************************************************************************)
CONSTANTS
  Procs,     \* the proxies
  CAs,       \* key pairs
  NoFile,    \* the file does not exist
  Torn       \* the file is empty or not one PEM text

VARIABLES
  keyFile, certFile,   \* the two files
  at,        \* at[p]: where proxy p is
  files,     \* files[p]: was p given the two paths?
  generate,  \* generate[p]: --tls-generate-if-missing
  read,      \* read[p]: the certificate it has read
  ca,        \* ca[p]: the pair it works with
  raced,     \* history: two proxies have been generating at the same time
  given      \* history: the certificate that was there at first, if its key
             \* was not, and NoFile otherwise

keyVars == <<keyFile, certFile, at, files, generate, read, ca, raced, given>>

Saving == {"saveKey", "writeKey", "saveCert", "writeCert"}
File == CAs \cup {NoFile, Torn}

KeysTypeOK ==
  /\ keyFile \in File /\ certFile \in File
  /\ at \in [Procs -> {"off", "readCert", "readKey", "serving", "failed"} \cup Saving]
  /\ files \in [Procs -> BOOLEAN] /\ generate \in [Procs -> BOOLEAN]
  /\ read \in [Procs -> File] /\ ca \in [Procs -> CAs \cup {NoFile}]
  /\ raced \in BOOLEAN /\ given \in File

\* The paths are the user's: each file may be missing, be torn or hold a key
\* or certificate, of one pair or of two.
KeysInit ==
  /\ keyFile \in File /\ certFile \in File
  /\ given = IF certFile = keyFile THEN NoFile ELSE certFile
  /\ at = [p \in Procs |-> "off"]
  /\ files = [p \in Procs |-> FALSE] /\ generate = [p \in Procs |-> FALSE]
  /\ read = [p \in Procs |-> NoFile] /\ ca = [p \in Procs |-> NoFile]
  /\ raced = FALSE

\* generateKeyCert makes a pair that nobody else has.
Fresh ==
  CAs \ ({keyFile, certFile, given} \cup {ca[p] : p \in Procs} \cup {read[p] : p \in Procs})

Goes(p, from, to) == at[p] = from /\ at' = [at EXCEPT ![p] = to]

\* Without paths the pair is generated and kept in memory.
Start(p, f, g) ==
  /\ files' = [files EXCEPT ![p] = f]
  /\ generate' = [generate EXCEPT ![p] = g]
  /\ IF f THEN Goes(p, "off", "readCert") /\ UNCHANGED ca
          ELSE /\ Goes(p, "off", "serving")
               /\ \E c \in Fresh : ca' = [ca EXCEPT ![p] = c]
  /\ UNCHANGED <<keyFile, certFile, read, raced, given>>

\* One of the files is missing: a new pair is generated and to be saved, or
\* the start fails.
Missing(p, from) ==
  /\ IF generate[p]
       THEN /\ Goes(p, from, "saveKey")
            /\ \E c \in Fresh : ca' = [ca EXCEPT ![p] = c]
            /\ raced' = (raced \/ \E q \in Procs : at[q] \in Saving)
       ELSE Goes(p, from, "failed") /\ UNCHANGED <<ca, raced>>
  /\ UNCHANGED <<keyFile, certFile, files, generate, read, given>>

\* LoadX509KeyPair reads the certificate, then the key, ...
ReadCert(p) ==
  IF certFile = NoFile THEN Missing(p, "readCert")
  ELSE /\ Goes(p, "readCert", "readKey")
       /\ read' = [read EXCEPT ![p] = certFile]
       /\ UNCHANGED <<keyFile, certFile, files, generate, ca, raced, given>>

\* A plausible bug: the two files are not checked against each other.
ReadKeyUnchecked(p) ==
  IF keyFile = NoFile THEN Missing(p, "readKey")
  ELSE /\ IF keyFile \in CAs
            THEN Goes(p, "readKey", "serving") /\ ca' = [ca EXCEPT ![p] = keyFile]
            ELSE Goes(p, "readKey", "failed") /\ UNCHANGED ca
       /\ UNCHANGED <<keyFile, certFile, files, generate, read, raced, given>>

\* ... and fails if either does not parse or they do not belong together.
ReadKey(p) ==
  IF keyFile = NoFile THEN Missing(p, "readKey")
  ELSE /\ IF keyFile \in CAs /\ keyFile = read[p]
            THEN Goes(p, "readKey", "serving") /\ ca' = [ca EXCEPT ![p] = keyFile]
            ELSE Goes(p, "readKey", "failed") /\ UNCHANGED ca
       /\ UNCHANGED <<keyFile, certFile, files, generate, read, raced, given>>

\* A file that another proxy has filled since it was truncated may become a
\* mixture of two.
Filled(file, c) == IF file = Torn THEN {c} ELSE {c, Torn}

\* A plausible bug: a key file that exists is kept.
SaveKeyIfMissing(p) ==
  /\ IF keyFile = NoFile
       THEN Goes(p, "saveKey", "writeKey") /\ keyFile' = Torn
       ELSE Goes(p, "saveKey", "saveCert") /\ UNCHANGED keyFile
  /\ UNCHANGED <<certFile, files, generate, read, ca, raced, given>>

SaveKey(p) ==
  /\ Goes(p, "saveKey", "writeKey") /\ keyFile' = Torn
  /\ UNCHANGED <<certFile, files, generate, read, ca, raced, given>>

WriteKey(p) ==
  /\ Goes(p, "writeKey", "saveCert") /\ keyFile' \in Filled(keyFile, ca[p])
  /\ UNCHANGED <<certFile, files, generate, read, ca, raced, given>>

SaveCert(p) ==
  /\ Goes(p, "saveCert", "writeCert") /\ certFile' = Torn
  /\ UNCHANGED <<keyFile, files, generate, read, ca, raced, given>>

WriteCert(p) ==
  /\ Goes(p, "writeCert", "serving") /\ certFile' \in Filled(certFile, ca[p])
  /\ UNCHANGED <<keyFile, files, generate, read, ca, raced, given>>

\* A directory or file cannot be made or written.
SaveFails(p) ==
  /\ at[p] \in Saving
  /\ at' = [at EXCEPT ![p] = "failed"]
  /\ UNCHANGED <<keyFile, certFile, files, generate, read, ca, raced, given>>

\* The process ends, by itself or killed.
Gone(p) ==
  /\ at[p] # "off"
  /\ at' = [at EXCEPT ![p] = "off"]
  /\ files' = [files EXCEPT ![p] = FALSE]
  /\ generate' = [generate EXCEPT ![p] = FALSE]
  /\ read' = [read EXCEPT ![p] = NoFile]
  /\ ca' = [ca EXCEPT ![p] = NoFile]
  /\ UNCHANGED <<keyFile, certFile, raced, given>>

KeysStep(p) ==
  \/ \E f, g \in BOOLEAN : Start(p, f, g)
  \/ at[p] = "readCert" /\ ReadCert(p)
  \/ at[p] = "readKey" /\ ReadKey(p)
  \/ SaveKey(p) \/ WriteKey(p) \/ SaveCert(p) \/ WriteCert(p) \/ SaveFails(p)

\* What the child of p finds at the path it was given: the file of the
\* command line, or a copy in its temporary directory.
Trusted(p) == IF files[p] THEN certFile ELSE ca[p]
-----------------------------------------------------------------------------
(* Properties.                                                             *)

\* No start of a proxy writes over a certificate that another proxy's child has
\* been told to trust, and no proxy signs with another pair than the one its
\* child is pointed at, whatever the files held at first; unless two proxies
\* generated a pair at the same time (sslCertFileAppender hands out the path,
\* not what was read).
ChildTrustsProxy ==
  ~raced => \A p \in Procs : at[p] = "serving" => Trusted(p) = ca[p]

\* Whatever dies in the middle of saving, a key file and a certificate file
\* that are both complete belong together, so that the next start finds a pair
\* or generates one; only a torn file, a race, or a certificate that was there
\* without its key and is not yet written over, is left for the user to remove.
PairMatches ==
  ~raced /\ keyFile \in CAs /\ certFile \in CAs /\ certFile # given
    => keyFile = certFile
=============================================================================
