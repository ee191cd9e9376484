---------------------------- MODULE BlobBackends ----------------------------
(***************************************************************************)
(* The blob store a command works with: CacheOptions.MakeBlobStore picks   *)
(* one of the three by --blobs-backend, and every process that shares the  *)
(* store picks the same one.  The state of the others stays as it is.      *)
(***************************************************************************)
EXTENDS DirectoryStore

VARIABLES
  backend,                               \* the value of --blobs-backend
  registry, uploads, upload, abandoned,  \* RegistryStore
  objects, tmpdir, tbu, left             \* S3Store

R == INSTANCE RegistryStore
S == INSTANCE S3Store

registryVars == <<registry, uploads, upload, abandoned>>
s3Vars == <<objects, tmpdir, tbu, left>>
allVars == <<backend, vars, registryVars, s3Vars>>

\* Any other value of the flag ends the command with an error.
MakeBlobStore == backend \in {"filesystem", "registry", "s3"}

BackendInit == MakeBlobStore /\ Init /\ R!Init /\ S!Init

BackendNext ==
  /\ \/ backend = "filesystem" /\ Next /\ UNCHANGED <<registryVars, s3Vars>>
     \/ backend = "registry" /\ R!Next /\ UNCHANGED <<vars, s3Vars>>
     \/ backend = "s3" /\ S!Next /\ UNCHANGED <<vars, registryVars>>
  /\ UNCHANGED backend

BackendSpec == BackendInit /\ [][BackendNext]_allVars

\* The bytes the registry has for an upload that can still be committed are
\* those of its digest, and bw is where they end (Write of the registry store).
RegistrySessionMatchesDigest == R!SessionMatchesDigest

\* An upload session that stays open has exactly one handle that will close it,
\* except after a failed Put or Cleanup or a death (Put, Cleanup).
RegistrySessionsOwned == R!SessionsOwned

\* The registry store implements the abstract store, request by request.
RegistryImplementsBlobStore == R!ImplementsBlobStore

\* What S3 has under a hash is the content that hashes to it (Write, Commit).
S3ContentAddressed == S!ContentAddressed

\* A temporary file of the S3 store has exactly one handle that will remove it,
\* except after a failed removal or a death (Commit, Cleanup).
S3TempsOwned == S!TempsOwned

\* The S3 store implements the abstract store.
S3ImplementsBlobStore == S!ImplementsBlobStore
=============================================================================
