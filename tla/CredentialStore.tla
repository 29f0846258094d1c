----------------------------- MODULE CredentialStore -----------------------------
(***************************************************************************)
(* CredentialStore on Linux: a secret is kept by the Secret Service of the *)
(* desktop session while it can be reached, and otherwise in a file.  An   *)
(* operation is several steps: calls of secret-tool, and calls of the file *)
(* system.  They are taken by the threads of AccountStorage, which may     *)
(* interleave and end between any two.                                     *)
(***************************************************************************)
EXTENDS Integers

CONSTANT Ref      \* the references secrets are stored under

VARIABLES
  service,    \* the secret the Secret Service keeps under each reference
  files,      \* the content of each reference's file
  reachable   \* secretToolAvailable, and the service unlocked

store == <<service, files, reachable>>

NoSecret == -1    \* no entry, or no file
Torn     == -2    \* the file is empty: opened for writing and not yet written

Secret == Nat

CredentialStoreTypeOK ==
  /\ service \in [Ref -> Secret \cup {NoSecret}]
  /\ files \in [Ref -> Secret \cup {NoSecret, Torn}]
  /\ reachable \in BOOLEAN

\* readFromSecretService
InService(ref) == IF reachable THEN service[ref] ELSE NoSecret

\* What get returns; it throws when it finds an empty file.
Get(ref) == IF InService(ref) # NoSecret THEN InService(ref) ELSE files[ref]

StoreInService(ref, secret) ==
  /\ reachable
  /\ service' = [service EXCEPT ![ref] = secret]
  /\ UNCHANGED <<files, reachable>>

\* Slip: the entry is overwritten with an empty secret.
EraseFromService_Empties(ref) ==
  /\ service' = IF reachable THEN [service EXCEPT ![ref] = Torn] ELSE service
  /\ UNCHANGED <<files, reachable>>

\* eraseFromSecretService, which nobody is told about when it fails.
EraseFromService(ref) ==
  /\ service' = IF reachable THEN [service EXCEPT ![ref] = NoSecret] ELSE service
  /\ UNCHANGED <<files, reachable>>

SetFile(ref, content) ==
  /\ files' = [files EXCEPT ![ref] = content]
  /\ UNCHANGED <<service, reachable>>

\* writeBytes opens the file, which empties it, and writes it then.
TruncateFile(ref)      == SetFile(ref, Torn)
WriteFile(ref, secret) == SetFile(ref, secret)
RemoveFile(ref)        == SetFile(ref, NoSecret)

\* The session bus, its keyring or secret-tool comes and goes.
Toggle == reachable' = ~ reachable /\ UNCHANGED <<service, files>>

=============================================================================
