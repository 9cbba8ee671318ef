---------------------------- MODULE SigningKeys -----------------------------
(***************************************************************************)
(* The keypair files of one signer: _load_or_create_keypair and Signer in  *)
(* sign/src/authority_signer.py, verify_record in signature_verifier.py.   *)
(*                                                                         *)
(* The pair is two files.  Every process that imports the signer, or only  *)
(* the verifier (which imports the signer for _canonical), runs            *)
(* _load_or_create_keypair; nothing locks the directory.  The private key  *)
(* is ignored by git and the public key is committed.  write_bytes empties *)
(* the file when it opens it and fills it in a second step; a process that *)
(* is killed in between leaves it like that.                               *)
(***************************************************************************)
EXTENDS Naturals

CONSTANTS
    Processes,     \* Python processes that import the signer or verifier
    NoFile,        \* a file that does not exist
    Torn,          \* a file that was opened for writing and not filled
    Deployments,   \* what may be on disk at first: see Init
    TwoCreators,   \* whether a process may start while another creates the pair
    CrashAllowed,  \* whether a process may be killed
    MaxKeys        \* bound: the number of keys generated

ASSUME KeysAssumption ==
    /\ Deployments \subseteq {"empty", "established", "checkout"}
    /\ TwoCreators \in BOOLEAN
    /\ CrashAllowed \in BOOLEAN
    /\ MaxKeys \in Nat
    /\ NoFile \notin Nat /\ Torn \notin Nat /\ NoFile # Torn

VARIABLES
    private,  \* keys/<name>_private.pem
    public,   \* <name>_public_key.pem
    key,      \* the private key each process holds, NoFile if none
    pc,       \* where each process stands in _load_or_create_keypair
    fresh,    \* number of the last key generated; key pairs are numbers
    signed,   \* the keys under which signed records exist
    cut       \* history: the keys whose public half a kill cut off in the writing

vars == <<private, public, key, pc, fresh, signed, cut>>

KeyFile == Nat \cup {NoFile, Torn}

TypeOK ==
    /\ private \in KeyFile
    /\ public \in KeyFile
    /\ key \in [Processes -> Nat \cup {NoFile}]
    /\ \A p \in Processes : key[p] = NoFile <=> pc[p] \in {"down", "load"}
    /\ pc \in [Processes -> {"down", "load", "write_private", "fill_private",
                             "overwrite_public", "fill_public", "check_public",
                             "write_public", "fill_missing", "ready"}]
    /\ fresh \in Nat
    /\ signed \subseteq Nat
    /\ cut \subseteq Nat

\* The deployments to start from: nothing on disk; both files of key 0, with
\* records signed; a checkout, which has the records and the public key only.
Init ==
    /\ \E disk \in Deployments :
          /\ private = (IF disk = "established" THEN 0 ELSE NoFile)
          /\ public = (IF disk = "empty" THEN NoFile ELSE 0)
          /\ signed = (IF disk = "empty" THEN {} ELSE {0})
    /\ key = [p \in Processes |-> NoFile]
    /\ pc = [p \in Processes |-> "down"]
    /\ fresh = 0
    /\ cut = {}

Goto(p, label) == pc' = [pc EXCEPT ![p] = label]

-----------------------------------------------------------------------------
\* Importing the module runs _load_or_create_keypair.  Without TwoCreators
\* the operator starts one process and waits for it while the pair is not there
\* or its public key is being written.
\* The bound: no process starts from nothing once MaxKeys keys were generated.
Start(p) ==
    /\ pc[p] = "down"
    /\ private # NoFile \/ fresh < MaxKeys
    /\ \/ TwoCreators
       \/ /\ private # NoFile /\ public # NoFile
          /\ \A q \in Processes : pc[q] \notin {"fill_public", "fill_missing"}
       \/ \A q \in Processes : pc[q] = "down"
    /\ Goto(p, "load")
    /\ UNCHANGED <<private, public, key, fresh, signed, cut>>

\* Mutant: the file is there and nobody reads it.
LoadPrivateUnread(p) ==
    /\ pc[p] = "load"
    /\ private # NoFile
    /\ Goto(p, "check_public")
    /\ UNCHANGED <<private, public, key, fresh, signed, cut>>

LoadPrivate(p) ==
    /\ pc[p] = "load"
    /\ private \in Nat
    /\ key' = [key EXCEPT ![p] = private]
    /\ Goto(p, "check_public")
    /\ UNCHANGED <<private, public, fresh, signed, cut>>

\* load_pem_private_key raises and the import fails: the process ends.
LoadFails(p) ==
    /\ pc[p] = "load"
    /\ private = Torn
    /\ Goto(p, "down")
    /\ UNCHANGED <<private, public, key, fresh, signed, cut>>

GeneratePrivate(p) ==
    /\ pc[p] = "load"
    /\ private = NoFile
    /\ fresh' = fresh + 1
    /\ key' = [key EXCEPT ![p] = fresh + 1]
    /\ Goto(p, "write_private")
    /\ UNCHANGED <<private, public, signed, cut>>

\* write_bytes opens the file: it exists from now on, empty.
OpenPrivate(p) ==
    /\ pc[p] = "write_private"
    /\ private' = Torn
    /\ Goto(p, "fill_private")
    /\ UNCHANGED <<public, key, fresh, signed, cut>>

OpenPublic(p) ==
    /\ pc[p] \in {"overwrite_public", "write_public"}
    /\ public' = Torn
    /\ Goto(p, IF pc[p] = "write_public" THEN "fill_missing" ELSE "fill_public")
    /\ UNCHANGED <<private, key, fresh, signed, cut>>

\* Mutant: the private key is used and not persisted.
WritePrivateLost(p) ==
    /\ pc[p] = "fill_private"
    /\ Goto(p, "overwrite_public")
    /\ UNCHANGED <<private, public, key, fresh, signed, cut>>

WritePrivate(p) ==
    /\ pc[p] = "fill_private"
    /\ private' = key[p]
    /\ Goto(p, "overwrite_public")
    /\ UNCHANGED <<public, key, fresh, signed, cut>>

\* After generating, the public key is written whether one exists or not.
OverwritePublic(p) ==
    /\ pc[p] = "fill_public"
    /\ public' = key[p]
    /\ Goto(p, "check_public")
    /\ UNCHANGED <<private, key, fresh, signed, cut>>

\* Mutant: the public key is written at each import.
PublicExists_Rewritten(p) ==
    /\ pc[p] = "check_public"
    /\ public # NoFile
    /\ Goto(p, "write_public")
    /\ UNCHANGED <<private, public, key, fresh, signed, cut>>

PublicExists(p) ==
    /\ pc[p] = "check_public"
    /\ public # NoFile
    /\ Goto(p, "ready")
    /\ UNCHANGED <<private, public, key, fresh, signed, cut>>

\* Mutant: the second write of the public key is dropped as redundant.
PublicMissingIgnored(p) ==
    /\ pc[p] = "check_public"
    /\ public = NoFile
    /\ Goto(p, "ready")
    /\ UNCHANGED <<private, public, key, fresh, signed, cut>>

PublicMissing(p) ==
    /\ pc[p] = "check_public"
    /\ public = NoFile
    /\ Goto(p, "write_public")
    /\ UNCHANGED <<private, public, key, fresh, signed, cut>>

WritePublic(p) ==
    /\ pc[p] = "fill_missing"
    /\ public' = key[p]
    /\ Goto(p, "ready")
    /\ UNCHANGED <<private, key, fresh, signed, cut>>

\* sign_record, by any of the sign_* and issue_* functions.
SignRecord(p) ==
    /\ pc[p] = "ready"
    /\ signed' = signed \cup {key[p]}
    /\ UNCHANGED <<private, public, key, pc, fresh, cut>>

\* The process ends, or is killed on its way.
Exit(p) ==
    /\ pc[p] = "ready" \/ (CrashAllowed /\ pc[p] # "down")
    /\ Goto(p, "down")
    /\ key' = [key EXCEPT ![p] = NoFile]
    /\ cut' = cut \cup IF pc[p] \in {"fill_public", "fill_missing"} THEN {key[p]} ELSE {}
    /\ UNCHANGED <<private, public, fresh, signed>>

\* The steps of _load_or_create_keypair.
Import(p) ==
    \/ LoadPrivate(p) \/ LoadFails(p) \/ GeneratePrivate(p)
    \/ OpenPrivate(p) \/ WritePrivate(p)
    \/ OpenPublic(p) \/ OverwritePublic(p)
    \/ PublicExists(p) \/ PublicMissing(p) \/ WritePublic(p)

Next == \E p \in Processes :
    Start(p) \/ Import(p) \/ SignRecord(p) \/ Exit(p)

Spec == Init /\ [][Next]_vars

-----------------------------------------------------------------------------
\* verify_record: only the public key file counts; an empty one raises.
verify_record(k) == public \in Nat /\ public = k

\* "Verification works from a fresh checkout without regenerating anything"
\* (CLAIMS.md): while nobody is importing the signer, every signed record
\* verifies.  False after a checkout.  False also after a kill that cut off the
\* public key, which is never repaired, for what is signed from then on.
EverySignedRecordVerifies ==
    (\A p \in Processes : pc[p] \in {"down", "ready"})
        => \A k \in signed : verify_record(k)

\* A kill in the writing of the public key is the only way to a record that
\* does not verify, at any moment: from established files for any number of
\* processes, from nothing for one creator, through kills everywhere else,
\* between the two files and inside the private one.  False when two processes
\* create the pair at once.
OnlyACutKeyFails ==
    \A k \in signed : verify_record(k) \/ k \in cut

\* "Any previously signed decision, current or historical" can be verified
\* (PRODUCTION_DEPLOYMENT.md): a record that verified once verifies ever after.
\* Kills do not change that: a public key they cut off never verified anything.
VerifiesForEver ==
    [][\A k \in signed : verify_record(k) => verify_record(k)']_vars

\* Whoever may sign holds the key of the files: what it signs next will verify
\* and will still verify after its restart, unless its public key was cut off.
SignersAgreeWithFiles ==
    \A p \in Processes : pc[p] = "ready" =>
        /\ key[p] = private
        /\ public = key[p] \/ (public = Torn /\ key[p] \in cut)
=============================================================================
