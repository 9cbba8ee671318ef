---------------------------- MODULE ServerStart -----------------------------
(***************************************************************************)
(* How a process of this repository comes up: it imports the signer, which *)
(* loads or creates the key pair (SigningKeys), then caller_auth, which    *)
(* loads or creates the secret of the caller tokens in a third file        *)
(* (sign/src/caller_auth.py), and then issues and verifies tokens.         *)
(*                                                                         *)
(* A token is the secret it was made with.  Torn is here also the empty    *)
(* byte string: an empty secret file is read like any other, and HMAC      *)
(* accepts an empty key.                                                   *)
(***************************************************************************)
EXTENDS SigningKeys

VARIABLES
    secret,  \* keys/caller_auth_secret.key
    hold,    \* AUTHENTICATOR._secret in each process, NoFile if none
    auth,    \* where each process stands in importing caller_auth
    tokens   \* the secrets under which tokens were issued

startVars == <<vars, secret, hold, auth, tokens>>

StartTypeOK ==
    /\ TypeOK
    /\ secret \in KeyFile
    /\ hold \in [Processes -> KeyFile]
    /\ auth \in [Processes -> {"none", "fill", "up"}]
    /\ tokens \subseteq Nat \cup {Torn}

\* The secret is ignored by git, like the private key: it is there in the
\* deployments that have the private key.
StartInit ==
    /\ Init
    /\ secret = private
    /\ hold = [p \in Processes |-> NoFile]
    /\ auth = [p \in Processes |-> "none"]
    /\ tokens = {}

Stand(p, label) == auth' = [auth EXCEPT ![p] = label]

-----------------------------------------------------------------------------
\* Without TwoCreators the operator waits for the secret as for the pair: a
\* process starts once those before it are up, or are gone.
StartUp(p) ==
    /\ Start(p)
    /\ \/ TwoCreators
       \/ /\ \A q \in Processes : auth[q] # "fill"
          /\ secret # NoFile \/ \A q \in Processes : pc[q] = "down"
    /\ UNCHANGED <<secret, hold, auth, tokens>>

ImportSigner(p) ==
    /\ Import(p)
    /\ UNCHANGED <<secret, hold, auth, tokens>>

\* _load_or_create_secret: the file exists and its bytes are the secret.
LoadSecret(p) ==
    /\ pc[p] = "ready" /\ auth[p] = "none"
    /\ secret # NoFile
    /\ hold' = [hold EXCEPT ![p] = secret]
    /\ Stand(p, "up")
    /\ UNCHANGED <<vars, secret, tokens>>

\* It does not exist: a secret is generated and write_bytes opens the file.
CreateSecret(p) ==
    /\ pc[p] = "ready" /\ auth[p] = "none"
    /\ secret = NoFile
    /\ fresh' = fresh + 1
    /\ hold' = [hold EXCEPT ![p] = fresh + 1]
    /\ secret' = Torn
    /\ Stand(p, "fill")
    /\ UNCHANGED <<private, public, key, pc, signed, cut, tokens>>

\* Mutant: the secret is used and never reaches the file.
FillSecret_Lost(p) ==
    /\ auth[p] = "fill"
    /\ Stand(p, "up")
    /\ UNCHANGED <<vars, secret, hold, tokens>>

FillSecret(p) ==
    /\ auth[p] = "fill"
    /\ secret' = hold[p]
    /\ Stand(p, "up")
    /\ UNCHANGED <<vars, hold, tokens>>

\* create_token in a process that is up; verify_token accepts a token made
\* with the secret of its own process.
IssueToken(p) ==
    /\ auth[p] = "up"
    /\ tokens' = tokens \cup {hold[p]}
    /\ UNCHANGED <<vars, secret, hold, auth>>

Sign(p) ==
    /\ SignRecord(p)
    /\ UNCHANGED <<secret, hold, auth, tokens>>

\* The process ends or is killed on its way, in the middle of a write too.
Leave(p) ==
    /\ Exit(p)
    /\ auth[p] # "fill" \/ CrashAllowed
    /\ hold' = [hold EXCEPT ![p] = NoFile]
    /\ Stand(p, "none")
    /\ UNCHANGED <<secret, tokens>>

ComeUp(p) ==
    ImportSigner(p) \/ LoadSecret(p) \/ CreateSecret(p) \/ FillSecret(p)

\* Nobody is running: nothing happens until the operator starts a process.
Rest ==
    /\ \A p \in Processes : pc[p] = "down"
    /\ UNCHANGED startVars

StartNext ==
    \/ \E p \in Processes :
          StartUp(p) \/ ComeUp(p) \/ IssueToken(p) \/ Sign(p) \/ Leave(p)
    \/ Rest

StartSpec == StartInit /\ [][StartNext]_startVars

-----------------------------------------------------------------------------
\* "Another instance pointed at the same secret file" (CallerAuthenticator):
\* a token issued by any process, up or gone, verifies in every process that
\* is up, through restarts and kills, one between the opening and the filling
\* of the secret file included.  False when two processes create the secret,
\* or when one starts while another is filling the file.
TokensVerifyEverywhere ==
    \A s \in tokens, p \in Processes : auth[p] = "up" => hold[p] = s
=============================================================================
