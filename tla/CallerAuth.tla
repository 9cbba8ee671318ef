----------------------------- MODULE CallerAuth -----------------------------
(***************************************************************************)
(* Caller identities and their bearer tokens: sign/src/caller_auth.py.     *)
(*                                                                         *)
(* A token is an HMAC over the permissions its caller had when the token   *)
(* was issued.  It is a record here, and the HMAC is abstracted to         *)
(* membership in `issued': verify_token accepts exactly what this          *)
(* authenticator signed.  The rate limit is carried by the code and        *)
(* enforced nowhere, so the model leaves it out.                           *)
(***************************************************************************)
EXTENDS Naturals, FiniteSets

CONSTANTS
    Callers,          \* the caller ids that can be registered
    Permissions,      \* decision types, and "READ"
    InitialRegistry,  \* PREDEFINED_CALLERS: caller id -> granted permissions
    TTL,              \* DEFAULT_TTL_SECONDS, in ticks of the clock
    MaxTime,          \* bound: the last tick of the clock
    MaxTokens         \* bound: the number of distinct tokens issued

Registries == UNION {[D -> SUBSET Permissions] : D \in SUBSET Callers}

ASSUME CallerAuthAssumption ==
    /\ InitialRegistry \in Registries
    /\ TTL \in Nat \ {0}
    /\ MaxTime \in Nat

VARIABLES
    now,         \* time.time()
    registry,    \* _registry: a function on the callers registered so far
    issued,      \* the tokens this authenticator has signed
    changed_at   \* history: when the entry of each caller was last written

authVars == <<now, registry, issued, changed_at>>

CallerIdentity == [caller_id   : Callers,
                   permissions : SUBSET Permissions,
                   issued_at   : Nat,
                   expires_at  : Nat]

AuthTypeOK ==
    /\ now \in Nat
    /\ registry \in Registries
    /\ issued \subseteq CallerIdentity
    /\ changed_at \in [Callers -> Nat]

AuthInit ==
    /\ now = 0
    /\ registry = InitialRegistry
    /\ issued = {}
    /\ changed_at = [c \in Callers |-> 0]

-----------------------------------------------------------------------------
\* Mutant: off by one, a token still verifies in the second it expires.
is_expired_late(identity) == now > identity.expires_at

is_expired(identity) == now >= identity.expires_at

verify_token(token) == token \in issued /\ ~is_expired(token)

can_execute(identity, decision_type) ==
    /\ ~is_expired(identity)
    /\ decision_type \in identity.permissions

\* register_caller overwrites the entry; tokens already out are not touched.
RegisterCaller(c, permissions) ==
    /\ registry' = [d \in DOMAIN registry \cup {c} |->
                       IF d = c THEN permissions ELSE registry[d]]
    /\ changed_at' = [changed_at EXCEPT ![c] = now]
    /\ UNCHANGED <<now, issued>>

NewToken(c) == [caller_id   |-> c,
                permissions |-> registry[c],
                issued_at   |-> now,
                expires_at  |-> now + TTL]

\* create_token: an unknown caller id is a KeyError and issues nothing.
CreateToken(c) ==
    /\ c \in DOMAIN registry
    /\ Cardinality(issued) < MaxTokens
    /\ issued' = issued \cup {NewToken(c)}
    /\ UNCHANGED <<now, registry, changed_at>>

Tick ==
    /\ now < MaxTime
    /\ now' = now + 1
    /\ UNCHANGED <<registry, issued, changed_at>>

AuthNext ==
    \/ \E c \in Callers, p \in SUBSET Permissions : RegisterCaller(c, p)
    \/ \E c \in Callers : CreateToken(c)
    \/ Tick

AuthSpec == AuthInit /\ [][AuthNext]_authVars

-----------------------------------------------------------------------------
\* A permission can only be withdrawn by registering the caller again, and
\* tokens are never revoked: once the caller's entry has stood unchanged for
\* one TTL, every token that still verifies grants exactly that entry
\* (register_caller against create_token and is_expired).
WithdrawalTakesEffect ==
    \A token \in issued :
        /\ verify_token(token)
        /\ now >= changed_at[token.caller_id] + TTL
        => /\ token.caller_id \in DOMAIN registry
           /\ token.permissions = registry[token.caller_id]
=============================================================================
