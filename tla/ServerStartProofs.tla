------------------------- MODULE ServerStartProofs --------------------------
(***************************************************************************)
(* The files that a process reads or creates when it comes up, for any     *)
(* number of processes and kills at any step.  First the key pair alone:   *)
(* where no second process starts before the pair is on disk, and the disk *)
(* did not begin as a checkout, both files and every signer agree, but for *)
(* a public key that a kill cut off.  Then the same with the token secret  *)
(* after it, and a token verifies in every process that is up: until the   *)
(* secret is filled its creator is alone, and from then on everybody reads *)
(* the same bytes.                                                         *)
(***************************************************************************)
EXTENDS ServerStart, TLAPS

\* How the deployment is operated: one process creates the pair, and the
\* private key is not left behind when the public key is copied.
OneCreator == ~TwoCreators /\ Deployments \subseteq {"empty", "established"}

Established == private # NoFile /\ public # NoFile

Filling(p) == pc[p] \in {"fill_public", "fill_missing"}

\* Before the pair is there, at most one process is up.
Alone ==
    ~Established \/ (\E p \in Processes : Filling(p)) =>
        \A p, q \in Processes : pc[p] # "down" /\ pc[q] # "down" => p = q

\* A torn public key is being filled, or a kill cut it off; while it is being
\* filled nothing was signed.
Tears ==
    /\ public = Torn => private \in cut \/ \E p \in Processes : Filling(p)
    /\ \A p \in Processes : Filling(p) => public = Torn /\ signed = {}

\* The key a process holds is in the files its program counter says it is.
Held(p) ==
    /\ pc[p] = "write_private" => private = NoFile /\ public = NoFile
    /\ pc[p] = "fill_private" => private = Torn /\ public = NoFile
    /\ pc[p] \in {"overwrite_public", "write_public"} => public = NoFile
    /\ pc[p] \in {"fill_public", "fill_missing", "ready"} => public # NoFile
    /\ pc[p] \notin {"down", "load", "write_private", "fill_private"} =>
          key[p] = private

KeysInv ==
    /\ TypeOK
    /\ Alone
    /\ Tears
    /\ \A p \in Processes : Held(p)
    /\ public # NoFile => private \in Nat /\ public \in {private, Torn}
    /\ \A k \in signed : k = private /\ public # NoFile

\* The inductive invariant holds at first: of the two deployments allowed,
\* one has no files and no signed record, the other the pair of key 0.
LEMMA KeysInitially == ASSUME OneCreator, Init PROVE KeysInv
  BY KeysAssumption DEF OneCreator, Init, KeysInv, TypeOK, KeyFile, Alone,
     Established, Held, Filling, Tears

\* Every step of _load_or_create_keypair keeps the inductive invariant.
LEMMA KeysStep ==
    ASSUME OneCreator, KeysInv, [Next]_vars
    PROVE  KeysInv'
<1> USE KeysAssumption DEF KeysInv, TypeOK, KeyFile, Held, Goto, Filling, Tears
<1>1. CASE UNCHANGED vars
  BY <1>1 DEF vars, Alone, Established
<1> SUFFICES ASSUME NEW p \in Processes,
                    Start(p) \/ Import(p) \/ SignRecord(p) \/ Exit(p)
             PROVE  KeysInv'
  BY <1>1 DEF Next
<1>2. CASE Start(p)
  BY <1>2 DEF Start, Alone, Established, OneCreator
<1>3. CASE LoadPrivate(p)
  BY <1>3 DEF LoadPrivate, Alone, Established
<1>4. CASE GeneratePrivate(p)
  BY <1>4 DEF GeneratePrivate, Alone, Established
<1>5. CASE WritePrivate(p)
  BY <1>5 DEF WritePrivate, Alone, Established
<1>6. CASE OverwritePublic(p)
  BY <1>6 DEF OverwritePublic, Alone, Established
<1>7. CASE PublicExists(p)
  BY <1>7 DEF PublicExists, Alone, Established
<1>8. CASE PublicMissing(p)
  BY <1>8 DEF PublicMissing, Alone, Established
<1>9. CASE WritePublic(p)
  BY <1>9 DEF WritePublic, Alone, Established
<1>10. CASE SignRecord(p)
  <2>1. /\ UNCHANGED <<private, public, key, pc, fresh, cut>>
        /\ signed' = signed \cup {private} /\ public # NoFile
    BY <1>10 DEF SignRecord
  <2>2. \A k \in signed' : k = private /\ private \in Nat
    BY <2>1
  <2>3. \A q \in Processes : ~Filling(q)
    BY <1>10 DEF SignRecord, Alone
  <2> QED
    BY <2>1, <2>2, <2>3 DEF Alone, Established
<1>11. CASE Exit(p)
  BY <1>11 DEF Exit, Alone, Established
<1>12. CASE LoadFails(p)
  BY <1>12 DEF LoadFails, Alone, Established
<1>13. CASE OpenPrivate(p)
  BY <1>13 DEF OpenPrivate, Alone, Established
<1>14. CASE OpenPublic(p)
  <2>1. private \in Nat /\ public = NoFile /\ key[p] = private
    BY <1>14 DEF OpenPublic
  <2>2. \A q \in Processes : q # p => pc[q] = "down"
    BY <1>14, <2>1 DEF OpenPublic, Alone, Established
  <2> QED
    BY <1>14, <2>1, <2>2 DEF OpenPublic, Alone, Established
<1> QED
  BY <1>2, <1>3, <1>4, <1>5, <1>6, <1>7, <1>8, <1>9, <1>10, <1>11, <1>12,
     <1>13, <1>14 DEF Import

\* What the invariant of the files means for what was and will be signed.
LEMMA KeysSuffice == KeysInv => OnlyACutKeyFails /\ SignersAgreeWithFiles
<1> SUFFICES ASSUME KeysInv PROVE OnlyACutKeyFails /\ SignersAgreeWithFiles
  OBVIOUS
<1> USE KeysAssumption DEF KeysInv, TypeOK, KeyFile
<1>1. OnlyACutKeyFails
  BY DEF OnlyACutKeyFails, verify_record, Tears
<1>2. ASSUME NEW p \in Processes, pc[p] = "ready"
      PROVE  key[p] = private /\ (public = key[p] \/ (public = Torn /\ key[p] \in cut))
  <2>1. key[p] = private /\ public # NoFile
    BY <1>2 DEF Held
  <2>2. \A q \in Processes : ~Filling(q)
    BY <1>2 DEF Alone, Filling
  <2> QED BY <2>1, <2>2 DEF Tears
<1> QED BY <1>1, <1>2 DEF SignersAgreeWithFiles

\* A public key that verifies a record is not written again, or with itself.
LEMMA KeysStay ==
    ASSUME KeysInv, [Next]_vars, NEW k \in signed, verify_record(k)
    PROVE  verify_record(k)'
<1> USE DEF verify_record
<1>1. public = private /\ public = k /\ public \in Nat
  BY DEF KeysInv
<1>2. CASE public' = public
  BY <1>1, <1>2
<1>3. ASSUME NEW p \in Processes, OpenPublic(p) PROVE FALSE
  BY <1>1, <1>3, KeysAssumption DEF OpenPublic, KeysInv, Held
<1>4. ASSUME NEW p \in Processes, OverwritePublic(p) \/ WritePublic(p) PROVE FALSE
  BY <1>1, <1>4, KeysAssumption DEF OverwritePublic, WritePublic, KeysInv, Tears, Filling
<1>5. public' = public \/ \E p \in Processes : OpenPublic(p) \/ OverwritePublic(p) \/ WritePublic(p)
  BY DEF Next, Import, Start, LoadPrivate, LoadFails, GeneratePrivate, OpenPrivate, WritePrivate,
         PublicExists, PublicMissing, SignRecord, Exit, vars
<1> QED BY <1>2, <1>3, <1>4, <1>5

\* The inductive invariant holds in every reachable state.
THEOREM KeysInvariant == ASSUME OneCreator PROVE Spec => []KeysInv
<1>1. Init => KeysInv
  BY KeysInitially
<1>2. KeysInv /\ [Next]_vars => KeysInv'
  BY KeysStep
<1> QED
  BY <1>1, <1>2, PTL DEF Spec

\* A record that does not verify against the public key file (verify_record) is
\* signed with a key of which a kill cut off the writing of the public half: for
\* one creator that is the only way, through any number of processes, restarts
\* and kills in the middle of every other step.
THEOREM OnlyCutKeysFail == ASSUME OneCreator PROVE Spec => []OnlyACutKeyFails
BY KeysSuffice, KeysInvariant, PTL

\* And a record that verified once verifies ever after, kills or not.
THEOREM RecordsKeepVerifying == ASSUME OneCreator PROVE Spec => VerifiesForEver
<1>1. KeysInv /\ [Next]_vars => [\A k \in signed : verify_record(k) => verify_record(k)']_vars
  BY KeysStay
<1> QED BY <1>1, KeysInvariant, PTL DEF Spec, VerifiesForEver

\* Whoever may sign holds the key of the files (_load_or_create_keypair).
THEOREM SignersAgree == ASSUME OneCreator PROVE Spec => []SignersAgreeWithFiles
BY KeysSuffice, KeysInvariant, PTL

\* Where nobody is killed, every signed record verifies while nobody is importing
\* the signer: the sentence of CLAIMS.md, which a checkout and a cut-off key break.
THEOREM UnkilledRecordsVerify ==
    ASSUME OneCreator, ~CrashAllowed
    PROVE  Spec => []EverySignedRecordVerifies
<1>1. Init => cut = {}
  BY DEF Init
<1>2. cut = {} /\ [Next]_vars => (cut = {})'
  <2> SUFFICES ASSUME cut = {}, [Next]_vars PROVE cut' = {}
    OBVIOUS
  <2>1. cut' = cut \/ \E p \in Processes : Exit(p)
    BY DEF Next, Import, Start, LoadPrivate, LoadFails, GeneratePrivate, OpenPrivate, WritePrivate,
           OpenPublic, OverwritePublic, PublicExists, PublicMissing, WritePublic, SignRecord, vars
  <2>2. ASSUME NEW p \in Processes, Exit(p) PROVE cut' = {}
    BY <2>2 DEF Exit
  <2> QED BY <2>1, <2>2
<1>3. Spec => [](cut = {})
  BY <1>1, <1>2, PTL DEF Spec
<1>4. OnlyACutKeyFails /\ cut = {} => EverySignedRecordVerifies
  BY DEF OnlyACutKeyFails, EverySignedRecordVerifies
<1> QED BY <1>3, <1>4, OnlyCutKeysFail, PTL

-----------------------------------------------------------------------------
\* A step of a process that comes up is one of the key pair's, or leaves the pair
\* alone; a new secret takes the next number.
LEMMA StartIsKeys ==
    ASSUME [StartNext]_startVars
    PROVE  \/ [Next]_vars
           \/ fresh' = fresh + 1 /\ UNCHANGED <<private, public, key, pc, signed, cut>>
BY DEF StartNext, StartUp, ComeUp, ImportSigner, LoadSecret, CreateSecret, FillSecret,
   IssueToken, Sign, Leave, Rest, startVars, Next

\* Every step of the key files keeps their types.
LEMMA TypesStep ==
    ASSUME TypeOK, [Next]_vars
    PROVE  TypeOK'
<1> USE KeysAssumption DEF TypeOK, KeyFile, Goto
<1>1. CASE UNCHANGED vars
  BY <1>1 DEF vars
<1>2. ASSUME NEW p \in Processes, Start(p) \/ SignRecord(p) \/ Exit(p) PROVE TypeOK'
  BY <1>2 DEF Start, SignRecord, Exit
<1>3. ASSUME NEW p \in Processes, LoadPrivate(p) \/ LoadFails(p) \/ GeneratePrivate(p)
      PROVE  TypeOK'
  <2>1. CASE LoadPrivate(p)
    BY <2>1 DEF LoadPrivate
  <2>2. CASE LoadFails(p)
    BY <2>2 DEF LoadFails
  <2>3. CASE GeneratePrivate(p)
    <3>1. fresh + 1 \in Nat /\ fresh + 1 # NoFile
      BY <2>3
    <3> QED BY <2>3, <3>1 DEF GeneratePrivate
  <2> QED BY <1>3, <2>1, <2>2, <2>3
<1>4. ASSUME NEW p \in Processes, OpenPrivate(p) \/ OpenPublic(p) PROVE TypeOK'
  BY <1>4 DEF OpenPrivate, OpenPublic
<1>5. ASSUME NEW p \in Processes,
             WritePrivate(p) \/ OverwritePublic(p) \/ PublicExists(p) \/ PublicMissing(p) \/ WritePublic(p)
      PROVE  TypeOK'
  BY <1>5 DEF WritePrivate, OverwritePublic, PublicExists, PublicMissing, WritePublic
<1> QED BY <1>1, <1>2, <1>3, <1>4, <1>5 DEF Next, Import

\* Types, and that a process past the secret has one.
StartTypeInv ==
    /\ StartTypeOK
    /\ \A p \in Processes : auth[p] # "none" => hold[p] # NoFile

LEMMA StartTypesInit == StartInit => StartTypeInv
BY KeysAssumption DEF StartInit, Init, StartTypeInv, StartTypeOK, TypeOK, KeyFile

\* Every step of a process that comes up keeps the types.
LEMMA StartTypesStep == StartTypeInv /\ [StartNext]_startVars => StartTypeInv'
<1> SUFFICES ASSUME StartTypeInv, [StartNext]_startVars PROVE StartTypeInv'
  OBVIOUS
<1>1. TypeOK'
  <2>1. CASE [Next]_vars
    BY <2>1, TypesStep DEF StartTypeInv, StartTypeOK
  <2>2. CASE fresh' = fresh + 1 /\ UNCHANGED <<private, public, key, pc, signed, cut>>
    BY <2>2 DEF StartTypeInv, StartTypeOK, TypeOK
  <2> QED BY <2>1, <2>2, StartIsKeys
<1> USE KeysAssumption DEF StartTypeInv, StartTypeOK, KeyFile
<1>2. CASE UNCHANGED <<secret, hold, auth, tokens>>
  BY <1>1, <1>2
<1>3. ASSUME NEW p \in Processes, LoadSecret(p) PROVE StartTypeInv'
  BY <1>1, <1>3 DEF LoadSecret, Stand
<1>4. ASSUME NEW p \in Processes, CreateSecret(p) PROVE StartTypeInv'
  BY <1>1, <1>4 DEF CreateSecret, Stand, TypeOK
<1>5. ASSUME NEW p \in Processes, FillSecret(p) PROVE StartTypeInv'
  BY <1>1, <1>5 DEF FillSecret, Stand
<1>6. ASSUME NEW p \in Processes, IssueToken(p) PROVE StartTypeInv'
  BY <1>1, <1>6 DEF IssueToken
<1>7. ASSUME NEW p \in Processes, Leave(p) PROVE StartTypeInv'
  BY <1>1, <1>7 DEF Leave, Stand
<1> QED BY <1>2, <1>3, <1>4, <1>5, <1>6, <1>7
     DEF StartNext, ComeUp, StartUp, ImportSigner, Sign, Rest, startVars

\* The types of a starting process, however many create files at once.
THEOREM StartTypes == StartSpec => []StartTypeOK
<1>1. StartTypeInv => StartTypeOK
  BY DEF StartTypeInv
<1> QED BY <1>1, StartTypesInit, StartTypesStep, PTL DEF StartSpec

\* The invariant of the key pair holds in processes that go on to the secret too.
THEOREM StartKeepsKeys == ASSUME OneCreator PROVE StartSpec => []KeysInv
<1>1. StartInit => KeysInv
  BY KeysInitially DEF StartInit
<1>2. KeysInv /\ [StartNext]_startVars => KeysInv'
  <2> SUFFICES ASSUME KeysInv, [StartNext]_startVars PROVE KeysInv'
    OBVIOUS
  <2>1. CASE [Next]_vars
    BY <2>1, KeysStep
  <2>2. CASE fresh' = fresh + 1 /\ UNCHANGED <<private, public, key, pc, signed, cut>>
    BY <2>2 DEF KeysInv, TypeOK, Alone, Established, Held, Filling, Tears
  <2> QED BY <2>1, <2>2, StartIsKeys
<1> QED BY <1>1, <1>2, PTL DEF StartSpec

\* So of the records that such processes sign none fails to verify but for a kill
\* that cut off the public key.
THEOREM OnlyCutKeysFailStarted ==
    ASSUME OneCreator
    PROVE  StartSpec => []OnlyACutKeyFails
BY KeysSuffice, StartKeepsKeys, PTL

\* And one that verified verifies ever after: neither the steps of the key pair
\* nor those of the secret write a public key that is there.
THEOREM StartedKeepVerifying ==
    ASSUME OneCreator
    PROVE  StartSpec => VerifiesForEver
<1>1. KeysInv /\ [StartNext]_startVars
          => [\A k \in signed : verify_record(k) => verify_record(k)']_vars
  BY StartIsKeys, KeysStay DEF verify_record
<1> QED BY <1>1, StartKeepsKeys, PTL DEF StartSpec, VerifiesForEver

\* And whoever may sign holds the key of the files.
THEOREM StartedSignersAgree ==
    ASSUME OneCreator
    PROVE  StartSpec => []SignersAgreeWithFiles
BY KeysSuffice, StartKeepsKeys, PTL

-----------------------------------------------------------------------------
\* Until the secret is filled its creator is alone, and nobody has a token; from
\* then on every process that is up holds the bytes of the file.
TokenInv ==
    /\ DOMAIN pc = Processes /\ DOMAIN auth = Processes /\ DOMAIN hold = Processes
    /\ fresh \in Nat
    /\ \A p \in Processes : auth[p] # "none" => pc[p] = "ready"
    /\ \A p \in Processes : auth[p] = "fill" =>
          /\ \A q \in Processes : q # p => pc[q] = "down"
          /\ tokens = {}
          /\ hold[p] # NoFile
    /\ secret = NoFile =>
          /\ \A p, q \in Processes : pc[p] # "down" /\ pc[q] # "down" => p = q
          /\ \A p \in Processes : auth[p] = "none"
          /\ tokens = {}
    /\ \A p \in Processes : auth[p] = "up" => hold[p] = secret
    /\ \A s \in tokens : s = secret

LEMMA TokenInit == StartInit => TokenInv
BY DEF StartInit, Init, TokenInv

\* A process that loads or creates the pair moves on, and only it.
LEMMA ImportMoves ==
    ASSUME NEW p \in Processes, Import(p)
    PROVE  /\ pc[p] \notin {"down", "ready"}
           /\ fresh' \in {fresh, fresh + 1}
           /\ \E label : pc' = [pc EXCEPT ![p] = label]
BY DEF Import, LoadPrivate, LoadFails, GeneratePrivate, OpenPrivate, WritePrivate, OpenPublic,
       OverwritePublic, PublicExists, PublicMissing, WritePublic, Goto

\* No step makes the secret of a process that is up differ from the file.
LEMMA TokenStep ==
    ASSUME ~TwoCreators, TokenInv, [StartNext]_startVars
    PROVE  TokenInv'
<1>1. ASSUME NEW p \in Processes, StartUp(p) PROVE TokenInv'
  BY <1>1 DEF TokenInv, StartUp, Start, Goto
<1>2. ASSUME NEW p \in Processes, ImportSigner(p) PROVE TokenInv'
  <2>1. /\ auth[p] = "none"
        /\ pc[p] # "down"
        /\ fresh' \in Nat
        /\ \E label : pc' = [pc EXCEPT ![p] = label]
    BY <1>2, ImportMoves DEF TokenInv, ImportSigner
  <2>2. /\ \A q \in Processes : auth[q] # "none" => pc'[q] = "ready"
        /\ \A q \in Processes : pc[q] = "down" /\ q # p => pc'[q] = "down"
        /\ \A q \in Processes : auth[q] = "fill" => p = q
        /\ DOMAIN pc' = Processes
    BY <2>1 DEF TokenInv
  <2> QED BY <1>2, <2>1, <2>2 DEF TokenInv, ImportSigner
<1>3. ASSUME NEW p \in Processes, LoadSecret(p) PROVE TokenInv'
  BY <1>3 DEF TokenInv, LoadSecret, Stand, vars
<1>4. ASSUME NEW p \in Processes, CreateSecret(p) PROVE TokenInv'
  BY <1>4, KeysAssumption DEF TokenInv, CreateSecret, Stand
<1>5. ASSUME NEW p \in Processes, FillSecret(p) PROVE TokenInv'
  <2>1. /\ tokens = {}
        /\ \A q \in Processes : q # p => auth[q] = "none" /\ pc[q] = "down"
    BY <1>5 DEF TokenInv, FillSecret
  <2> QED BY <1>5, <2>1 DEF TokenInv, FillSecret, Stand, vars
<1>6. ASSUME NEW p \in Processes, IssueToken(p) PROVE TokenInv'
  BY <1>6 DEF TokenInv, IssueToken, vars
<1>7. ASSUME NEW p \in Processes, Sign(p) PROVE TokenInv'
  BY <1>7 DEF TokenInv, Sign, SignRecord
<1>8. ASSUME NEW p \in Processes, Leave(p) PROVE TokenInv'
  BY <1>8 DEF TokenInv, Leave, Exit, Stand, Goto
<1>9. CASE UNCHANGED startVars
  BY <1>9 DEF TokenInv, startVars, vars
<1> QED
  BY <1>1, <1>2, <1>3, <1>4, <1>5, <1>6, <1>7, <1>8, <1>9 DEF StartNext, ComeUp, Rest

\* Every token issued verifies in every process that is up, through restarts and
\* kills, for any number of processes that start while nobody creates the secret.
THEOREM TokensVerify ==
    ASSUME ~TwoCreators
    PROVE  StartSpec => []TokensVerifyEverywhere
<1>1. TokenInv => TokensVerifyEverywhere
  BY DEF TokenInv, TokensVerifyEverywhere
<1>2. TokenInv /\ [StartNext]_startVars => TokenInv'
  BY TokenStep
<1> QED BY <1>1, <1>2, TokenInit, PTL DEF StartSpec
=============================================================================
