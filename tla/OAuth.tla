-------------------------------- MODULE OAuth --------------------------------
(***************************************************************************)
(* The OAuth server (pkg/control-plane/oauth) and the administration of    *)
(* its clients: authorization codes, their exchange for tokens, refresh,   *)
(* revocation and validation, all against three SQL tables without         *)
(* transactions.  Every request is a sequence of single statements, each   *)
(* of which may fail, and the process may restart between two of them.     *)
(***************************************************************************)
EXTENDS Naturals, FiniteSets

CONSTANTS
    Clients,        \* client_id values
    Registrations,  \* what an administrator may register: [uris, scopes, tenant]
    FirstClient,    \* FirstClient[c]: a registration, or NoClient
    Patches,        \* fields of update requests: partial registrations
    Editors,        \* concurrent update requests
    MaxCodes,       \* bound: authorization requests
    MaxTokens,      \* bound: token requests
    MaxEdits,       \* bound: requests of the administrators
    MaxFaults       \* bound: failed statements and restarts

NoClient == [uris |-> {}, scopes |-> {}, tenant |-> "none"]
Nobody == "nobody"
Codes  == 1..MaxCodes
Tokens == 1..MaxTokens
None   == 0

(* A registration: createOAuthClient demands a scope, the tenant defaults. *)
Scopes       == (SUBSET STRING) \ {{}}
Registration == [uris : SUBSET STRING, scopes : Scopes, tenant : STRING]

(* The fields of an update request: a field that is absent (or empty) is   *)
(* not in the patch.                                                       *)
Partial(p) ==
    /\ DOMAIN p \subseteq {"uris", "scopes", "tenant"}
    /\ "uris" \in DOMAIN p => p.uris \in SUBSET STRING
    /\ "scopes" \in DOMAIN p => p.scopes \in Scopes
    /\ "tenant" \in DOMAIN p => p.tenant \in STRING

(* A registration with the fields of the request written over its own.     *)
Patched(p, r) == [f \in DOMAIN r |-> IF f \in DOMAIN p THEN p[f] ELSE r[f]]

ASSUME OAuthAssumption ==
    /\ {MaxCodes, MaxTokens, MaxEdits, MaxFaults} \subseteq Nat
    /\ FirstClient \in [Clients -> Registrations \cup {NoClient}]
    /\ Registrations \subseteq Registration /\ \A p \in Patches : Partial(p)
    /\ Nobody \notin Clients

(* An authorization request and the code it creates: asked (the client was *)
(* read), stored, gone, or over without a code.                            *)
CodeAt == {"none", "asked", "stored", "gone", "over"}

(* A token request and the token it creates: client (its client was        *)
(* authenticated), held (a code was read, not yet deleted), granted (the   *)
(* grant is settled), stored, gone, or over without a token.               *)
TokenAt == {"none", "client", "held", "granted", "stored", "gone", "over"}

VARIABLES
    client,     \* client[c]: the row of oauth_clients, or NoClient
    edit,       \* edit[a]: the update request of editor a
    code,       \* code[k]: the authorization request k and its row of oauth_codes
    token,      \* token[x]: the token request x and its row of oauth_tokens
    edits,      \* requests of the administrators
    faults,     \* statements that failed, and restarts
    \* History.
    issued,     \* issued[k]: the registration the authorization request k read
    shared,     \* codes read by two overlapping exchanges, or whose deletion failed
    revoked,    \* tokens whose revocation was carried out
    intended,   \* intended[c]: the registration if updates were atomic
    crossed     \* clients written from a copy that was no longer current

tables  == <<client, code, token>>
history == <<issued, shared, revoked, intended, crossed>>
vars    == <<tables, edit, edits, faults, history>>

NoEdit  == [client |-> Nobody, copy |-> NoClient, patch |-> NoClient, stale |-> FALSE]
NoCode  == [at |-> "none", client |-> Nobody, tenant |-> "none", scopes |-> {}, uri |-> "none",
            expired |-> FALSE]
NoToken == [at |-> "none", client |-> Nobody, tenant |-> "none", scopes |-> {},
            expired |-> FALSE, code |-> None, parent |-> None, barred |-> {}]

Fault   == faults < MaxFaults /\ faults' = faults + 1
NoFault == UNCHANGED faults

(* Of a statement whose error is dropped: it took effect or it failed.     *)
Perhaps(effect, unchanged) == \/ effect /\ NoFault
                              \/ unchanged /\ Fault

(* The three stores: what their statements see and do.                     *)
Registered(c)    == client[c] # NoClient
Listed(c)        == client[c] # NoClient
StoredCode(k)    == code[k].at = "stored"
StoredToken(t)   == token[t].at = "stored"
InsertClient(c, r) == client' = [client EXCEPT ![c] = r]
WriteClient(c, r)  == client' = [client EXCEPT ![c] = IF Registered(c) THEN r ELSE @]
DropClient(c)    == client' = [client EXCEPT ![c] = NoClient]
InsertCode(k)    == code' = [code EXCEPT ![k].at = "stored"]
DropCode(k)      == code' = [code EXCEPT ![k].at = "gone"]
InsertToken(x)   == token' = [token EXCEPT ![x].at = "stored"]
DropToken(t)     == token' = [token EXCEPT ![t].at = "gone"]

-----------------------------------------------------------------------------
(* HandleAuthorize: the client is read, the address and the scopes are     *)
(* compared with its registration (no scopes asked for: all of them).      *)
Authorize(k, c, u, asked) ==
    LET scopes == IF asked = {} THEN client[c].scopes ELSE asked
    IN /\ code[k].at = "none" /\ \A j \in Codes : j < k => code[j].at # "none"
       /\ Registered(c)
       /\ u \in client[c].uris
       /\ scopes \subseteq client[c].scopes
       /\ code' = [code EXCEPT ![k] = [NoCode EXCEPT !.at = "asked", !.client = c,
                                       !.tenant = client[c].tenant, !.scopes = scopes,
                                       !.uri = u]]
       /\ issued' = [issued EXCEPT ![k] = client[c]]
       /\ UNCHANGED <<client, token, edit, edits, faults, shared, revoked, intended, crossed>>

(* ... and the code is inserted and sent to the address, or the insertion  *)
(* fails.                                                                  *)
CreateCode(k) ==
    /\ code[k].at = "asked"
    /\ \/ InsertCode(k) /\ NoFault
       \/ code' = [code EXCEPT ![k] = [NoCode EXCEPT !.at = "over"]] /\ Fault
    /\ UNCHANGED <<client, token, edit, edits, history>>

-----------------------------------------------------------------------------
(* HandleToken: the client must be registered (a wrong secret, like every  *)
(* other refusal before the first statement, leaves no trace).             *)
BeginToken(x, c) ==
    /\ token[x].at = "none" /\ \A y \in Tokens : y < x => token[y].at # "none"
    /\ Registered(c)
    /\ token' = [token EXCEPT ![x] = [NoToken EXCEPT !.at = "client", !.client = c,
                                      !.barred = revoked]]
    /\ UNCHANGED <<client, code, edit, edits, faults, history>>

(* No such code or token, one of another client, another address, or the   *)
(* statement fails.                                                        *)
Refuse(x) ==
    /\ token[x].at = "client"
    /\ token' = [token EXCEPT ![x] = [NoToken EXCEPT !.at = "over"]]
    /\ UNCHANGED <<client, code, edit, edits, faults, history>>

Exchangeable(x, k) == StoredCode(k) /\ code[k].client = token[x].client

(* authorization_code: the code is read and its grant copied.              *)
ReadCode(x, k) ==
    /\ token[x].at = "client" /\ Exchangeable(x, k) /\ ~code[k].expired
    /\ token' = [token EXCEPT ![x].at = "held", ![x].code = k,
                              ![x].tenant = code[k].tenant, ![x].scopes = code[k].scopes]
    /\ shared' = shared \cup {j \in {k} : \E y \in Tokens : token[y].at = "held"
                                                            /\ token[y].code = j}
    /\ UNCHANGED <<client, code, edit, edits, faults, issued, revoked, intended, crossed>>

(* An expired code is deleted and refused.                                 *)
ReadExpired(x, k) ==
    /\ token[x].at = "client" /\ Exchangeable(x, k) /\ code[k].expired
    /\ token' = [token EXCEPT ![x] = [NoToken EXCEPT !.at = "over"]]
    /\ Perhaps(DropCode(k), UNCHANGED code)
    /\ UNCHANGED <<client, edit, edits, history>>

(* Faulty variant: the exchange forgets to delete the code.                *)
DeleteCodeForgotten(x) ==
    /\ token[x].at = "held"
    /\ token' = [token EXCEPT ![x].at = "granted"]
    /\ UNCHANGED <<client, code, edit, edits, faults, history>>

(* The code is deleted; the exchange goes on even when that fails.         *)
DeleteCode(x) ==
    /\ token[x].at = "held"
    /\ token' = [token EXCEPT ![x].at = "granted"]
    /\ Perhaps(DropCode(token[x].code) /\ UNCHANGED shared,
               UNCHANGED code /\ shared' = shared \cup {token[x].code})
    /\ UNCHANGED <<client, edit, edits, issued, revoked, intended, crossed>>

(* refresh_token: the row is looked up by its refresh token, expired or    *)
(* not, and stays.                                                         *)
ReadRefresh(x, p) ==
    /\ token[x].at = "client"
    /\ StoredToken(p) /\ token[p].client = token[x].client
    /\ token' = [token EXCEPT ![x].at = "granted", ![x].code = token[p].code,
                              ![x].parent = p, ![x].tenant = token[p].tenant,
                              ![x].scopes = token[p].scopes]
    /\ UNCHANGED <<client, code, edit, edits, faults, history>>

(* Faulty variant: the token gets the tenant and scopes of the client as   *)
(* registered now.                                                         *)
CreateTokenCurrent(x) ==
    LET now == client[token[x].client]
    IN /\ token[x].at = "granted"
       /\ token' = [token EXCEPT ![x].at = "stored", ![x].tenant = now.tenant,
                                 ![x].scopes = now.scopes]
       /\ UNCHANGED <<client, code, edit, edits, faults, history>>

(* The token is inserted and answered, or the insertion fails: then the    *)
(* code is spent and there is no token.                                    *)
CreateToken(x) ==
    /\ token[x].at = "granted"
    /\ \/ InsertToken(x) /\ NoFault
       \/ token' = [token EXCEPT ![x] = [NoToken EXCEPT !.at = "over"]] /\ Fault
    /\ UNCHANGED <<client, code, edit, edits, history>>

-----------------------------------------------------------------------------
(* Faulty variant: a hinted revocation deletes by the refresh token's hash,*)
(* which is in no row as an access token.                                  *)
RevokeHintIgnored(t) ==
    /\ StoredToken(t)
    /\ revoked' = revoked \cup {t}
    /\ UNCHANGED <<tables, edit, edits, faults, issued, shared, intended, crossed>>

(* HandleRevoke: by its access token, or by its refresh token (looked up   *)
(* first), the row is deleted; a failure is answered like success.  Rows   *)
(* never return, so look-up and deletion are one step.                     *)
Revoke(t) ==
    /\ StoredToken(t)
    /\ Perhaps(DropToken(t) /\ revoked' = revoked \cup {t},
               UNCHANGED <<token, revoked>>)
    /\ UNCHANGED <<client, code, edit, edits, issued, shared, intended, crossed>>

(* ValidateAccessToken of an expired token deletes its row, the refresh    *)
(* token with it; of any other it changes nothing.                         *)
ValidateAccessToken(t) ==
    /\ StoredToken(t) /\ token[t].expired
    /\ DropToken(t)
    /\ UNCHANGED <<client, code, edit, edits, faults, history>>

(* Ten minutes after a code, two hours after a token was created.          *)
Expire ==
    /\ \/ \E k \in Codes : /\ StoredCode(k) /\ ~code[k].expired
                           /\ code' = [code EXCEPT ![k].expired = TRUE]
                           /\ UNCHANGED token
       \/ \E t \in Tokens : /\ StoredToken(t) /\ ~token[t].expired
                            /\ token' = [token EXCEPT ![t].expired = TRUE]
                            /\ UNCHANGED code
    /\ UNCHANGED <<client, edit, edits, faults, history>>

-----------------------------------------------------------------------------
Administer == edits < MaxEdits /\ edits' = edits + 1

(* Edits of c that hold a copy older than the row about to be written.     *)
Outdated(c) == [a \in Editors |-> IF edit[a].client = c
                                  THEN [edit[a] EXCEPT !.stale = TRUE] ELSE edit[a]]

(* createOAuthClient: client_id is unique, a second insertion fails.       *)
CreateClient(c, r) ==
    /\ Administer
    /\ client[c] = NoClient
    /\ InsertClient(c, r)
    /\ intended' = [intended EXCEPT ![c] = r]
    /\ edit' = Outdated(c)
    /\ UNCHANGED <<code, token, faults, issued, shared, revoked, crossed>>

(* deleteOAuthClient: the client's codes and tokens stay.                  *)
DeleteClient(c) ==
    /\ Administer
    /\ Registered(c)
    /\ DropClient(c)
    /\ intended' = [intended EXCEPT ![c] = NoClient]
    /\ UNCHANGED <<code, token, edit, faults, issued, shared, revoked, crossed>>

(* updateOAuthClient: the client is looked for in the list of all clients, *)
BeginUpdate(a, c, p) ==
    /\ Administer
    /\ edit[a] = NoEdit
    /\ Listed(c)
    /\ edit' = [edit EXCEPT ![a] = [client |-> c, copy |-> client[c], patch |-> p,
                                    stale |-> FALSE]]
    /\ UNCHANGED <<tables, faults, history>>

(* Faulty variant: the update inserts the row when it is missing.          *)
UpdateClientUpserts(a) ==
    LET c == edit[a].client
    IN /\ c # Nobody
       /\ InsertClient(c, Patched(edit[a].patch, edit[a].copy))
       /\ intended' = [intended EXCEPT ![c] = IF @ = NoClient THEN @ ELSE Patched(edit[a].patch, @)]
       /\ crossed' = crossed \cup {d \in {c} : edit[a].stale}
       /\ edit' = [Outdated(c) EXCEPT ![a] = NoEdit]
       /\ UNCHANGED <<code, token, edits, faults, issued, shared, revoked>>

(* ... and all its fields are written, those of the request and the others *)
(* from the copy.  A row deleted meanwhile stays deleted.                  *)
UpdateClient(a) ==
    LET c == edit[a].client
    IN /\ c # Nobody
       /\ \/ /\ WriteClient(c, Patched(edit[a].patch, edit[a].copy))
             /\ intended' = [intended EXCEPT ![c] = IF @ = NoClient THEN @
                                                    ELSE Patched(edit[a].patch, @)]
             /\ crossed' = crossed \cup {d \in {c} : edit[a].stale}
             /\ edit' = [Outdated(c) EXCEPT ![a] = NoEdit]
             /\ NoFault
          \/ /\ edit' = [edit EXCEPT ![a] = NoEdit] /\ Fault
             /\ UNCHANGED <<client, intended, crossed>>
       /\ UNCHANGED <<code, token, edits, issued, shared, revoked>>

(* The process restarts: requests under way are lost, the tables stay.     *)
Restart ==
    /\ Fault
    /\ code' = [k \in Codes |-> IF code[k].at = "asked" THEN [NoCode EXCEPT !.at = "over"]
                                ELSE code[k]]
    /\ token' = [x \in Tokens |-> IF token[x].at \in {"client", "held", "granted"}
                                  THEN [NoToken EXCEPT !.at = "over"] ELSE token[x]]
    /\ edit' = [a \in Editors |-> NoEdit]
    /\ UNCHANGED <<client, edits, history>>

-----------------------------------------------------------------------------
Init ==
    /\ client = FirstClient
    /\ edit = [a \in Editors |-> NoEdit]
    /\ code = [k \in Codes |-> NoCode]
    /\ token = [x \in Tokens |-> NoToken]
    /\ edits = 0 /\ faults = 0
    /\ issued = [k \in Codes |-> NoClient]
    /\ shared = {} /\ revoked = {}
    /\ intended = FirstClient /\ crossed = {}

CodeNext == \/ \E k \in Codes, c \in Clients : \E u \in client[c].uris :
                  \E asked \in SUBSET client[c].scopes : Authorize(k, c, u, asked)
            \/ \E k \in Codes : CreateCode(k)

ExchangeNext == \E x \in Tokens :
    \/ \E c \in Clients : BeginToken(x, c)
    \/ Refuse(x) \/ DeleteCode(x) \/ CreateToken(x)
    \/ \E k \in Codes : ReadCode(x, k) \/ ReadExpired(x, k)
    \/ \E p \in Tokens : ReadRefresh(x, p)

TokenNext == (\E t \in Tokens : Revoke(t) \/ ValidateAccessToken(t)) \/ Expire

AdminNext == \/ \E c \in Clients : DeleteClient(c) \/ \E r \in Registrations : CreateClient(c, r)
             \/ \E a \in Editors : \/ UpdateClient(a)
                                   \/ \E c \in Clients, p \in Patches : BeginUpdate(a, c, p)

Next == CodeNext \/ ExchangeNext \/ TokenNext \/ AdminNext \/ Restart

Spec == Init /\ [][Next]_vars

-----------------------------------------------------------------------------
(* Texts: STRING, with the one text the provers must know by name.         *)
Texts == STRING \cup {"none"}

ClientRow == Registration \cup {NoClient}
EditRow   == [client : Clients \cup {Nobody}, copy : ClientRow, patch : Patches \cup {NoClient},
              stale : BOOLEAN]
CodeRow   == [at : CodeAt, client : Clients \cup {Nobody}, tenant : Texts,
              scopes : SUBSET STRING, uri : Texts, expired : BOOLEAN]
TokenRow  == [at : TokenAt, client : Clients \cup {Nobody}, tenant : Texts,
              scopes : SUBSET STRING, expired : BOOLEAN, code : Codes \cup {None},
              parent : Tokens \cup {None}, barred : SUBSET Tokens]

(* Types.  An update request under way has a copy and a patch to write, a  *)
(* token or a request with a grant has a code.                             *)
TypeOK ==
    /\ client \in [Clients -> ClientRow] /\ intended \in [Clients -> ClientRow]
    /\ issued \in [Codes -> ClientRow]
    /\ edit \in [Editors -> EditRow]
    /\ \A a \in Editors : edit[a].client # Nobody =>
          edit[a].copy \in Registration /\ edit[a].patch \in Patches
    /\ code \in [Codes -> CodeRow] /\ token \in [Tokens -> TokenRow]
    /\ \A x \in Tokens : token[x].at \in {"held", "granted", "stored", "gone"} =>
          token[x].code \in Codes
    /\ shared \subseteq Codes /\ revoked \subseteq Tokens /\ crossed \subseteq Clients
    /\ edits \in 0..MaxEdits /\ faults \in 0..MaxFaults

(* A token, however often it was refreshed, and although its client may    *)
(* have been changed, deleted or registered again for another tenant since,*)
(* belongs to the client and tenant that asked for the code it stems from, *)
(* with scopes that client then had (HandleAuthorize copies them into the  *)
(* code, HandleToken from grant to token).                                 *)
GrantFollowsCode ==
    \A x \in Tokens : token[x].at \in {"stored", "gone"} =>
        LET k == token[x].code
        IN /\ token[x].client = code[k].client
           /\ token[x].tenant = issued[k].tenant
           /\ token[x].scopes # {} /\ token[x].scopes \subseteq issued[k].scopes

(* A code yields at most one token by exchange, unless two exchanges       *)
(* overlapped or the deletion of the code failed: HandleToken reads and    *)
(* deletes in two statements and drops the error of the second.            *)
CodeUsedOnce ==
    \A k \in Codes \ shared :
        Cardinality({x \in Tokens : /\ token[x].at \in {"held", "granted", "stored", "gone"}
                                    /\ token[x].code = k /\ token[x].parent = None}) <= 1

(* A token whose revocation was carried out never is in the table again,   *)
(* and no request that begins afterwards refreshes it (HandleRevoke        *)
(* against the refresh branch of HandleToken).                             *)
RevokedIsFinal ==
    /\ \A t \in revoked : token[t].at = "gone"
    /\ \A x \in Tokens : token[x].parent \notin token[x].barred

(* Concurrent updates of a client's registration act as if each were one   *)
(* step, unless one wrote over a row that changed after it was read; a     *)
(* deleted client is never brought back (updateOAuthClient reads the row   *)
(* and writes every field of its copy).                                    *)
EditsKept == \A c \in Clients \ crossed : client[c] = intended[c]

=============================================================================
