----------------------------- MODULE OAuthProofs -----------------------------
(***************************************************************************)
(* Proofs about OAuth, for every set of clients, registrations and patches,*)
(* any number of codes, tokens and editors, and any number of faults.      *)
(***************************************************************************)
EXTENDS OAuth, TLAPS, FiniteSetTheorems

Used == {"held", "granted", "stored", "gone"}

(* A code carries the tenant and some of the scopes of the registration    *)
(* that its authorization request read.                                    *)
CodeFollowsRead ==
    \A k \in Codes : code[k].at \in {"asked", "stored", "gone"} =>
        /\ code[k].tenant = issued[k].tenant
        /\ code[k].scopes # {} /\ code[k].scopes \subseteq issued[k].scopes

(* From the moment a code was read, a token request carries its grant, and *)
(* the code was stored.                                                    *)
GrantHeld ==
    \A x \in Tokens : token[x].at \in Used =>
        LET k == token[x].code
        IN /\ k \in Codes /\ code[k].at \in {"stored", "gone"}
           /\ token[x].client = code[k].client
           /\ token[x].tenant = issued[k].tenant
           /\ token[x].scopes # {} /\ token[x].scopes \subseteq issued[k].scopes

(* The token request x took its grant from the code k itself.              *)
Spends(x, k) == token[x].at \in Used /\ token[x].code = k /\ token[x].parent = None

(* A code that two exchanges never held at the same time, and whose        *)
(* deletion never failed, has one exchange at most, and once that has a    *)
(* grant the code is no longer stored.                                     *)
SpentOnce ==
    \A k \in Codes \ shared : \A x \in Tokens : Spends(x, k) =>
        /\ token[x].at # "held" => code[k].at = "gone"
        /\ \A y \in Tokens : Spends(y, k) => y = x

(* What a request may not refresh was revoked, and a request has no parent *)
(* before it found one.                                                    *)
BarredRevoked ==
    \A x \in Tokens : /\ token[x].barred \subseteq revoked
                      /\ token[x].at \in {"client", "held"} => token[x].parent = None

(* An update that is not outdated holds the row as it is.                  *)
CopiesCurrent ==
    \A a \in Editors : LET c == edit[a].client
                       IN c # Nobody /\ ~edit[a].stale /\ c \notin crossed /\ Registered(c)
                             => edit[a].copy = client[c]

GrantInv  == CodeFollowsRead /\ GrantHeld
RevokeInv == RevokedIsFinal /\ BarredRevoked
EditInv   == EditsKept /\ CopiesCurrent

-----------------------------------------------------------------------------
(* Rows *)

(* A registration written over with the fields of a request is one.        *)
LEMMA PatchedType ==
    ASSUME NEW p \in Patches, NEW r \in Registration
    PROVE  Patched(p, r) \in Registration
<1> DEFINE q == Patched(p, r)
<1>0. Partial(p)
  BY OAuthAssumption
<1>1. DOMAIN r = {"uris", "scopes", "tenant"} /\ r.uris \in SUBSET STRING
        /\ r.scopes \in Scopes /\ r.tenant \in STRING
  BY DEF Registration
<1>2. q = [uris |-> q.uris, scopes |-> q.scopes, tenant |-> q.tenant]
  BY <1>1 DEF Patched
<1>3. q.uris \in SUBSET STRING /\ q.scopes \in Scopes /\ q.tenant \in STRING
  BY <1>0, <1>1 DEF Patched, Partial
<1> QED BY <1>2, <1>3 DEF Registration

(* The rows before a request begins and after it was refused.              *)
LEMMA BlankRows ==
    /\ NoEdit \in EditRow /\ NoCode \in CodeRow /\ NoToken \in TokenRow
    /\ NoCode.at = "none" /\ NoToken.at = "none" /\ NoToken.barred = {}
    /\ NoToken.parent = None /\ NoEdit.client = Nobody
<1>1. NoEdit \in EditRow
  BY DEF NoEdit, EditRow, ClientRow
<1>0. PICK no \in BOOLEAN, none \in SUBSET STRING : no = FALSE /\ none = {}
  OBVIOUS
<1>2. NoCode \in CodeRow
  <2>1. NoCode = [at |-> "none", client |-> Nobody, tenant |-> "none", scopes |-> none,
                  uri |-> "none", expired |-> no]
    BY <1>0, Zenon DEF NoCode
  <2> QED BY <2>1 DEF CodeRow, CodeAt, Texts
<1>3. NoToken \in TokenRow
  <2>1. NoToken = [at |-> "none", client |-> Nobody, tenant |-> "none", scopes |-> none,
                   expired |-> no, code |-> None, parent |-> None, barred |-> {}]
    BY <1>0, Zenon DEF NoToken
  <2> QED BY <2>1 DEF TokenRow, TokenAt, Texts
<1> QED BY <1>1, <1>2, <1>3 DEF NoCode, NoToken, NoEdit

(* The rows that stand for a request cut off by a restart.                 *)
LEMMA OverRows ==
    /\ [NoCode EXCEPT !.at = "over"] \in CodeRow
    /\ [NoToken EXCEPT !.at = "over"] \in TokenRow
    /\ [NoCode EXCEPT !.at = "over"].at = "over"
    /\ [NoToken EXCEPT !.at = "over"].at = "over"
    /\ [NoToken EXCEPT !.at = "over"].barred = {}
    /\ [NoToken EXCEPT !.at = "over"].parent = None
<1>1. "over" \in CodeAt /\ "over" \in TokenAt
  BY DEF CodeAt, TokenAt
<1>2. [NoCode EXCEPT !.at = "over"] \in CodeRow /\ [NoCode EXCEPT !.at = "over"].at = "over"
  BY <1>1, BlankRows DEF CodeRow
<1>3. /\ [NoToken EXCEPT !.at = "over"] \in TokenRow
      /\ [NoToken EXCEPT !.at = "over"].at = "over"
      /\ [NoToken EXCEPT !.at = "over"].barred = NoToken.barred
      /\ [NoToken EXCEPT !.at = "over"].parent = NoToken.parent
  BY <1>1, BlankRows DEF TokenRow
<1> QED BY <1>2, <1>3, BlankRows

(* The row of an authorization request that has begun.                     *)
Asked(c, t, s, u) ==
    [NoCode EXCEPT !.at = "asked", !.client = c, !.tenant = t, !.scopes = s, !.uri = u]

(* That row is one of the table, with the fields it was given.             *)
LEMMA AskedRow ==
    ASSUME NEW c \in Clients, NEW t \in Texts, NEW s \in SUBSET STRING, NEW u \in Texts
    PROVE  LET r == Asked(c, t, s, u)
           IN r \in CodeRow /\ r.at = "asked" /\ r.client = c /\ r.tenant = t /\ r.scopes = s
<1> DEFINE r1 == [NoCode EXCEPT !.at = "asked"]
<1>1. r1 \in CodeRow /\ r1.at = "asked"
  BY BlankRows DEF CodeRow, CodeAt
<1> HIDE DEF r1
<1> DEFINE r2 == [r1 EXCEPT !.client = c]
<1>2. r2 \in CodeRow /\ r2.at = "asked" /\ r2.client = c
  BY <1>1 DEF CodeRow
<1> HIDE DEF r2
<1> DEFINE r3 == [r2 EXCEPT !.tenant = t]
<1>3. r3 \in CodeRow /\ r3.at = "asked" /\ r3.client = c /\ r3.tenant = t
  BY <1>2 DEF CodeRow
<1> HIDE DEF r3
<1> DEFINE r4 == [r3 EXCEPT !.scopes = s]
<1>4. r4 \in CodeRow /\ r4.at = "asked" /\ r4.client = c /\ r4.tenant = t /\ r4.scopes = s
  BY <1>3 DEF CodeRow
<1> HIDE DEF r4
<1> DEFINE r5 == [r4 EXCEPT !.uri = u]
<1>5. r5 \in CodeRow /\ r5.at = "asked" /\ r5.client = c /\ r5.tenant = t /\ r5.scopes = s
  BY <1>4 DEF CodeRow
<1> QED BY <1>5 DEF Asked, r4, r3, r2, r1

(* The row of a token request that has begun.                              *)
LEMMA ClientRead ==
    ASSUME NEW c \in Clients, NEW b \in SUBSET Tokens
    PROVE  LET r == [NoToken EXCEPT !.at = "client", !.client = c, !.barred = b]
           IN /\ r \in TokenRow /\ r.at = "client" /\ r.client = c /\ r.barred = b
              /\ r.parent = None
<1> DEFINE r1 == [NoToken EXCEPT !.at = "client"]
<1>1. r1 \in TokenRow /\ r1.at = "client" /\ r1.parent = None
  BY BlankRows DEF TokenRow, TokenAt
<1> HIDE DEF r1
<1> DEFINE r2 == [r1 EXCEPT !.client = c]
<1>2. r2 \in TokenRow /\ r2.at = "client" /\ r2.client = c /\ r2.parent = None
  BY <1>1 DEF TokenRow
<1> HIDE DEF r2
<1> DEFINE r3 == [r2 EXCEPT !.barred = b]
<1>3. r3 \in TokenRow /\ r3.at = "client" /\ r3.client = c /\ r3.barred = b /\ r3.parent = None
  BY <1>2 DEF TokenRow
<1> QED BY <1>3 DEF r2, r1

(* One field of one row changes: the others, and the other rows, stay.     *)
LEMMA CodeSetAt ==
    ASSUME NEW f \in [Codes -> CodeRow], NEW x \in Codes, NEW v \in CodeAt
    PROVE  LET g == [f EXCEPT ![x].at = v]
           IN /\ g \in [Codes -> CodeRow] /\ g[x].at = v
              /\ g[x].client = f[x].client /\ g[x].tenant = f[x].tenant /\ g[x].scopes = f[x].scopes
              /\ \A y \in Codes \ {x} : g[y] = f[y]
  BY DEF CodeRow

(* A code expires: the rest of its row, and the other rows, stay.          *)
LEMMA CodeSetExpired ==
    ASSUME NEW f \in [Codes -> CodeRow], NEW x \in Codes, NEW v \in BOOLEAN
    PROVE  LET g == [f EXCEPT ![x].expired = v]
           IN /\ g \in [Codes -> CodeRow] /\ g[x].expired = v
              /\ g[x].at = f[x].at /\ g[x].client = f[x].client /\ g[x].tenant = f[x].tenant
              /\ g[x].scopes = f[x].scopes
              /\ \A y \in Codes \ {x} : g[y] = f[y]
  BY DEF CodeRow

(* A token request moves on: the rest of its row, and the other rows,      *)
(* stay.                                                                   *)
LEMMA TokenSetAt ==
    ASSUME NEW f \in [Tokens -> TokenRow], NEW x \in Tokens, NEW v \in TokenAt
    PROVE  LET g == [f EXCEPT ![x].at = v]
           IN /\ g \in [Tokens -> TokenRow] /\ g[x].at = v
              /\ g[x].client = f[x].client /\ g[x].tenant = f[x].tenant /\ g[x].scopes = f[x].scopes
              /\ g[x].code = f[x].code /\ g[x].parent = f[x].parent /\ g[x].barred = f[x].barred
              /\ \A y \in Tokens \ {x} : g[y] = f[y]
  BY DEF TokenRow

(* The same for the tenant a token is granted for.                         *)
LEMMA TokenSetTenant ==
    ASSUME NEW f \in [Tokens -> TokenRow], NEW x \in Tokens, NEW v \in Texts
    PROVE  LET g == [f EXCEPT ![x].tenant = v]
           IN /\ g \in [Tokens -> TokenRow] /\ g[x].tenant = v
              /\ g[x].at = f[x].at /\ g[x].client = f[x].client /\ g[x].scopes = f[x].scopes
              /\ g[x].code = f[x].code /\ g[x].parent = f[x].parent /\ g[x].barred = f[x].barred
              /\ \A y \in Tokens \ {x} : g[y] = f[y]
  BY DEF TokenRow

(* The same for its scopes.                                                *)
LEMMA TokenSetScopes ==
    ASSUME NEW f \in [Tokens -> TokenRow], NEW x \in Tokens, NEW v \in SUBSET STRING
    PROVE  LET g == [f EXCEPT ![x].scopes = v]
           IN /\ g \in [Tokens -> TokenRow] /\ g[x].scopes = v
              /\ g[x].at = f[x].at /\ g[x].client = f[x].client /\ g[x].tenant = f[x].tenant
              /\ g[x].code = f[x].code /\ g[x].parent = f[x].parent /\ g[x].barred = f[x].barred
              /\ \A y \in Tokens \ {x} : g[y] = f[y]
  BY DEF TokenRow

(* The same for the code it was exchanged for.                             *)
LEMMA TokenSetCode ==
    ASSUME NEW f \in [Tokens -> TokenRow], NEW x \in Tokens, NEW v \in Codes
    PROVE  LET g == [f EXCEPT ![x].code = v]
           IN /\ g \in [Tokens -> TokenRow] /\ g[x].code = v
              /\ g[x].at = f[x].at /\ g[x].client = f[x].client /\ g[x].tenant = f[x].tenant
              /\ g[x].scopes = f[x].scopes /\ g[x].parent = f[x].parent /\ g[x].barred = f[x].barred
              /\ \A y \in Tokens \ {x} : g[y] = f[y]
  BY DEF TokenRow

(* The same for the token whose refresh token it came from.                *)
LEMMA TokenSetParent ==
    ASSUME NEW f \in [Tokens -> TokenRow], NEW x \in Tokens, NEW v \in Tokens
    PROVE  LET g == [f EXCEPT ![x].parent = v]
           IN /\ g \in [Tokens -> TokenRow] /\ g[x].parent = v
              /\ g[x].at = f[x].at /\ g[x].client = f[x].client /\ g[x].tenant = f[x].tenant
              /\ g[x].scopes = f[x].scopes /\ g[x].code = f[x].code /\ g[x].barred = f[x].barred
              /\ \A y \in Tokens \ {x} : g[y] = f[y]
  BY DEF TokenRow

(* The same for its expiry.                                                *)
LEMMA TokenSetExpired ==
    ASSUME NEW f \in [Tokens -> TokenRow], NEW x \in Tokens, NEW v \in BOOLEAN
    PROVE  LET g == [f EXCEPT ![x].expired = v]
           IN /\ g \in [Tokens -> TokenRow] /\ g[x].expired = v
              /\ g[x].at = f[x].at /\ g[x].client = f[x].client /\ g[x].tenant = f[x].tenant
              /\ g[x].scopes = f[x].scopes /\ g[x].code = f[x].code /\ g[x].parent = f[x].parent
              /\ g[x].barred = f[x].barred
              /\ \A y \in Tokens \ {x} : g[y] = f[y]
  BY DEF TokenRow

-----------------------------------------------------------------------------
(* What the actions do to the rows *)

CodeMoves(k, at) ==
    /\ code' \in [Codes -> CodeRow] /\ code'[k].at = at
    /\ code'[k].client = code[k].client /\ code'[k].tenant = code[k].tenant
    /\ code'[k].scopes = code[k].scopes
    /\ \A j \in Codes \ {k} : code'[j] = code[j]

CodeEnds(k) ==
    /\ code' \in [Codes -> CodeRow] /\ code'[k].at = "over"
    /\ \A j \in Codes \ {k} : code'[j] = code[j]

TokenMoves(x, at) ==
    /\ token' \in [Tokens -> TokenRow] /\ token'[x].at = at
    /\ token'[x].client = token[x].client /\ token'[x].tenant = token[x].tenant
    /\ token'[x].scopes = token[x].scopes /\ token'[x].code = token[x].code
    /\ token'[x].parent = token[x].parent /\ token'[x].barred = token[x].barred
    /\ \A y \in Tokens \ {x} : token'[y] = token[y]

TokenEnds(x) ==
    /\ token' \in [Tokens -> TokenRow] /\ token'[x].at = "over"
    /\ token'[x].parent = None /\ token'[x].barred = {}
    /\ \A y \in Tokens \ {x} : token'[y] = token[y]

(* A statement that moves a row, or drops the request that wrote it.       *)
LEMMA CodeMoved ==
    ASSUME TypeOK, NEW k \in Codes, NEW at \in CodeAt
    PROVE  /\ code' = [code EXCEPT ![k].at = at] => CodeMoves(k, at)
           /\ code' = [code EXCEPT ![k] = [NoCode EXCEPT !.at = "over"]] => CodeEnds(k)
<1>1. code \in [Codes -> CodeRow]
  BY DEF TypeOK
<1>2. ASSUME code' = [code EXCEPT ![k].at = at] PROVE CodeMoves(k, at)
  BY <1>1, <1>2, CodeSetAt DEF CodeMoves
<1>3. ASSUME code' = [code EXCEPT ![k] = [NoCode EXCEPT !.at = "over"]] PROVE CodeEnds(k)
  <2> DEFINE r == [NoCode EXCEPT !.at = "over"]
  <2>1. r \in CodeRow /\ r.at = "over"
    BY OverRows
  <2> HIDE DEF r
  <2> QED BY <1>1, <1>3, <2>1 DEF CodeEnds, r
<1> QED BY <1>2, <1>3

(* Writes to a token row, seen as moves or endings of that token.          *)
LEMMA TokenMoved ==
    ASSUME TypeOK, NEW x \in Tokens, NEW at \in TokenAt
    PROVE  /\ token' = [token EXCEPT ![x].at = at] => TokenMoves(x, at)
           /\ token' = [token EXCEPT ![x] = [NoToken EXCEPT !.at = "over"]] => TokenEnds(x)
<1>1. token \in [Tokens -> TokenRow]
  BY DEF TypeOK
<1>2. ASSUME token' = [token EXCEPT ![x].at = at] PROVE TokenMoves(x, at)
  BY <1>1, <1>2, TokenSetAt DEF TokenMoves
<1>3. ASSUME token' = [token EXCEPT ![x] = [NoToken EXCEPT !.at = "over"]] PROVE TokenEnds(x)
  <2> DEFINE r == [NoToken EXCEPT !.at = "over"]
  <2>1. r \in TokenRow /\ r.at = "over" /\ r.parent = None /\ r.barred = {}
    BY OverRows
  <2> HIDE DEF r
  <2> QED BY <1>1, <1>3, <2>1 DEF TokenEnds, r
<1> QED BY <1>2, <1>3

(* A registered client has a tenant, addresses and at least one scope.     *)
LEMMA RegisteredRow ==
    ASSUME TypeOK, NEW c \in Clients, Registered(c)
    PROVE  /\ client[c] \in Registration /\ client[c].tenant \in Texts
           /\ client[c].uris \in SUBSET STRING /\ client[c].scopes \in Scopes
<1>1. client[c] \in Registration
  BY DEF TypeOK, ClientRow, Registered
<1> QED BY <1>1 DEF Registration, Texts

(* HandleAuthorize copies tenant and scopes of the registration it reads.  *)
LEMMA AuthorizeDoes ==
    ASSUME TypeOK, NEW k \in Codes, NEW c \in Clients, NEW u \in client[c].uris,
           NEW asked \in SUBSET client[c].scopes, Authorize(k, c, u, asked)
    PROVE  /\ code' \in [Codes -> CodeRow] /\ code'[k].at = "asked"
           /\ code'[k].tenant = client[c].tenant
           /\ code'[k].scopes # {} /\ code'[k].scopes \subseteq client[c].scopes
           /\ \A j \in Codes \ {k} : code'[j] = code[j]
<1> DEFINE s == IF asked = {} THEN client[c].scopes ELSE asked
           r == Asked(c, client[c].tenant, s, u)
<1>0. Registered(c)
  BY DEF Authorize
<1>1. client[c].scopes # {} /\ client[c].scopes \in SUBSET STRING /\ client[c].tenant \in Texts
  BY <1>0, RegisteredRow DEF Scopes
<1>2. s # {} /\ s \subseteq client[c].scopes /\ s \in SUBSET STRING
  BY <1>1
<1>3. u \in Texts
  BY <1>0, RegisteredRow DEF Texts
<1>4. code' = [code EXCEPT ![k] = r] /\ code \in [Codes -> CodeRow]
  BY DEF Authorize, TypeOK, Asked
<1> HIDE DEF s
<1>5. r \in CodeRow /\ r.at = "asked" /\ r.tenant = client[c].tenant /\ r.scopes = s
  BY <1>1, <1>2, <1>3, AskedRow
<1> HIDE DEF r
<1> QED BY <1>2, <1>4, <1>5

(* HandleToken reads the client, and what was revoked before.              *)
LEMMA BeginTokenDoes ==
    ASSUME TypeOK, NEW x \in Tokens, NEW c \in Clients, BeginToken(x, c)
    PROVE  /\ token' \in [Tokens -> TokenRow] /\ token'[x].at = "client"
           /\ token'[x].parent = None /\ token'[x].barred = revoked
           /\ \A y \in Tokens \ {x} : token'[y] = token[y]
<1> DEFINE r == [NoToken EXCEPT !.at = "client", !.client = c, !.barred = revoked]
<1>1. r \in TokenRow /\ r.at = "client" /\ r.parent = None /\ r.barred = revoked
  BY ClientRead DEF TypeOK
<1>2. token' = [token EXCEPT ![x] = r] /\ token \in [Tokens -> TokenRow]
  BY DEF BeginToken, TypeOK
<1> HIDE DEF r
<1> QED BY <1>1, <1>2

(* authorization_code copies the grant of the code.                        *)
LEMMA ReadCodeDoes ==
    ASSUME TypeOK, NEW x \in Tokens, NEW k \in Codes, ReadCode(x, k)
    PROVE  /\ token' \in [Tokens -> TokenRow] /\ token'[x].at = "held" /\ token'[x].code = k
           /\ token'[x].client = token[x].client /\ token'[x].tenant = code[k].tenant
           /\ token'[x].scopes = code[k].scopes
           /\ token'[x].parent = token[x].parent /\ token'[x].barred = token[x].barred
           /\ \A y \in Tokens \ {x} : token'[y] = token[y]
<1> DEFINE f1 == [token EXCEPT ![x].at = "held"]
           f2 == [f1 EXCEPT ![x].code = k]
           f3 == [f2 EXCEPT ![x].tenant = code[k].tenant]
           f4 == [f3 EXCEPT ![x].scopes = code[k].scopes]
<1>1. code[k].tenant \in Texts /\ code[k].scopes \in SUBSET STRING
        /\ token \in [Tokens -> TokenRow] /\ "held" \in TokenAt
  BY DEF TypeOK, CodeRow, TokenAt
<1>2. token' = f4
  BY DEF ReadCode
<1>3. /\ f1 \in [Tokens -> TokenRow] /\ f1[x].at = "held"
      /\ f1[x].client = token[x].client /\ f1[x].parent = token[x].parent
      /\ f1[x].barred = token[x].barred /\ \A y \in Tokens \ {x} : f1[y] = token[y]
  BY <1>1, TokenSetAt
<1> HIDE DEF f1
<1>4. /\ f2 \in [Tokens -> TokenRow] /\ f2[x].at = "held" /\ f2[x].code = k
      /\ f2[x].client = token[x].client /\ f2[x].parent = token[x].parent
      /\ f2[x].barred = token[x].barred /\ \A y \in Tokens \ {x} : f2[y] = token[y]
  BY <1>3, TokenSetCode
<1> HIDE DEF f2
<1>5. /\ f3 \in [Tokens -> TokenRow] /\ f3[x].at = "held" /\ f3[x].code = k
      /\ f3[x].client = token[x].client /\ f3[x].parent = token[x].parent
      /\ f3[x].barred = token[x].barred /\ f3[x].tenant = code[k].tenant
      /\ \A y \in Tokens \ {x} : f3[y] = token[y]
  BY <1>1, <1>4, TokenSetTenant
<1> HIDE DEF f3
<1>6. /\ f4 \in [Tokens -> TokenRow] /\ f4[x].at = "held" /\ f4[x].code = k
      /\ f4[x].client = token[x].client /\ f4[x].parent = token[x].parent
      /\ f4[x].barred = token[x].barred /\ f4[x].tenant = code[k].tenant
      /\ f4[x].scopes = code[k].scopes /\ \A y \in Tokens \ {x} : f4[y] = token[y]
  BY <1>1, <1>5, TokenSetScopes
<1> HIDE DEF f4
<1> QED BY <1>2, <1>6

(* refresh_token copies the grant of the token found.                      *)
LEMMA ReadRefreshDoes ==
    ASSUME TypeOK, NEW x \in Tokens, NEW p \in Tokens, ReadRefresh(x, p)
    PROVE  /\ token' \in [Tokens -> TokenRow] /\ token'[x].at = "granted"
           /\ token'[x].code = token[p].code /\ token'[x].client = token[x].client
           /\ token'[x].tenant = token[p].tenant /\ token'[x].scopes = token[p].scopes
           /\ token'[x].parent = p /\ token'[x].barred = token[x].barred
           /\ token[p].code \in Codes
           /\ \A y \in Tokens \ {x} : token'[y] = token[y]
<1> DEFINE f1 == [token EXCEPT ![x].at = "granted"]
           f2 == [f1 EXCEPT ![x].code = token[p].code]
           f3 == [f2 EXCEPT ![x].parent = p]
           f4 == [f3 EXCEPT ![x].tenant = token[p].tenant]
           f5 == [f4 EXCEPT ![x].scopes = token[p].scopes]
<1>1. /\ token[p].tenant \in Texts /\ token[p].scopes \in SUBSET STRING
      /\ token \in [Tokens -> TokenRow] /\ "granted" \in TokenAt
  BY DEF TypeOK, TokenRow, TokenAt
<1>0. token[p].code \in Codes
  BY DEF ReadRefresh, StoredToken, TypeOK
<1>2. token' = f5
  BY DEF ReadRefresh
<1>3. /\ f1 \in [Tokens -> TokenRow] /\ f1[x].at = "granted"
      /\ f1[x].client = token[x].client
      /\ f1[x].barred = token[x].barred /\ \A y \in Tokens \ {x} : f1[y] = token[y]
  BY <1>1, TokenSetAt
<1> HIDE DEF f1
<1>4. /\ f2 \in [Tokens -> TokenRow] /\ f2[x].at = "granted" /\ f2[x].code = token[p].code
      /\ f2[x].client = token[x].client
      /\ f2[x].barred = token[x].barred /\ \A y \in Tokens \ {x} : f2[y] = token[y]
  BY <1>0, <1>3, TokenSetCode
<1> HIDE DEF f2
<1>5. /\ f3 \in [Tokens -> TokenRow] /\ f3[x].at = "granted" /\ f3[x].code = token[p].code
      /\ f3[x].client = token[x].client /\ f3[x].parent = p
      /\ f3[x].barred = token[x].barred /\ \A y \in Tokens \ {x} : f3[y] = token[y]
  BY <1>4, TokenSetParent
<1> HIDE DEF f3
<1>6. /\ f4 \in [Tokens -> TokenRow] /\ f4[x].at = "granted" /\ f4[x].code = token[p].code
      /\ f4[x].client = token[x].client /\ f4[x].parent = p
      /\ f4[x].barred = token[x].barred /\ f4[x].tenant = token[p].tenant
      /\ \A y \in Tokens \ {x} : f4[y] = token[y]
  BY <1>1, <1>5, TokenSetTenant
<1> HIDE DEF f4
<1>7. /\ f5 \in [Tokens -> TokenRow] /\ f5[x].at = "granted" /\ f5[x].code = token[p].code
      /\ f5[x].client = token[x].client /\ f5[x].parent = p
      /\ f5[x].barred = token[x].barred /\ f5[x].tenant = token[p].tenant
      /\ f5[x].scopes = token[p].scopes /\ \A y \in Tokens \ {x} : f5[y] = token[y]
  BY <1>1, <1>6, TokenSetScopes
<1> HIDE DEF f5
<1> QED BY <1>0, <1>2, <1>7

(* Expiry changes no more than the flag.                                   *)
LEMMA ExpireDoes ==
    ASSUME TypeOK, Expire
    PROVE  \/ UNCHANGED token /\ \E k \in Codes : CodeMoves(k, code[k].at)
           \/ UNCHANGED code /\ \E t \in Tokens : TokenMoves(t, token[t].at)
<1>0. PICK yes \in BOOLEAN : yes = TRUE
  OBVIOUS
<1>1. ASSUME NEW k \in Codes, code' = [code EXCEPT ![k].expired = TRUE]
      PROVE  CodeMoves(k, code[k].at)
  <2>1. code' = [code EXCEPT ![k].expired = yes]
    BY <1>0, <1>1, Zenon
  <2> QED BY <2>1, CodeSetExpired DEF CodeMoves, TypeOK
<1>2. ASSUME NEW t \in Tokens, token' = [token EXCEPT ![t].expired = TRUE]
      PROVE  TokenMoves(t, token[t].at)
  <2>1. token' = [token EXCEPT ![t].expired = yes]
    BY <1>0, <1>2, Zenon
  <2> QED BY <2>1, TokenSetExpired DEF TokenMoves, TypeOK
<1> QED BY <1>1, <1>2 DEF Expire

(* Updates of a client that is written elsewhere are outdated; that is all.*)
LEMMA OutdatedRows ==
    ASSUME TypeOK, NEW c
    PROVE  /\ Outdated(c) \in [Editors -> EditRow]
           /\ \A a \in Editors : /\ Outdated(c)[a].client = edit[a].client
                                 /\ Outdated(c)[a].copy = edit[a].copy
                                 /\ Outdated(c)[a].patch = edit[a].patch
                                 /\ edit[a].client = c => Outdated(c)[a].stale
                                 /\ edit[a].client # c => Outdated(c)[a] = edit[a]
<1>1. SUFFICES ASSUME NEW a \in Editors
               PROVE  LET r == Outdated(c)[a]
                      IN /\ r \in EditRow /\ r.client = edit[a].client
                         /\ r.copy = edit[a].copy /\ r.patch = edit[a].patch
                         /\ edit[a].client = c => r.stale
                         /\ edit[a].client # c => r = edit[a]
  <2>1. Outdated(c) = [a \in Editors |-> Outdated(c)[a]]
    BY Zenon DEF Outdated
  <2> QED BY <1>1, <2>1
<1>2. edit[a] \in EditRow
  BY DEF TypeOK
<1> DEFINE q == [edit[a] EXCEPT !.stale = TRUE]
<1>3. PICK e \in EditRow : e = edit[a]
  BY <1>2
<1>4. /\ q \in EditRow /\ q.client = e.client /\ q.copy = e.copy /\ q.patch = e.patch
      /\ q.stale = TRUE
  <2>1. PICK yes \in BOOLEAN : yes = TRUE
    OBVIOUS
  <2>2. q = [e EXCEPT !.stale = yes]
    BY <1>3, <2>1, Zenon
  <2>3. LET s == [e EXCEPT !.stale = yes]
        IN /\ s \in EditRow /\ s.client = e.client /\ s.copy = e.copy /\ s.patch = e.patch
           /\ s.stale = yes
    BY DEF EditRow
  <2> QED BY <2>1, <2>2, <2>3, Zenon
<1>5. Outdated(c)[a] = IF edit[a].client = c THEN q ELSE edit[a]
  BY DEF Outdated
<1> HIDE DEF q
<1> QED BY <1>2, <1>3, <1>4, <1>5

-----------------------------------------------------------------------------
(* Types *)

(* The initial state has the types.                                        *)
LEMMA InitType == Init => TypeOK
<1> SUFFICES ASSUME Init PROVE TypeOK
  OBVIOUS
<1>1. client \in [Clients -> ClientRow] /\ intended \in [Clients -> ClientRow]
        /\ issued \in [Codes -> ClientRow]
  BY OAuthAssumption DEF Init, ClientRow
<1>2. edit \in [Editors -> EditRow] /\ \A a \in Editors : edit[a].client = Nobody
  BY BlankRows DEF Init
<1>3. code \in [Codes -> CodeRow] /\ token \in [Tokens -> TokenRow]
        /\ \A x \in Tokens : token[x].at = "none"
  BY BlankRows DEF Init
<1>4. /\ shared \subseteq Codes /\ revoked \subseteq Tokens /\ crossed \subseteq Clients
      /\ edits \in 0..MaxEdits /\ faults \in 0..MaxFaults
  BY OAuthAssumption DEF Init
<1> QED BY <1>1, <1>2, <1>3, <1>4 DEF TypeOK

(* The parts of the type invariant that the requests of the administrators *)
(* and those of the clients change.                                        *)
AdminType ==
    /\ client \in [Clients -> ClientRow] /\ intended \in [Clients -> ClientRow]
    /\ edit \in [Editors -> EditRow]
    /\ \A a \in Editors : edit[a].client # Nobody =>
          edit[a].copy \in Registration /\ edit[a].patch \in Patches
    /\ crossed \subseteq Clients
    /\ edits \in 0..MaxEdits

GrantType ==
    /\ issued \in [Codes -> ClientRow]
    /\ code \in [Codes -> CodeRow] /\ token \in [Tokens -> TokenRow]
    /\ \A x \in Tokens : token[x].at \in Used => token[x].code \in Codes
    /\ shared \subseteq Codes /\ revoked \subseteq Tokens

(* Faults are counted up to their bound.                                   *)
LEMMA FaultsBounded ==
    ASSUME TypeOK, Fault \/ NoFault
    PROVE  faults' \in 0..MaxFaults
  BY OAuthAssumption DEF TypeOK, Fault, NoFault

(* The types of the administration and of the grants, one at a time.       *)
LEMMA TypeParts == TypeOK <=> AdminType /\ GrantType /\ faults \in 0..MaxFaults
  BY DEF TypeOK, AdminType, GrantType, Used

(* The administrators' requests keep their types.                          *)
LEMMA AdminTypeStep ==
    ASSUME TypeOK, AdminNext
    PROVE  AdminType' /\ GrantType' /\ faults' \in 0..MaxFaults
<1>0. AdminType /\ GrantType /\ faults \in 0..MaxFaults
  BY TypeParts
<1>g. ASSUME UNCHANGED <<code, token, issued, shared, revoked>> PROVE GrantType'
  BY <1>0, <1>g DEF GrantType
<1>a. ASSUME Administer PROVE edits' \in 0..MaxEdits
  BY <1>0, <1>a, OAuthAssumption DEF AdminType, Administer
<1>1. ASSUME NEW c \in Clients, DeleteClient(c)
      PROVE  AdminType' /\ GrantType' /\ faults' \in 0..MaxFaults
  <2>1. client' \in [Clients -> ClientRow] /\ intended' \in [Clients -> ClientRow]
    BY <1>0, <1>1 DEF AdminType, DeleteClient, DropClient, ClientRow
  <2> QED BY <1>0, <1>1, <1>a, <1>g, <2>1 DEF AdminType, DeleteClient
<1>2. ASSUME NEW c \in Clients, NEW r \in Registrations, CreateClient(c, r)
      PROVE  AdminType' /\ GrantType' /\ faults' \in 0..MaxFaults
  <2>1. client' \in [Clients -> ClientRow] /\ intended' \in [Clients -> ClientRow]
    BY <1>0, <1>2, OAuthAssumption DEF AdminType, CreateClient, InsertClient, ClientRow
  <2>2. /\ edit' \in [Editors -> EditRow]
        /\ \A a \in Editors : /\ edit'[a].client = edit[a].client
                              /\ edit'[a].copy = edit[a].copy
                              /\ edit'[a].patch = edit[a].patch
    <3>1. edit' = Outdated(c)
      BY <1>2 DEF CreateClient
    <3> QED BY <3>1, OutdatedRows
  <2> QED BY <1>0, <1>2, <1>a, <1>g, <2>1, <2>2 DEF AdminType, CreateClient
<1>3. ASSUME NEW a \in Editors, UpdateClient(a)
      PROVE  AdminType' /\ GrantType' /\ faults' \in 0..MaxFaults
  <2> DEFINE c == edit[a].client
  <2>1. c \in Clients /\ edit[a].copy \in Registration /\ edit[a].patch \in Patches
    BY <1>0, <1>3 DEF AdminType, UpdateClient, EditRow
  <2>2. GrantType' /\ faults' \in 0..MaxFaults /\ edits' \in 0..MaxEdits
    BY <1>0, <1>3, <1>g, FaultsBounded DEF UpdateClient, AdminType
  <2>3. CASE UNCHANGED <<client, intended, crossed>> /\ edit' = [edit EXCEPT ![a] = NoEdit]
    <3>1. edit' \in [Editors -> EditRow] /\ edit'[a].client = Nobody
            /\ \A b \in Editors \ {a} : edit'[b] = edit[b]
      BY <1>0, <2>3, BlankRows DEF AdminType
    <3> QED BY <1>0, <2>2, <2>3, <3>1 DEF AdminType
  <2>4. CASE /\ WriteClient(c, Patched(edit[a].patch, edit[a].copy))
             /\ intended' = [intended EXCEPT ![c] = IF @ = NoClient THEN @
                                                    ELSE Patched(edit[a].patch, @)]
             /\ crossed' = crossed \cup {d \in {c} : edit[a].stale}
             /\ edit' = [Outdated(c) EXCEPT ![a] = NoEdit]
    <3> DEFINE r == Patched(edit[a].patch, edit[a].copy)
               i == Patched(edit[a].patch, intended[c])
    <3>1. r \in ClientRow
      BY <2>1, PatchedType DEF ClientRow
    <3>2. intended[c] # NoClient => i \in ClientRow
      BY <1>0, <2>1, PatchedType DEF AdminType, ClientRow
    <3>3. client' = [client EXCEPT ![c] = IF client[c] # NoClient THEN r ELSE client[c]]
      BY <2>4 DEF WriteClient, Registered
    <3>4. intended' = [intended EXCEPT ![c] = IF intended[c] = NoClient THEN intended[c] ELSE i]
      BY <2>4
    <3> HIDE DEF r, i
    <3>5. client' \in [Clients -> ClientRow] /\ intended' \in [Clients -> ClientRow]
      BY <1>0, <2>1, <3>1, <3>2, <3>3, <3>4 DEF AdminType
    <3>6. crossed' \subseteq Clients
      BY <1>0, <2>1, <2>4 DEF AdminType
    <3>7. edit' \in [Editors -> EditRow] /\ edit'[a].client = Nobody
            /\ \A b \in Editors \ {a} : edit'[b] = Outdated(c)[b]
      BY <2>4, BlankRows, OutdatedRows
    <3>8. \A b \in Editors : edit'[b].client # Nobody =>
             edit'[b].copy \in Registration /\ edit'[b].patch \in Patches
      <4> SUFFICES ASSUME NEW b \in Editors, edit'[b].client # Nobody
                   PROVE  edit'[b].copy \in Registration /\ edit'[b].patch \in Patches
        OBVIOUS
      <4>1. b # a /\ edit'[b] = Outdated(c)[b]
        BY <3>7
      <4>2. /\ edit'[b].client = edit[b].client /\ edit'[b].copy = edit[b].copy
            /\ edit'[b].patch = edit[b].patch
        BY <4>1, OutdatedRows
      <4> QED BY <1>0, <4>2 DEF AdminType
    <3> QED BY <2>2, <3>5, <3>6, <3>7, <3>8 DEF AdminType
  <2> QED BY <1>3, <2>3, <2>4 DEF UpdateClient
<1>4. ASSUME NEW a \in Editors, NEW c \in Clients, NEW p \in Patches, BeginUpdate(a, c, p)
      PROVE  AdminType' /\ GrantType' /\ faults' \in 0..MaxFaults
  <2>0. PICK no \in BOOLEAN : no = FALSE
    OBVIOUS
  <2> DEFINE r == [client |-> c, copy |-> client[c], patch |-> p, stale |-> no]
  <2>1. client[c] \in Registration
    BY <1>4, RegisteredRow DEF BeginUpdate, Listed, Registered
  <2>2. r \in EditRow /\ r.copy = client[c] /\ r.patch = p
    BY <2>1 DEF EditRow, ClientRow
  <2>3. edit' = [edit EXCEPT ![a] = r]
    BY <1>4, <2>0, Zenon DEF BeginUpdate
  <2> HIDE DEF r
  <2>4. /\ edit' \in [Editors -> EditRow]
        /\ \A b \in Editors : edit'[b].client # Nobody =>
              edit'[b].copy \in Registration /\ edit'[b].patch \in Patches
    BY <1>0, <2>1, <2>2, <2>3 DEF AdminType
  <2> QED BY <1>0, <1>4, <1>a, <1>g, <2>4 DEF AdminType, BeginUpdate, tables, history
<1> QED BY <1>1, <1>2, <1>3, <1>4 DEF AdminNext

(* The clients' requests keep their types.                                 *)
LEMMA RequestTypeStep ==
    ASSUME TypeOK, CodeNext \/ ExchangeNext \/ TokenNext
    PROVE  AdminType' /\ GrantType' /\ faults' \in 0..MaxFaults
<1>0. AdminType /\ GrantType /\ faults \in 0..MaxFaults
  BY TypeParts
<1>a. ASSUME UNCHANGED <<client, intended, edit, crossed, edits>> PROVE AdminType'
  BY <1>0, <1>a DEF AdminType
<1>t. "stored" \in CodeAt /\ "gone" \in CodeAt
        /\ "stored" \in TokenAt /\ "gone" \in TokenAt /\ "granted" \in TokenAt
  BY DEF CodeAt, TokenAt
<1>u. "stored" \in Used /\ "gone" \in Used /\ "held" \in Used /\ "granted" \in Used
        /\ "over" \notin Used /\ "client" \notin Used
  BY DEF Used
<1>1. ASSUME NEW k \in Codes, NEW c \in Clients, NEW u \in client[c].uris,
             NEW asked \in SUBSET client[c].scopes, Authorize(k, c, u, asked)
      PROVE  AdminType' /\ GrantType' /\ faults' \in 0..MaxFaults
  <2>1. code' \in [Codes -> CodeRow]
    BY <1>1, AuthorizeDoes
  <2>2. issued' \in [Codes -> ClientRow]
    BY <1>0, <1>1 DEF Authorize, AdminType, GrantType
  <2> QED BY <1>0, <1>1, <1>a, <2>1, <2>2 DEF Authorize, GrantType
<1>2. ASSUME NEW k \in Codes, CreateCode(k)
      PROVE  AdminType' /\ GrantType' /\ faults' \in 0..MaxFaults
  <2>1. code' \in [Codes -> CodeRow]
    BY <1>2, <1>t, CodeMoved DEF CreateCode, InsertCode, CodeMoves, CodeEnds
  <2> QED BY <1>0, <1>2, <1>a, <2>1, FaultsBounded DEF CreateCode, GrantType, history
<1>3. ASSUME NEW x \in Tokens, NEW c \in Clients, BeginToken(x, c)
      PROVE  AdminType' /\ GrantType' /\ faults' \in 0..MaxFaults
  BY <1>0, <1>3, <1>a, <1>u, BeginTokenDoes DEF BeginToken, GrantType, history
<1>4. ASSUME NEW x \in Tokens, Refuse(x)
      PROVE  AdminType' /\ GrantType' /\ faults' \in 0..MaxFaults
  <2>1. TokenEnds(x)
    BY <1>4, <1>t, TokenMoved DEF Refuse
  <2> QED BY <1>0, <1>4, <1>a, <1>u, <2>1 DEF Refuse, GrantType, history, TokenEnds
<1>5. ASSUME NEW x \in Tokens, DeleteCode(x)
      PROVE  AdminType' /\ GrantType' /\ faults' \in 0..MaxFaults
  <2>1. TokenMoves(x, "granted")
    BY <1>5, <1>t, TokenMoved DEF DeleteCode
  <2>2. token[x].code \in Codes
    BY <1>0, <1>5, <1>u DEF DeleteCode, GrantType
  <2>3. code' \in [Codes -> CodeRow] /\ shared' \subseteq Codes /\ faults' \in 0..MaxFaults
    BY <1>0, <1>5, <1>t, <2>2, CodeMoved, FaultsBounded
       DEF DeleteCode, Perhaps, DropCode, CodeMoves, GrantType
  <2> QED BY <1>0, <1>5, <1>a, <1>u, <2>1, <2>2, <2>3 DEF DeleteCode, GrantType, TokenMoves
<1>6. ASSUME NEW x \in Tokens, CreateToken(x)
      PROVE  AdminType' /\ GrantType' /\ faults' \in 0..MaxFaults
  <2>1. TokenMoves(x, "stored") \/ TokenEnds(x)
    BY <1>6, <1>t, TokenMoved DEF CreateToken, InsertToken
  <2>2. token[x].code \in Codes
    BY <1>0, <1>6, <1>u DEF CreateToken, GrantType
  <2>3. faults' \in 0..MaxFaults
    BY <1>6, FaultsBounded DEF CreateToken
  <2> QED BY <1>0, <1>6, <1>a, <1>u, <2>1, <2>2, <2>3
          DEF CreateToken, GrantType, history, TokenMoves, TokenEnds
<1>7. ASSUME NEW x \in Tokens, NEW k \in Codes, ReadCode(x, k)
      PROVE  AdminType' /\ GrantType' /\ faults' \in 0..MaxFaults
  <2>1. shared' \subseteq Codes
    BY <1>0, <1>7 DEF ReadCode, GrantType
  <2>2. /\ token' \in [Tokens -> TokenRow] /\ token'[x].code \in Codes
        /\ \A y \in Tokens \ {x} : token'[y] = token[y]
    BY <1>7, ReadCodeDoes
  <2>3. AdminType'
    BY <1>7, <1>a DEF ReadCode
  <2> QED BY <1>0, <1>7, <2>1, <2>2, <2>3 DEF ReadCode, GrantType
<1>8. ASSUME NEW x \in Tokens, NEW k \in Codes, ReadExpired(x, k)
      PROVE  AdminType' /\ GrantType' /\ faults' \in 0..MaxFaults
  <2>1. TokenEnds(x)
    BY <1>8, <1>t, TokenMoved DEF ReadExpired
  <2>2. code' \in [Codes -> CodeRow] /\ faults' \in 0..MaxFaults
    BY <1>0, <1>8, <1>t, CodeMoved, FaultsBounded
       DEF ReadExpired, Perhaps, DropCode, CodeMoves, GrantType
  <2> QED BY <1>0, <1>8, <1>a, <1>u, <2>1, <2>2 DEF ReadExpired, GrantType, history, TokenEnds
<1>9. ASSUME NEW x \in Tokens, NEW p \in Tokens, ReadRefresh(x, p)
      PROVE  AdminType' /\ GrantType' /\ faults' \in 0..MaxFaults
  <2>1. /\ token' \in [Tokens -> TokenRow] /\ token'[x].code \in Codes
        /\ \A y \in Tokens \ {x} : token'[y] = token[y]
    BY <1>9, ReadRefreshDoes
  <2>2. AdminType'
    BY <1>9, <1>a DEF ReadRefresh, history
  <2> QED BY <1>0, <1>9, <2>1, <2>2 DEF ReadRefresh, GrantType, history
<1>10. ASSUME NEW t \in Tokens, Revoke(t)
       PROVE  AdminType' /\ GrantType' /\ faults' \in 0..MaxFaults
  <2>1. TokenMoves(t, "gone") \/ UNCHANGED token
    BY <1>10, <1>t, TokenMoved DEF Revoke, Perhaps, DropToken
  <2>2. token[t].code \in Codes
    BY <1>0, <1>10, <1>u DEF Revoke, StoredToken, GrantType
  <2>3. revoked' \subseteq Tokens /\ faults' \in 0..MaxFaults
    BY <1>0, <1>10, FaultsBounded DEF Revoke, Perhaps, GrantType
  <2> QED BY <1>0, <1>10, <1>a, <1>u, <2>1, <2>2, <2>3 DEF Revoke, GrantType, TokenMoves
<1>11. ASSUME NEW t \in Tokens, ValidateAccessToken(t)
       PROVE  AdminType' /\ GrantType' /\ faults' \in 0..MaxFaults
  <2>1. TokenMoves(t, "gone")
    BY <1>11, <1>t, TokenMoved DEF ValidateAccessToken, DropToken
  <2>2. token[t].code \in Codes
    BY <1>0, <1>11, <1>u DEF ValidateAccessToken, StoredToken, GrantType
  <2> QED BY <1>0, <1>11, <1>a, <1>u, <2>1, <2>2
          DEF ValidateAccessToken, GrantType, TokenMoves, history
<1>12. ASSUME Expire
       PROVE  AdminType' /\ GrantType' /\ faults' \in 0..MaxFaults
  <2>1. \/ UNCHANGED token /\ \E k \in Codes : CodeMoves(k, code[k].at)
        \/ UNCHANGED code /\ \E t \in Tokens : TokenMoves(t, token[t].at)
    BY <1>12, ExpireDoes
  <2> QED BY <1>0, <1>12, <1>a, <2>1 DEF Expire, GrantType, CodeMoves, TokenMoves, history
<1> QED BY <1>1, <1>2, <1>3, <1>4, <1>5, <1>6, <1>7, <1>8, <1>9, <1>10, <1>11, <1>12
        DEF CodeNext, ExchangeNext, TokenNext

(* A restart ends the requests under way; the tables stay.                 *)
LEMMA RestartDoes ==
    ASSUME TypeOK, Restart
    PROVE  /\ code' \in [Codes -> CodeRow] /\ token' \in [Tokens -> TokenRow]
           /\ edit' \in [Editors -> EditRow] /\ \A a \in Editors : edit'[a].client = Nobody
           /\ \A k \in Codes : code'[k].at = "over" \/ code'[k] = code[k]
           /\ \A k \in Codes : code[k].at # "asked" => code'[k] = code[k]
           /\ \A x \in Tokens : \/ token'[x] = token[x]
                                \/ /\ token'[x].at = "over"
                                   /\ token'[x].parent = None /\ token'[x].barred = {}
           /\ \A x \in Tokens : token[x].at \notin {"client", "held", "granted"} =>
                                   token'[x] = token[x]
<1> DEFINE oc == [NoCode EXCEPT !.at = "over"]
           ot == [NoToken EXCEPT !.at = "over"]
<1>1. /\ oc \in CodeRow /\ oc.at = "over"
      /\ ot \in TokenRow /\ ot.at = "over" /\ ot.parent = None /\ ot.barred = {}
  BY OverRows
<1>2. code' = [k \in Codes |-> IF code[k].at = "asked" THEN oc ELSE code[k]]
  BY DEF Restart
<1>3. token' = [x \in Tokens |-> IF token[x].at \in {"client", "held", "granted"}
                                 THEN ot ELSE token[x]]
  BY DEF Restart
<1> HIDE DEF oc, ot
<1>4. edit' \in [Editors -> EditRow] /\ \A a \in Editors : edit'[a].client = Nobody
  BY BlankRows DEF Restart
<1>5. code \in [Codes -> CodeRow] /\ token \in [Tokens -> TokenRow]
  BY DEF TypeOK
<1> QED BY <1>1, <1>2, <1>3, <1>4, <1>5

(* Every step keeps the types.                                             *)
LEMMA TypeStep == TypeOK /\ [Next]_vars => TypeOK'
<1> SUFFICES ASSUME TypeOK, [Next]_vars PROVE TypeOK'
  OBVIOUS
<1>0. AdminType /\ GrantType /\ faults \in 0..MaxFaults
  BY TypeParts
<1>1. CASE AdminNext
  BY <1>1, AdminTypeStep DEF TypeOK, AdminType, GrantType, Used
<1>2. CASE CodeNext \/ ExchangeNext \/ TokenNext
  BY <1>2, RequestTypeStep DEF TypeOK, AdminType, GrantType, Used
<1>3. CASE Restart
  <2>1. faults' \in 0..MaxFaults
    BY <1>3, FaultsBounded DEF Restart
  <2>2. AdminType'
    BY <1>0, <1>3, RestartDoes DEF Restart, AdminType, history
  <2>3. GrantType'
    BY <1>0, <1>3, RestartDoes DEF Restart, GrantType, history, Used
  <2> QED BY <2>1, <2>2, <2>3 DEF TypeOK, AdminType, GrantType, Used
<1>4. CASE UNCHANGED vars
  BY <1>4 DEF vars, tables, history, TypeOK
<1> QED BY <1>1, <1>2, <1>3, <1>4 DEF Next

(* Every row and every request keeps its type (oauth_clients, oauth_codes, *)
(* oauth_tokens, the handlers' local copies).                              *)
THEOREM TypeCorrect == Spec => []TypeOK
<1> QED BY InitType, TypeStep, PTL DEF Spec

-----------------------------------------------------------------------------
(* Grants *)

(* What a code and a token owe to the registration that was read.          *)
CodeOwes(k) ==
    code[k].at \in {"asked", "stored", "gone"} =>
        /\ code[k].tenant = issued[k].tenant
        /\ code[k].scopes # {} /\ code[k].scopes \subseteq issued[k].scopes

TokenOwes(x) ==
    token[x].at \in Used =>
        /\ token[x].code \in Codes /\ code[token[x].code].at \in {"stored", "gone"}
        /\ token[x].client = code[token[x].code].client
        /\ token[x].tenant = issued[token[x].code].tenant
        /\ token[x].scopes # {} /\ token[x].scopes \subseteq issued[token[x].code].scopes

(* GrantInv is what each code and each token owes.                         *)
LEMMA GrantParts == GrantInv <=> (\A k \in Codes : CodeOwes(k)) /\ (\A x \in Tokens : TokenOwes(x))
  BY DEF GrantInv, CodeFollowsRead, GrantHeld, CodeOwes, TokenOwes

(* Tokens keep what they owe while codes only move from stored to gone.    *)
LEMMA CodesMoveOn ==
    ASSUME TypeOK, GrantInv, UNCHANGED issued, NEW k \in Codes, NEW at \in CodeAt,
           CodeMoves(k, at), code[k].at \in {"asked", "stored", "gone"},
           at \in {"stored", "gone"} \/ at = code[k].at
    PROVE  /\ \A j \in Codes : CodeOwes(j)'
           /\ \A x \in Tokens : token'[x] = token[x] => TokenOwes(x)'
<1>0. (\A j \in Codes : CodeOwes(j)) /\ (\A x \in Tokens : TokenOwes(x))
  BY GrantParts
<1>1. \A j \in Codes : CodeOwes(j)'
  BY <1>0 DEF CodeOwes, CodeMoves
<1>2. ASSUME NEW x \in Tokens, token'[x] = token[x] PROVE TokenOwes(x)'
  BY <1>0, <1>2 DEF TokenOwes, CodeMoves
<1> QED BY <1>1, <1>2

(* A token that only moves keeps what it owes.                             *)
LEMMA TokensMoveOn ==
    ASSUME GrantInv, UNCHANGED <<code, issued>>, NEW t \in Tokens, NEW at,
           TokenMoves(t, at), token[t].at \in Used
    PROVE  \A x \in Tokens : TokenOwes(x)'
  BY GrantParts DEF TokenMoves, TokenOwes

(* A token request that is cut off owes nothing any more.                  *)
LEMMA TokensEnd ==
    ASSUME GrantInv, UNCHANGED <<code, issued>>, NEW t \in Tokens, TokenEnds(t)
    PROVE  \A x \in Tokens : TokenOwes(x)'
  BY GrantParts DEF TokenEnds, TokenOwes, Used

(* Every step keeps what grants owe to the code they were exchanged for.   *)
LEMMA GrantStep == TypeOK /\ GrantInv /\ [Next]_vars => GrantInv'
<1> SUFFICES ASSUME TypeOK, GrantInv, [Next]_vars
             PROVE  (\A k \in Codes : CodeOwes(k)') /\ (\A x \in Tokens : TokenOwes(x)')
  BY DEF GrantInv, CodeFollowsRead, GrantHeld, CodeOwes, TokenOwes
<1> DEFINE Goal == (\A k \in Codes : CodeOwes(k)') /\ (\A x \in Tokens : TokenOwes(x)')
<1>0. (\A k \in Codes : CodeOwes(k)) /\ (\A x \in Tokens : TokenOwes(x))
  BY GrantParts
<1>c. ASSUME UNCHANGED <<code, issued>> PROVE \A k \in Codes : CodeOwes(k)'
  BY <1>0, <1>c DEF CodeOwes
<1>t. "stored" \in CodeAt /\ "gone" \in CodeAt
        /\ "stored" \in TokenAt /\ "gone" \in TokenAt /\ "granted" \in TokenAt
  BY DEF CodeAt, TokenAt
<1>1. ASSUME NEW k \in Codes, NEW c \in Clients, NEW u \in client[c].uris,
             NEW asked \in SUBSET client[c].scopes, Authorize(k, c, u, asked)
      PROVE  Goal
  <2>1. /\ code[k].at = "none" /\ issued' = [issued EXCEPT ![k] = client[c]]
        /\ issued \in [Codes -> ClientRow] /\ UNCHANGED token
    BY <1>1 DEF Authorize, TypeOK
  <2>2. /\ code'[k].at = "asked" /\ code'[k].tenant = client[c].tenant
        /\ code'[k].scopes # {} /\ code'[k].scopes \subseteq client[c].scopes
        /\ \A j \in Codes \ {k} : code'[j] = code[j]
    BY <1>1, AuthorizeDoes
  <2>3. issued'[k] = client[c] /\ \A j \in Codes \ {k} : issued'[j] = issued[j]
    BY <2>1
  <2>4. \A j \in Codes : CodeOwes(j)'
    BY <1>0, <2>2, <2>3 DEF CodeOwes
  <2>5. \A x \in Tokens : token[x].at \in Used => token[x].code # k
    BY <1>0, <2>1 DEF TokenOwes
  <2>6. \A x \in Tokens : TokenOwes(x)'
    BY <1>0, <2>1, <2>2, <2>3, <2>5 DEF TokenOwes
  <2> QED BY <2>4, <2>6
<1>2. ASSUME NEW k \in Codes, CreateCode(k)
      PROVE  Goal
  <2>1. code[k].at = "asked" /\ UNCHANGED <<token, issued>>
    BY <1>2 DEF CreateCode, history
  <2>2. CodeMoves(k, "stored") \/ CodeEnds(k)
    BY <1>2, <1>t, CodeMoved DEF CreateCode, InsertCode
  <2>3. CASE CodeMoves(k, "stored")
    BY <1>t, <2>1, <2>3, CodesMoveOn
  <2>4. CASE CodeEnds(k)
    <3>1. \A j \in Codes : CodeOwes(j)'
      BY <1>0, <2>1, <2>4 DEF CodeOwes, CodeEnds
    <3>2. \A x \in Tokens : TokenOwes(x)'
      BY <1>0, <2>1, <2>4 DEF TokenOwes, CodeEnds
    <3> QED BY <3>1, <3>2
  <2> QED BY <2>2, <2>3, <2>4
<1>3. ASSUME NEW x \in Tokens, NEW c \in Clients, BeginToken(x, c)
      PROVE  Goal
  <2>1. UNCHANGED <<code, issued>>
    BY <1>3 DEF BeginToken, history
  <2>2. \A y \in Tokens : TokenOwes(y)'
    BY <1>0, <1>3, <2>1, BeginTokenDoes DEF TokenOwes, Used
  <2> QED BY <1>c, <2>1, <2>2
<1>4. ASSUME NEW x \in Tokens, Refuse(x)
      PROVE  Goal
  <2>1. TokenEnds(x) /\ UNCHANGED <<code, issued>>
    BY <1>4, <1>t, TokenMoved DEF Refuse, history
  <2> QED BY <1>c, <2>1, TokensEnd
<1>5. ASSUME NEW x \in Tokens, DeleteCode(x)
      PROVE  Goal
  <2> DEFINE k == token[x].code
  <2>1. token[x].at = "held" /\ UNCHANGED issued /\ TokenMoves(x, "granted")
    BY <1>5, <1>t, TokenMoved DEF DeleteCode
  <2>2. k \in Codes /\ code[k].at \in {"stored", "gone"}
    BY <1>0, <2>1 DEF TokenOwes, Used
  <2>3. CodeMoves(k, "gone") \/ UNCHANGED code
    BY <1>5, <1>t, <2>2, CodeMoved DEF DeleteCode, Perhaps, DropCode
  <2>4. CASE UNCHANGED code
    BY <1>c, <2>1, <2>4, TokensMoveOn DEF Used
  <2>5. CASE CodeMoves(k, "gone")
    <3>1. \A j \in Codes : CodeOwes(j)'
      BY <1>t, <2>1, <2>2, <2>5, CodesMoveOn
    <3>2. \A y \in Tokens \ {x} : TokenOwes(y)'
      BY <1>t, <2>1, <2>2, <2>5, CodesMoveOn DEF TokenMoves
    <3>3. TokenOwes(x)'
      BY <1>0, <2>1, <2>2, <2>5 DEF TokenOwes, TokenMoves, CodeMoves, Used
    <3> QED BY <3>1, <3>2, <3>3
  <2> QED BY <2>3, <2>4, <2>5
<1>6. ASSUME NEW x \in Tokens, CreateToken(x)
      PROVE  Goal
  <2>1. token[x].at \in Used /\ UNCHANGED <<code, issued>>
    BY <1>6 DEF CreateToken, history, Used
  <2>2. TokenMoves(x, "stored") \/ TokenEnds(x)
    BY <1>6, <1>t, TokenMoved DEF CreateToken, InsertToken
  <2> QED BY <1>c, <2>1, <2>2, TokensMoveOn, TokensEnd
<1>7. ASSUME NEW x \in Tokens, NEW k \in Codes, ReadCode(x, k)
      PROVE  Goal
  <2>1. /\ UNCHANGED <<code, issued>> /\ code[k].at = "stored"
        /\ code[k].client = token[x].client
    BY <1>7 DEF ReadCode, Exchangeable, StoredCode
  <2>2. TokenOwes(x)'
    BY <1>0, <1>7, <2>1, ReadCodeDoes DEF TokenOwes, CodeOwes
  <2>3. \A y \in Tokens \ {x} : TokenOwes(y)'
    BY <1>0, <1>7, <2>1, ReadCodeDoes DEF TokenOwes
  <2> QED BY <1>c, <2>1, <2>2, <2>3
<1>8. ASSUME NEW x \in Tokens, NEW k \in Codes, ReadExpired(x, k)
      PROVE  Goal
  <2>1. code[k].at = "stored" /\ UNCHANGED issued /\ TokenEnds(x)
    BY <1>8, <1>t, TokenMoved DEF ReadExpired, Exchangeable, StoredCode, history
  <2>2. CodeMoves(k, "gone") \/ UNCHANGED code
    BY <1>8, <1>t, CodeMoved DEF ReadExpired, Perhaps, DropCode
  <2>3. CASE UNCHANGED code
    BY <1>c, <2>1, <2>3, TokensEnd
  <2>4. CASE CodeMoves(k, "gone")
    <3>1. \A j \in Codes : CodeOwes(j)'
      BY <1>t, <2>1, <2>4, CodesMoveOn
    <3>2. \A y \in Tokens \ {x} : TokenOwes(y)'
      BY <1>t, <2>1, <2>4, CodesMoveOn DEF TokenEnds
    <3>3. TokenOwes(x)'
      BY <2>1 DEF TokenOwes, TokenEnds, Used
    <3> QED BY <3>1, <3>2, <3>3
  <2> QED BY <2>2, <2>3, <2>4
<1>9. ASSUME NEW x \in Tokens, NEW p \in Tokens, ReadRefresh(x, p)
      PROVE  Goal
  <2>1. /\ UNCHANGED <<code, issued>> /\ token[p].at \in Used
        /\ token[p].client = token[x].client
    BY <1>9 DEF ReadRefresh, StoredToken, history, Used
  <2>2. TokenOwes(p)
    BY <1>0
  <2>3. TokenOwes(x)'
    BY <1>9, <2>1, <2>2, ReadRefreshDoes DEF TokenOwes
  <2>4. \A y \in Tokens \ {x} : TokenOwes(y)'
    BY <1>0, <1>9, <2>1, ReadRefreshDoes DEF TokenOwes
  <2> QED BY <1>c, <2>1, <2>3, <2>4
<1>10. ASSUME NEW t \in Tokens, Revoke(t)
       PROVE  Goal
  <2>1. token[t].at \in Used /\ UNCHANGED <<code, issued>>
    BY <1>10 DEF Revoke, StoredToken, Used
  <2>2. TokenMoves(t, "gone") \/ UNCHANGED token
    BY <1>10, <1>t, TokenMoved DEF Revoke, Perhaps, DropToken
  <2>3. CASE UNCHANGED token
    BY <1>0, <1>c, <2>1, <2>3 DEF TokenOwes
  <2> QED BY <1>c, <2>1, <2>2, <2>3, TokensMoveOn
<1>11. ASSUME NEW t \in Tokens, ValidateAccessToken(t)
       PROVE  Goal
  <2>1. token[t].at \in Used /\ UNCHANGED <<code, issued>> /\ TokenMoves(t, "gone")
    BY <1>11, <1>t, TokenMoved DEF ValidateAccessToken, StoredToken, Used, DropToken, history
  <2> QED BY <1>c, <2>1, TokensMoveOn
<1>12. ASSUME Expire
       PROVE  Goal
  <2>1. UNCHANGED issued
    BY <1>12 DEF Expire, history
  <2>2. \/ UNCHANGED token /\ \E k \in Codes : CodeMoves(k, code[k].at)
        \/ UNCHANGED code /\ \E t \in Tokens : TokenMoves(t, token[t].at)
    BY <1>12, ExpireDoes
  <2>3. ASSUME NEW k \in Codes, UNCHANGED token, CodeMoves(k, code[k].at) PROVE Goal
    BY <1>0, <2>1, <2>3 DEF CodeOwes, TokenOwes, CodeMoves
  <2>4. ASSUME NEW t \in Tokens, UNCHANGED code, TokenMoves(t, token[t].at) PROVE Goal
    BY <1>0, <2>1, <2>4 DEF CodeOwes, TokenOwes, TokenMoves
  <2> QED BY <2>2, <2>3, <2>4
<1>13. CASE Restart
  <2>1. UNCHANGED issued
    BY <1>13 DEF Restart, history
  <2>2. \A k \in Codes : CodeOwes(k)'
    BY <1>0, <1>13, <2>1, RestartDoes DEF CodeOwes
  <2>3. \A x \in Tokens : TokenOwes(x)'
    BY <1>0, <1>13, <2>1, RestartDoes DEF TokenOwes, Used
  <2> QED BY <2>2, <2>3
<1>14. CASE AdminNext \/ UNCHANGED vars
  <2>1. UNCHANGED <<code, token, issued>>
    BY <1>14 DEF AdminNext, DeleteClient, CreateClient, UpdateClient, BeginUpdate, vars, tables,
                 history
  <2> QED BY <1>0, <2>1 DEF CodeOwes, TokenOwes
<1> QED BY <1>1, <1>2, <1>3, <1>4, <1>5, <1>6, <1>7, <1>8, <1>9, <1>10, <1>11, <1>12, <1>13,
           <1>14 DEF Next, CodeNext, ExchangeNext, TokenNext

(* A token belongs to the client and the tenant of its code, with scopes   *)
(* that client had when it asked, whatever happened to the client since    *)
(* (HandleAuthorize, HandleToken against updateOAuthClient and             *)
(* deleteOAuthClient).                                                     *)
THEOREM GrantFollowsCodeHolds == Spec => []GrantFollowsCode
<1>1. Init => GrantInv
  BY BlankRows DEF Init, GrantInv, CodeFollowsRead, GrantHeld, Used
<1>2. GrantInv => GrantFollowsCode
  BY DEF GrantInv, GrantHeld, GrantFollowsCode, Used
<1> QED BY <1>1, <1>2, TypeCorrect, GrantStep, PTL DEF Spec

-----------------------------------------------------------------------------
(* Codes *)

(* A step that lets no token request begin to spend a code, and takes none *)
(* from held unless the code goes, keeps the codes spent once.             *)
LEMMA SpentStays ==
    ASSUME SpentOnce, shared \subseteq shared',
           \A k \in Codes \ shared' : /\ code[k].at = "gone" => code'[k].at = "gone"
                                      /\ \A x \in Tokens : Spends(x, k)' =>
                                           /\ Spends(x, k)
                                           /\ \/ token'[x].at = "held"
                                              \/ token[x].at # "held"
                                              \/ code'[k].at = "gone"
    PROVE  SpentOnce'
<1> SUFFICES ASSUME NEW k \in Codes \ shared', NEW x \in Tokens, Spends(x, k)'
             PROVE  /\ token'[x].at # "held" => code'[k].at = "gone"
                    /\ \A y \in Tokens : Spends(y, k)' => y = x
  BY DEF SpentOnce
<1>1. k \in Codes \ shared /\ Spends(x, k)
  OBVIOUS
<1>2. \A y \in Tokens : Spends(y, k)' => y = x
  BY <1>1 DEF SpentOnce
<1>3. token'[x].at # "held" => code'[k].at = "gone"
  BY <1>1 DEF SpentOnce
<1> QED BY <1>2, <1>3

(* Every step keeps SpentOnce: a code that a second exchange reads is      *)
(* still held by the first and becomes shared.                             *)
LEMMA SpentStep == TypeOK /\ SpentOnce /\ [Next]_vars => SpentOnce'
<1> SUFFICES ASSUME TypeOK, SpentOnce, [Next]_vars PROVE SpentOnce'
  OBVIOUS
<1>t. "stored" \in CodeAt /\ "gone" \in CodeAt
        /\ "stored" \in TokenAt /\ "gone" \in TokenAt /\ "granted" \in TokenAt
  BY DEF CodeAt, TokenAt
<1>1. ASSUME NEW k \in Codes, NEW c \in Clients, NEW u \in client[c].uris,
             NEW asked \in SUBSET client[c].scopes, Authorize(k, c, u, asked)
      PROVE  SpentOnce'
  <2>1. code[k].at = "none" /\ UNCHANGED <<token, shared>>
    BY <1>1 DEF Authorize
  <2>2. \A j \in Codes \ {k} : code'[j] = code[j]
    BY <1>1, AuthorizeDoes
  <2> QED BY <2>1, <2>2, SpentStays DEF Spends
<1>2. ASSUME NEW k \in Codes, CreateCode(k)
      PROVE  SpentOnce'
  <2>1. code[k].at = "asked" /\ UNCHANGED <<token, shared>>
    BY <1>2 DEF CreateCode, history
  <2>2. \A j \in Codes \ {k} : code'[j] = code[j]
    BY <1>2, <1>t, CodeMoved DEF CreateCode, InsertCode, CodeMoves, CodeEnds
  <2> QED BY <2>1, <2>2, SpentStays DEF Spends
<1>3. ASSUME NEW x \in Tokens, NEW c \in Clients, BeginToken(x, c)
      PROVE  SpentOnce'
  <2>1. UNCHANGED <<code, shared>>
    BY <1>3 DEF BeginToken, history
  <2>2. token'[x].at = "client" /\ \A y \in Tokens \ {x} : token'[y] = token[y]
    BY <1>3, BeginTokenDoes
  <2> QED BY <2>1, <2>2, SpentStays DEF Spends, Used
<1>4. ASSUME NEW x \in Tokens, Refuse(x)
      PROVE  SpentOnce'
  <2>1. TokenEnds(x) /\ UNCHANGED <<code, shared>>
    BY <1>4, <1>t, TokenMoved DEF Refuse, history
  <2> QED BY <2>1, SpentStays DEF Spends, Used, TokenEnds
<1>5. ASSUME NEW x \in Tokens, DeleteCode(x)
      PROVE  SpentOnce'
  <2> DEFINE k == token[x].code
  <2>1. token[x].at = "held" /\ TokenMoves(x, "granted")
    BY <1>5, <1>t, TokenMoved DEF DeleteCode
  <2>2. k \in Codes
    BY <2>1 DEF TypeOK
  <2>3. \/ CodeMoves(k, "gone") /\ UNCHANGED shared
        \/ UNCHANGED code /\ shared' = shared \cup {k}
    BY <1>5, <1>t, <2>2, CodeMoved DEF DeleteCode, Perhaps, DropCode
  <2>4. \A j \in Codes, y \in Tokens : Spends(y, j)' => Spends(y, j)
    BY <2>1 DEF Spends, Used, TokenMoves
  <2>5. \A j \in Codes : code[j].at = "gone" => code'[j].at = "gone"
    BY <2>3 DEF CodeMoves
  <2>6. \A j \in Codes \ shared', y \in Tokens : Spends(y, j)' =>
           token'[y].at = "held" \/ token[y].at # "held" \/ code'[j].at = "gone"
    BY <2>1, <2>2, <2>3 DEF Spends, TokenMoves, CodeMoves
  <2>7. shared \subseteq shared'
    BY <2>3
  <2> QED BY <2>4, <2>5, <2>6, <2>7, SpentStays
<1>6. ASSUME NEW x \in Tokens, CreateToken(x)
      PROVE  SpentOnce'
  <2>1. token[x].at = "granted" /\ UNCHANGED <<code, shared>>
    BY <1>6 DEF CreateToken, history
  <2>2. TokenMoves(x, "stored") \/ TokenEnds(x)
    BY <1>6, <1>t, TokenMoved DEF CreateToken, InsertToken
  <2> QED BY <2>1, <2>2, SpentStays DEF Spends, Used, TokenMoves, TokenEnds
<1>7. ASSUME NEW x \in Tokens, NEW k \in Codes, ReadCode(x, k)
      PROVE  SpentOnce'
  <2>1. /\ UNCHANGED code /\ code[k].at = "stored" /\ token[x].at = "client"
        /\ shared \subseteq shared'
        /\ k \notin shared' => \A y \in Tokens : ~(token[y].at = "held" /\ token[y].code = k)
    BY <1>7 DEF ReadCode, Exchangeable, StoredCode
  <2>2. /\ token'[x].at = "held" /\ token'[x].code = k
        /\ \A y \in Tokens \ {x} : token'[y] = token[y]
    BY <1>7, ReadCodeDoes
  <2>3. k \notin shared' => \A y \in Tokens : ~Spends(y, k)
    BY <2>1 DEF SpentOnce, Spends
  <2> SUFFICES ASSUME NEW j \in Codes \ shared', NEW y \in Tokens, Spends(y, j)'
               PROVE  /\ token'[y].at # "held" => code'[j].at = "gone"
                      /\ \A z \in Tokens : Spends(z, j)' => z = y
    BY DEF SpentOnce
  <2>4. CASE j = k
    <3>1. \A z \in Tokens \ {x} : ~Spends(z, k)'
      BY <2>2, <2>3, <2>4 DEF Spends
    <3> QED BY <2>2, <2>4, <3>1
  <2>5. CASE j # k
    <3>1. \A z \in Tokens : Spends(z, j)' => Spends(z, j) /\ z # x
      BY <2>2, <2>5 DEF Spends
    <3> QED BY <2>1, <2>2, <3>1 DEF SpentOnce
  <2> QED BY <2>4, <2>5
<1>8. ASSUME NEW x \in Tokens, NEW k \in Codes, ReadExpired(x, k)
      PROVE  SpentOnce'
  <2>1. UNCHANGED shared /\ TokenEnds(x)
    BY <1>8, <1>t, TokenMoved DEF ReadExpired, history
  <2>2. CodeMoves(k, "gone") \/ UNCHANGED code
    BY <1>8, <1>t, CodeMoved DEF ReadExpired, Perhaps, DropCode
  <2>3. \A j \in Codes : code[j].at = "gone" => code'[j].at = "gone"
    BY <2>2 DEF CodeMoves
  <2> QED BY <2>1, <2>3, SpentStays DEF Spends, Used, TokenEnds
<1>9. ASSUME NEW x \in Tokens, NEW p \in Tokens, ReadRefresh(x, p)
      PROVE  SpentOnce'
  <2>1. UNCHANGED <<code, shared>>
    BY <1>9 DEF ReadRefresh, history
  <2>2. p # None
    BY DEF Tokens, None
  <2>3. token'[x].parent = p /\ \A y \in Tokens \ {x} : token'[y] = token[y]
    BY <1>9, ReadRefreshDoes
  <2> QED BY <2>1, <2>2, <2>3, SpentStays DEF Spends
<1>10. ASSUME NEW t \in Tokens, Revoke(t)
       PROVE  SpentOnce'
  <2>1. token[t].at = "stored" /\ UNCHANGED <<code, shared>>
    BY <1>10 DEF Revoke, StoredToken
  <2>2. TokenMoves(t, "gone") \/ UNCHANGED token
    BY <1>10, <1>t, TokenMoved DEF Revoke, Perhaps, DropToken
  <2> QED BY <2>1, <2>2, SpentStays DEF Spends, Used, TokenMoves
<1>11. ASSUME NEW t \in Tokens, ValidateAccessToken(t)
       PROVE  SpentOnce'
  <2>1. token[t].at = "stored" /\ UNCHANGED <<code, shared>> /\ TokenMoves(t, "gone")
    BY <1>11, <1>t, TokenMoved DEF ValidateAccessToken, StoredToken, DropToken, history
  <2> QED BY <2>1, SpentStays DEF Spends, Used, TokenMoves
<1>12. ASSUME Expire
       PROVE  SpentOnce'
  <2>1. UNCHANGED shared
    BY <1>12 DEF Expire, history
  <2>2. \/ UNCHANGED token /\ \E k \in Codes : CodeMoves(k, code[k].at)
        \/ UNCHANGED code /\ \E t \in Tokens : TokenMoves(t, token[t].at)
    BY <1>12, ExpireDoes
  <2>3. ASSUME NEW k \in Codes, UNCHANGED token, CodeMoves(k, code[k].at) PROVE SpentOnce'
    BY <2>1, <2>3, SpentStays DEF Spends, CodeMoves
  <2>4. ASSUME NEW t \in Tokens, UNCHANGED code, TokenMoves(t, token[t].at) PROVE SpentOnce'
    BY <2>1, <2>4, SpentStays DEF Spends, TokenMoves
  <2> QED BY <2>2, <2>3, <2>4
<1>13. CASE Restart
  <2>1. UNCHANGED shared
    BY <1>13 DEF Restart, history
  <2>2. \A k \in Codes : code[k].at = "gone" => code'[k].at = "gone"
    BY <1>13, RestartDoes
  <2>3. \A k \in Codes, x \in Tokens : Spends(x, k)' => Spends(x, k) /\ token'[x] = token[x]
    BY <1>13, RestartDoes DEF Spends, Used
  <2> QED BY <2>1, <2>2, <2>3, SpentStays
<1>14. CASE AdminNext \/ UNCHANGED vars
  <2>1. UNCHANGED <<code, token, shared>>
    BY <1>14 DEF AdminNext, DeleteClient, CreateClient, UpdateClient, BeginUpdate, vars, tables,
                 history
  <2> QED BY <2>1, SpentStays DEF Spends
<1> QED BY <1>1, <1>2, <1>3, <1>4, <1>5, <1>6, <1>7, <1>8, <1>9, <1>10, <1>11, <1>12, <1>13,
           <1>14 DEF Next, CodeNext, ExchangeNext, TokenNext

(* At most one member: a set of one element at most.                       *)
LEMMA AtMostOne ==
    ASSUME NEW S, \A x, y \in S : x = y
    PROVE  Cardinality(S) <= 1
<1>1. CASE S = {}
  BY <1>1, FS_EmptySet
<1>2. CASE S # {}
  <2>1. PICK x \in S : S = {x}
    BY <1>2
  <2> QED BY <2>1, FS_Singleton
<1> QED BY <1>1, <1>2

(* A code yields one token at most by exchange, unless two exchanges held  *)
(* it at the same time or its deletion failed (HandleToken).               *)
THEOREM CodeUsedOnceHolds == Spec => []CodeUsedOnce
<1>1. Init => SpentOnce
  BY BlankRows DEF Init, SpentOnce, Spends, Used
<1>2. SpentOnce => CodeUsedOnce
  <2> SUFFICES ASSUME SpentOnce, NEW k \in Codes \ shared
               PROVE  Cardinality({x \in Tokens : Spends(x, k)}) <= 1
    BY DEF CodeUsedOnce, Spends, Used
  <2>1. \A x, y \in {z \in Tokens : Spends(z, k)} : x = y
    BY DEF SpentOnce
  <2> QED BY <2>1, AtMostOne
<1> QED BY <1>1, <1>2, TypeCorrect, SpentStep, PTL DEF Spec

-----------------------------------------------------------------------------
(* Revocation *)

(* A step that changes one row, not one that is gone, and bars no token    *)
(* that was not revoked nor takes a barred parent, keeps revocation final. *)
LEMMA RevokeStays ==
    ASSUME RevokeInv, UNCHANGED revoked, NEW x \in Tokens, token[x].at # "gone",
           \A y \in Tokens \ {x} : token'[y] = token[y],
           token'[x].barred \subseteq revoked, token'[x].parent \notin token'[x].barred,
           token'[x].at \in {"client", "held"} => token'[x].parent = None,
           revoked \subseteq Tokens
    PROVE  RevokeInv'
  BY DEF RevokeInv, RevokedIsFinal, BarredRevoked

(* Every step keeps RevokeInv: no request brings a revoked row back.       *)
LEMMA RevokeStep == TypeOK /\ RevokeInv /\ [Next]_vars => RevokeInv'
<1> SUFFICES ASSUME TypeOK, RevokeInv, [Next]_vars PROVE RevokeInv'
  OBVIOUS
<1>t. "stored" \in CodeAt /\ "gone" \in CodeAt
        /\ "stored" \in TokenAt /\ "gone" \in TokenAt /\ "granted" \in TokenAt
  BY DEF CodeAt, TokenAt
<1>0. /\ revoked \subseteq Tokens /\ None \notin Tokens
      /\ \A x \in Tokens : /\ token[x].barred \subseteq revoked
                           /\ token[x].parent \notin token[x].barred
                           /\ token[x].at \in {"client", "held"} => token[x].parent = None
  BY DEF TypeOK, RevokeInv, RevokedIsFinal, BarredRevoked, Tokens, None
<1>1. ASSUME NEW x \in Tokens, NEW c \in Clients, BeginToken(x, c)
      PROVE  RevokeInv'
  <2>1. UNCHANGED revoked /\ token[x].at = "none"
    BY <1>1 DEF BeginToken, history
  <2>2. /\ token'[x].at = "client" /\ token'[x].parent = None /\ token'[x].barred = revoked
        /\ \A y \in Tokens \ {x} : token'[y] = token[y]
    BY <1>1, BeginTokenDoes
  <2> QED BY <1>0, <2>1, <2>2, RevokeStays
<1>2. ASSUME NEW x \in Tokens, TokenEnds(x), UNCHANGED revoked, token[x].at # "gone"
      PROVE  RevokeInv'
  BY <1>0, <1>2, RevokeStays DEF TokenEnds
<1>3. ASSUME NEW x \in Tokens, NEW at, TokenMoves(x, at), UNCHANGED revoked,
             token[x].at # "gone", at \notin {"client", "held"} \/ at = token[x].at
      PROVE  RevokeInv'
  BY <1>0, <1>3, RevokeStays DEF TokenMoves
<1>4. ASSUME NEW x \in Tokens, Refuse(x) PROVE RevokeInv'
  <2>1. TokenEnds(x) /\ UNCHANGED revoked /\ token[x].at = "client"
    BY <1>4, <1>t, TokenMoved DEF Refuse, history
  <2> QED BY <1>2, <2>1
<1>5. ASSUME NEW x \in Tokens, DeleteCode(x) PROVE RevokeInv'
  <2>1. TokenMoves(x, "granted") /\ UNCHANGED revoked /\ token[x].at = "held"
    BY <1>5, <1>t, TokenMoved DEF DeleteCode
  <2> QED BY <1>3, <2>1
<1>6. ASSUME NEW x \in Tokens, CreateToken(x) PROVE RevokeInv'
  <2>1. token[x].at = "granted" /\ UNCHANGED revoked
    BY <1>6 DEF CreateToken, history
  <2>2. TokenMoves(x, "stored") \/ TokenEnds(x)
    BY <1>6, <1>t, TokenMoved DEF CreateToken, InsertToken
  <2> QED BY <1>2, <1>3, <2>1, <2>2
<1>7. ASSUME NEW x \in Tokens, NEW k \in Codes, ReadCode(x, k) PROVE RevokeInv'
  <2>1. UNCHANGED revoked /\ token[x].at = "client"
    BY <1>7 DEF ReadCode
  <2>2. /\ token'[x].at = "held" /\ token'[x].parent = token[x].parent
        /\ token'[x].barred = token[x].barred /\ \A y \in Tokens \ {x} : token'[y] = token[y]
    BY <1>7, ReadCodeDoes
  <2> QED BY <1>0, <2>1, <2>2, RevokeStays
<1>8. ASSUME NEW x \in Tokens, NEW k \in Codes, ReadExpired(x, k) PROVE RevokeInv'
  <2>1. UNCHANGED revoked /\ TokenEnds(x) /\ token[x].at = "client"
    BY <1>8, <1>t, TokenMoved DEF ReadExpired, history
  <2> QED BY <1>2, <2>1
<1>9. ASSUME NEW x \in Tokens, NEW p \in Tokens, ReadRefresh(x, p) PROVE RevokeInv'
  <2>1. UNCHANGED revoked /\ token[x].at = "client" /\ token[p].at = "stored"
    BY <1>9 DEF ReadRefresh, StoredToken, history
  <2>2. p \notin revoked
    BY <2>1 DEF RevokeInv, RevokedIsFinal
  <2>3. /\ token'[x].at = "granted" /\ token'[x].parent = p
        /\ token'[x].barred = token[x].barred /\ \A y \in Tokens \ {x} : token'[y] = token[y]
    BY <1>9, ReadRefreshDoes
  <2> QED BY <1>0, <2>1, <2>2, <2>3, RevokeStays
<1>10. ASSUME NEW t \in Tokens, Revoke(t) PROVE RevokeInv'
  <2>1. token[t].at = "stored"
    BY <1>10 DEF Revoke, StoredToken
  <2>2. \/ TokenMoves(t, "gone") /\ revoked' = revoked \cup {t}
        \/ UNCHANGED <<token, revoked>>
    BY <1>10, <1>t, TokenMoved DEF Revoke, Perhaps, DropToken
  <2>3. CASE TokenMoves(t, "gone") /\ revoked' = revoked \cup {t}
    BY <1>0, <2>1, <2>3 DEF RevokeInv, RevokedIsFinal, BarredRevoked, TokenMoves
  <2>4. CASE UNCHANGED <<token, revoked>>
    BY <2>4 DEF RevokeInv, RevokedIsFinal, BarredRevoked
  <2> QED BY <2>2, <2>3, <2>4
<1>11. ASSUME NEW t \in Tokens, ValidateAccessToken(t) PROVE RevokeInv'
  <2>1. token[t].at = "stored" /\ UNCHANGED revoked /\ TokenMoves(t, "gone")
    BY <1>11, <1>t, TokenMoved DEF ValidateAccessToken, StoredToken, DropToken, history
  <2> QED BY <1>3, <2>1
<1>12. ASSUME Expire PROVE RevokeInv'
  <2>1. UNCHANGED revoked
    BY <1>12 DEF Expire, history
  <2>2. UNCHANGED token \/ \E t \in Tokens : TokenMoves(t, token[t].at)
    BY <1>12, ExpireDoes
  <2>3. CASE UNCHANGED token
    BY <2>1, <2>3 DEF RevokeInv, RevokedIsFinal, BarredRevoked
  <2>4. ASSUME NEW t \in Tokens, TokenMoves(t, token[t].at) PROVE RevokeInv'
    <3>1. \A x \in Tokens : /\ token'[x].at = token[x].at /\ token'[x].parent = token[x].parent
                            /\ token'[x].barred = token[x].barred
      BY <2>4 DEF TokenMoves
    <3>2. \A s \in revoked' : token'[s].at = "gone"
      BY <1>0, <2>1, <3>1 DEF RevokeInv, RevokedIsFinal
    <3> QED BY <1>0, <2>1, <3>1, <3>2 DEF RevokeInv, RevokedIsFinal, BarredRevoked
  <2> QED BY <2>2, <2>3, <2>4
<1>13. CASE Restart
  <2>1. UNCHANGED revoked
    BY <1>13 DEF Restart, history
  <2>2. \A t \in revoked : token'[t].at = "gone"
    BY <1>13, RestartDoes DEF RevokeInv, RevokedIsFinal, TypeOK
  <2>3. \A x \in Tokens : \/ token'[x] = token[x]
                          \/ /\ token'[x].at = "over"
                             /\ token'[x].parent = None /\ token'[x].barred = {}
    BY <1>13, RestartDoes
  <2>4. \A x \in Tokens : /\ token'[x].barred \subseteq revoked
                          /\ token'[x].parent \notin token'[x].barred
                          /\ token'[x].at \in {"client", "held"} => token'[x].parent = None
    BY <1>0, <2>3
  <2> QED BY <2>1, <2>2, <2>4 DEF RevokeInv, RevokedIsFinal, BarredRevoked
<1>14. CASE CodeNext \/ AdminNext \/ UNCHANGED vars
  <2>1. UNCHANGED <<token, revoked>>
    BY <1>14 DEF CodeNext, Authorize, CreateCode, AdminNext, DeleteClient, CreateClient,
                 UpdateClient, BeginUpdate, vars, tables, history
  <2> QED BY <2>1 DEF RevokeInv, RevokedIsFinal, BarredRevoked
<1> QED BY <1>1, <1>4, <1>5, <1>6, <1>7, <1>8, <1>9, <1>10, <1>11, <1>12, <1>13, <1>14
        DEF Next, ExchangeNext, TokenNext

(* A revoked token is never in the table again, and a request that begins  *)
(* after its revocation does not refresh it (HandleRevoke, HandleToken).   *)
THEOREM RevokedIsFinalHolds == Spec => []RevokedIsFinal
<1>1. Init => RevokeInv
  BY BlankRows DEF Init, RevokeInv, RevokedIsFinal, BarredRevoked
<1>2. RevokeInv => RevokedIsFinal
  BY DEF RevokeInv
<1> QED BY <1>1, <1>2, TypeCorrect, RevokeStep, PTL DEF Spec

-----------------------------------------------------------------------------
(* Updates of clients *)

(* Every step keeps EditInv: an update whose read is outdated marks its    *)
(* client.                                                                 *)
LEMMA EditStep == TypeOK /\ EditInv /\ [Next]_vars => EditInv'
<1> SUFFICES ASSUME TypeOK, EditInv, [Next]_vars PROVE EditInv'
  OBVIOUS
<1>0. client \in [Clients -> ClientRow] /\ intended \in [Clients -> ClientRow]
        /\ edit \in [Editors -> EditRow]
  BY DEF TypeOK
<1>e. \A b \in Editors : edit[b].client # Nobody => edit[b].client \in Clients
  BY DEF TypeOK, EditRow
<1>1. ASSUME NEW c \in Clients, DeleteClient(c) PROVE EditInv'
  <2>1. client'[c] = NoClient /\ intended'[c] = NoClient /\ UNCHANGED <<edit, crossed>>
    BY <1>0, <1>1 DEF DeleteClient, DropClient
  <2>2. \A d \in Clients \ {c} : client'[d] = client[d] /\ intended'[d] = intended[d]
    BY <1>0, <1>1 DEF DeleteClient, DropClient
  <2>3. EditsKept'
    BY <2>1, <2>2 DEF EditInv, EditsKept
  <2>4. CopiesCurrent'
    BY <1>e, <2>1, <2>2 DEF EditInv, CopiesCurrent, Registered
  <2> QED BY <2>3, <2>4 DEF EditInv
<1>2. ASSUME NEW c \in Clients, NEW r \in Registrations, CreateClient(c, r) PROVE EditInv'
  <2>1. client'[c] = r /\ intended'[c] = r /\ UNCHANGED crossed /\ edit' = Outdated(c)
    BY <1>0, <1>2 DEF CreateClient, InsertClient
  <2>2. \A d \in Clients \ {c} : client'[d] = client[d] /\ intended'[d] = intended[d]
    BY <1>0, <1>2 DEF CreateClient, InsertClient
  <2>3. EditsKept'
    BY <2>1, <2>2 DEF EditInv, EditsKept
  <2>4. ASSUME NEW b \in Editors, edit'[b].client # Nobody, ~edit'[b].stale
        PROVE  edit'[b] = edit[b] /\ edit[b].client # c
    BY <2>1, <2>4, OutdatedRows
  <2>5. CopiesCurrent'
    BY <1>e, <2>1, <2>2, <2>4 DEF EditInv, CopiesCurrent, Registered
  <2> QED BY <2>3, <2>5 DEF EditInv
<1>3. ASSUME NEW a \in Editors, UpdateClient(a) PROVE EditInv'
  <2> DEFINE c == edit[a].client
             r == Patched(edit[a].patch, edit[a].copy)
             i == Patched(edit[a].patch, intended[c])
  <2>1. c # Nobody /\ c \in Clients
    BY <1>3, <1>e DEF UpdateClient
  <2>2. CASE UNCHANGED <<client, intended, crossed>> /\ edit' = [edit EXCEPT ![a] = NoEdit]
    <3>1. edit'[a].client = Nobody /\ \A b \in Editors \ {a} : edit'[b] = edit[b]
      BY <1>0, <2>2, BlankRows
    <3> QED BY <2>2, <3>1 DEF EditInv, EditsKept, CopiesCurrent, Registered
  <2>3. CASE /\ WriteClient(c, r)
             /\ intended' = [intended EXCEPT ![c] = IF @ = NoClient THEN @
                                                    ELSE Patched(edit[a].patch, @)]
             /\ crossed' = crossed \cup {d \in {c} : edit[a].stale}
             /\ edit' = [Outdated(c) EXCEPT ![a] = NoEdit]
    <3>1. client'[c] = (IF client[c] # NoClient THEN r ELSE client[c])
            /\ \A d \in Clients \ {c} : client'[d] = client[d]
      BY <1>0, <2>1, <2>3 DEF WriteClient, Registered
    <3>2. intended'[c] = (IF intended[c] = NoClient THEN intended[c] ELSE i)
            /\ \A d \in Clients \ {c} : intended'[d] = intended[d]
      BY <1>0, <2>1, <2>3
    <3>3. c \notin crossed' => c \notin crossed /\ ~edit[a].stale
      BY <2>3
    <3>4. c \notin crossed' => client'[c] = intended'[c]
      <4>1. SUFFICES ASSUME c \notin crossed, ~edit[a].stale
                     PROVE  client'[c] = intended'[c]
        BY <3>3
      <4>2. client[c] = intended[c]
        BY <2>1, <4>1 DEF EditInv, EditsKept
      <4>3. client[c] # NoClient => edit[a].copy = client[c]
        BY <2>1, <4>1 DEF EditInv, CopiesCurrent, Registered
      <4>4. client[c] # NoClient => r = i
        BY <4>2, <4>3
      <4> HIDE DEF r, i
      <4> QED BY <3>1, <3>2, <4>2, <4>4
    <3> HIDE DEF r, i
    <3>5. EditsKept'
      BY <2>3, <3>1, <3>2, <3>4 DEF EditInv, EditsKept
    <3>6. edit'[a].client = Nobody /\ \A b \in Editors \ {a} : edit'[b] = Outdated(c)[b]
      BY <2>3, BlankRows, OutdatedRows
    <3>7. ASSUME NEW b \in Editors, edit'[b].client # Nobody, ~edit'[b].stale
          PROVE  edit'[b] = edit[b] /\ edit[b].client # c
      <4>1. b # a /\ edit'[b] = Outdated(c)[b]
        BY <3>6, <3>7
      <4> QED BY <3>7, <4>1, OutdatedRows
    <3>8. crossed \subseteq crossed'
      BY <2>3
    <3>9. CopiesCurrent'
      BY <1>e, <3>1, <3>7, <3>8 DEF EditInv, CopiesCurrent, Registered
    <3> QED BY <3>5, <3>9 DEF EditInv
  <2> QED BY <1>3, <2>2, <2>3 DEF UpdateClient
<1>4. ASSUME NEW a \in Editors, NEW c \in Clients, NEW p \in Patches, BeginUpdate(a, c, p)
      PROVE  EditInv'
  <2>1. UNCHANGED <<client, intended, crossed>>
    BY <1>4 DEF BeginUpdate, tables, history
  <2>2. /\ edit'[a].client = c /\ edit'[a].copy = client[c]
        /\ \A b \in Editors \ {a} : edit'[b] = edit[b]
    <3>1. PICK no \in BOOLEAN : no = FALSE
      OBVIOUS
    <3> DEFINE r == [client |-> c, copy |-> client[c], patch |-> p, stale |-> no]
    <3>2. edit' = [edit EXCEPT ![a] = r]
      BY <1>4, <3>1, Zenon DEF BeginUpdate
    <3>3. r.client = c /\ r.copy = client[c]
      OBVIOUS
    <3> HIDE DEF r
    <3> QED BY <1>0, <3>2, <3>3
  <2>3. EditsKept'
    BY <2>1 DEF EditInv, EditsKept
  <2>4. CopiesCurrent'
    BY <2>1, <2>2 DEF EditInv, CopiesCurrent, Registered
  <2> QED BY <2>3, <2>4 DEF EditInv
<1>5. CASE Restart
  <2>1. UNCHANGED <<client, intended, crossed>> /\ \A b \in Editors : edit'[b].client = Nobody
    BY <1>5, RestartDoes DEF Restart, history
  <2> QED BY <2>1 DEF EditInv, EditsKept, CopiesCurrent
<1>6. CASE CodeNext \/ ExchangeNext \/ TokenNext \/ UNCHANGED vars
  <2>1. UNCHANGED <<client, intended, crossed, edit>>
    <3>1. CASE CodeNext
      BY <3>1 DEF CodeNext, Authorize, CreateCode, history
    <3>2. CASE ExchangeNext
      <4>1. ASSUME NEW x \in Tokens, NEW c \in Clients, BeginToken(x, c)
            PROVE  UNCHANGED <<client, intended, crossed, edit>>
        BY <4>1 DEF BeginToken, history
      <4>2. ASSUME NEW x \in Tokens, Refuse(x) \/ DeleteCode(x) \/ CreateToken(x)
            PROVE  UNCHANGED <<client, intended, crossed, edit>>
        BY <4>2 DEF Refuse, DeleteCode, CreateToken, history
      <4>3. ASSUME NEW x \in Tokens, NEW k \in Codes, ReadCode(x, k) \/ ReadExpired(x, k)
            PROVE  UNCHANGED <<client, intended, crossed, edit>>
        BY <4>3 DEF ReadCode, ReadExpired, history
      <4>4. ASSUME NEW x \in Tokens, NEW p \in Tokens, ReadRefresh(x, p)
            PROVE  UNCHANGED <<client, intended, crossed, edit>>
        BY <4>4 DEF ReadRefresh, history
      <4> QED BY <3>2, <4>1, <4>2, <4>3, <4>4 DEF ExchangeNext
    <3>3. CASE TokenNext
      BY <3>3 DEF TokenNext, Revoke, ValidateAccessToken, Expire, tables, history
    <3>4. CASE UNCHANGED vars
      BY <3>4 DEF vars, tables, history
    <3> QED BY <1>6, <3>1, <3>2, <3>3, <3>4
  <2> QED BY <2>1 DEF EditInv, EditsKept, CopiesCurrent, Registered
<1> QED BY <1>1, <1>2, <1>3, <1>4, <1>5, <1>6 DEF Next, AdminNext

(* Updates of a client act as if each were one step, unless one wrote over *)
(* a row that had changed since it was read, and no update brings a        *)
(* deleted client back (updateOAuthClient).                                *)
THEOREM EditsKeptHolds == Spec => []EditsKept
<1>1. Init => EditInv
  BY BlankRows DEF Init, EditInv, EditsKept, CopiesCurrent
<1>2. EditInv => EditsKept
  BY DEF EditInv
<1> QED BY <1>1, <1>2, TypeCorrect, EditStep, PTL DEF Spec

==============================================================================
