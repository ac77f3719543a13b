------------------------------ MODULE McpGrants ------------------------------
(* An outside assistant connected through OAuth (mcp/oauth.go): one user,    *)
(* one registered client, the grant the user approves and the mcp_tokens     *)
(* rows under it.  Each statement of a handler is a step: a token is spent   *)
(* before its successor is inserted, and the user may remove the app, or the *)
(* app be approved again, in between.  An access token is inserted and       *)
(* cascaded with its refresh token and is not followed on its own.           *)
EXTENDS Naturals, FiniteSets

CONSTANTS
  Calls,        \* requests that may be open at the same time
  McpCodeTTL,   \* ten minutes, in ticks
  McpTTL,       \* ninety days
  RefreshGrace, \* two minutes: how long a spent token still works
  PruneAfter,   \* a day: an unapproved registration goes
  LastTick,     \* bound: the clock
  MaxSecrets,   \* bound: codes and refresh tokens ever issued
  MaxGrants     \* bound: grants ever created

ASSUME McpGrantsAssumption ==
  /\ MaxSecrets \in Nat
  /\ McpCodeTTL \in Nat /\ McpTTL \in Nat /\ RefreshGrace \in Nat /\ PruneAfter \in Nat
  /\ RefreshGrace < McpTTL

VARIABLES
  tick,       \* the clock
  client,     \* the mcp_clients row: when it registered, or 0
  grant,      \* the mcp_grants row: its id, or 0
  grants,     \* ids given out
  secrets,    \* the mcp_tokens rows: [no, grant, kind, until]
  issued,     \* history: [no -> what the secret was issued as]
  firstUse,   \* history: [no -> when it was first presented, or 0]
  revoked,    \* history: the secrets the app gave back
  call        \* [Calls -> where a request is]

mcpVars == <<tick, client, grant, grants, secrets, issued, firstUse, revoked, call>>

Closed == [step |-> "closed", grant |-> 0, from |-> 0]
Unissued == [kind |-> "none", grant |-> 0, at |-> 0, from |-> 0]

-----------------------------------------------------------------------------

Standing(k, step) == call[k].step = step
MovesTo(k, state) == call' = [call EXCEPT ![k] = state]
Numbers == {no \in 1..MaxSecrets : issued[no].kind = "none"}
NextNo == CHOOSE no \in Numbers : \A other \in Numbers : no <= other

\* INSERT under the request's grant: the foreign key fails once it is gone.
Inserts(k, kind, life, rows) ==
  LET no == NextNo
  IN IF call[k].grant = grant
     THEN /\ secrets' = rows \cup {[no |-> no, grant |-> grant, kind |-> kind,
                                    until |-> tick + life]}
          /\ issued' = [issued EXCEPT ![no] = [kind |-> kind, grant |-> grant,
                                               at |-> tick, from |-> call[k].from]]
     ELSE UNCHANGED <<secrets, issued>>

\* Any app that registers also clears registrations a day old nobody approved.
Register ==
  /\ \/ client = 0 /\ client' = tick
     \/ client # 0 /\ client + PruneAfter < tick /\ grant = 0 /\ client' = 0
  /\ UNCHANGED <<tick, grant, grants, secrets, issued, firstUse, revoked, call>>

\* approve: parseAuthorize finds the client ...
ParseAuthorize(k) ==
  /\ Standing(k, "closed") /\ client # 0
  /\ MovesTo(k, [Closed EXCEPT !.step = "grant"])
  /\ UNCHANGED <<tick, client, grant, grants, secrets, issued, firstUse, revoked>>

\* ... the grant is inserted, or found and kept under its id ...
UpsertGrant(k) ==
  /\ Standing(k, "grant")
  /\ IF client = 0 THEN UNCHANGED <<grant, grants>> /\ MovesTo(k, Closed)
     ELSE /\ grant = 0 => grants < MaxGrants
          /\ grants' = IF grant = 0 THEN grants + 1 ELSE grants
          /\ grant' = IF grant = 0 THEN grants' ELSE grant
          /\ MovesTo(k, [Closed EXCEPT !.step = "code", !.grant = grant'])
  /\ UNCHANGED <<tick, client, secrets, issued, firstUse, revoked>>

\* ... and a code under it.
IssueCode(k) ==
  /\ Standing(k, "code") /\ Numbers # {}
  /\ Inserts(k, "code", McpCodeTTL, secrets)
  /\ MovesTo(k, Closed)
  /\ UNCHANGED <<tick, client, grant, grants, firstUse, revoked>>

Presented(no) == IF firstUse[no] = 0 THEN [firstUse EXCEPT ![no] = tick] ELSE firstUse

\* token, grant_type authorization_code: DELETE ... RETURNING, then the
\* checks, so that an expired code is gone as well.  A request refused for its
\* redirect address or verifier is one that dies here.
RedeemCode(k) ==
  /\ Standing(k, "closed")
  /\ \E row \in secrets :
       /\ row.kind = "code"
       /\ secrets' = secrets \ {row}
       /\ firstUse' = Presented(row.no)
       /\ MovesTo(k, IF tick > row.until THEN Closed
                     ELSE [step |-> "issue", grant |-> row.grant, from |-> row.no])
  /\ UNCHANGED <<tick, client, grant, grants, issued, revoked>>

SpentSliding(row) ==  \* mutant: the grace starts again with each use
  [row EXCEPT !.kind = "spent", !.until = tick + RefreshGrace]

\* SET kind = 'spent', expires_at = LEAST(expires_at, NOW() + grace)
Spent(row) ==
  [row EXCEPT !.kind = "spent",
              !.until = IF row.until < tick + RefreshGrace THEN row.until
                        ELSE tick + RefreshGrace]

\* token, grant_type refresh_token: spent, not deleted.
SpendRefresh(k) ==
  /\ Standing(k, "closed")
  /\ \E row \in secrets :
       /\ row.kind \in {"refresh", "spent"} /\ row.until > tick
       /\ secrets' = (secrets \ {row}) \cup {Spent(row)}
       /\ firstUse' = Presented(row.no)
       /\ MovesTo(k, [step |-> "issue", grant |-> row.grant, from |-> row.no])
  /\ UNCHANGED <<tick, client, grant, grants, issued, revoked>>

\* The endpoint then drops every row that has expired, whoever's it is.
IssueTokens(k) ==
  /\ Standing(k, "issue") /\ Numbers # {}
  /\ Inserts(k, "refresh", McpTTL, {row \in secrets : row.until >= tick})
  /\ MovesTo(k, Closed)
  /\ UNCHANGED <<tick, client, grant, grants, firstUse, revoked>>

Revoke ==
  /\ \E row \in secrets :
       /\ row.kind # "code"
       /\ secrets' = secrets \ {row}
       /\ revoked' = revoked \cup {row.no}
  /\ UNCHANGED <<tick, client, grant, grants, issued, firstUse, call>>

\* The user removes the app: its tokens cascade.
RemoveApp ==
  /\ grant # 0
  /\ grant' = 0 /\ secrets' = {}
  /\ UNCHANGED <<tick, client, grants, issued, firstUse, revoked, call>>

\* A request dies where it stands.
Hangup(k) ==
  /\ ~Standing(k, "closed")
  /\ MovesTo(k, Closed)
  /\ UNCHANGED <<tick, client, grant, grants, secrets, issued, firstUse, revoked>>

PassTick ==
  /\ tick < LastTick
  /\ tick' = tick + 1
  /\ UNCHANGED <<client, grant, grants, secrets, issued, firstUse, revoked, call>>

McpInit ==
  /\ tick = 1 /\ client = 0 /\ grant = 0 /\ grants = 0 /\ secrets = {}
  /\ issued = [no \in 1..MaxSecrets |-> Unissued]
  /\ firstUse = [no \in 1..MaxSecrets |-> 0]
  /\ revoked = {} /\ call = [k \in Calls |-> Closed]

McpNext ==
  \/ Register \/ Revoke \/ RemoveApp \/ PassTick
  \/ \E k \in Calls : \/ ParseAuthorize(k) \/ UpsertGrant(k) \/ IssueCode(k)
                      \/ RedeemCode(k) \/ SpendRefresh(k) \/ IssueTokens(k) \/ Hangup(k)

McpSpec == McpInit /\ [][McpNext]_mcpVars

-----------------------------------------------------------------------------

Works(no) == \E row \in secrets : /\ row.no = no /\ row.until > tick
                                  /\ row.kind \in {"refresh", "spent"}

\* "Spend the refresh token but let it work for a short grace": a refresh
\* token works while it is fresh, and for the grace from its FIRST use
\* whatever was retried since; no longer, and not once the app was removed
\* or gave it back.  A code opens at most one line of tokens.
GraceHolds ==
  /\ \A no \in 1..MaxSecrets :
       issued[no].kind = "refresh" =>
         (Works(no) <=> /\ issued[no].grant = grant /\ no \notin revoked
                        /\ tick < issued[no].at + McpTTL
                        /\ firstUse[no] # 0 => tick < firstUse[no] + RefreshGrace)
  /\ \A code \in {no \in 1..MaxSecrets : issued[no].kind = "code"} :
       Cardinality({no \in 1..MaxSecrets : issued[no].from = code})
         + Cardinality({k \in Calls : Standing(k, "issue") /\ call[k].from = code}) <= 1
=============================================================================
