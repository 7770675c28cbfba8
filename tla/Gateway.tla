------------------------------- MODULE Gateway -------------------------------
(***************************************************************************)
(* What a request passes before it reaches its handler: the rate limiter,  *)
(* then, on the routes that want it, the bearer token and the role in it   *)
(* (src/internal/middleware, src/pkg/auth); and the two requests that give *)
(* tokens out, login and refresh (src/internal/domain/user/service.go).    *)
(*                                                                         *)
(* A login or a refresh reads the account in one step and signs the tokens *)
(* in another: the account may change between.  Roles are changed by an    *)
(* operator in the database; the API only creates and deletes accounts.    *)
(***************************************************************************)
EXTENDS RateLimiter

CONSTANTS
    Users,       \* account ids
    AccessTTL,   \* lifetime of an access token
    RefreshTTL,  \* lifetime of a refresh token
    MaxTokens    \* bound on the tokens given out

ASSUME GatewayAssumption ==
    /\ AccessTTL \in Nat \ {0} /\ RefreshTTL \in Nat \ {0} /\ MaxTokens \in Nat
    /\ Absent \notin Users

VARIABLES
    account,  \* the role in each account's row; Absent when there is none
    tokens,   \* tokens given out
    issuing,  \* what a login or refresh has read and not yet signed
    spent,    \* history: the same as admitted, of an authenticated user
    held,     \* history: the last instant a user held a role
    served    \* history: the last request that passed authentication

accessVars == <<account, tokens, issuing, spent, held, served>>
gatewayVars == <<limiterVars, accessVars>>

Roles == {"user", "admin"}
Token == [user : Users, role : Roles, typ : {"access", "refresh"},
          read : Instants, signed : Instants, exp : Nat]
Reading == [user : Users, role : Roles, read : Instants]

GatewayTypeOK ==
    /\ LimiterTypeOK
    /\ account \in [Users -> Roles \cup {Absent}]
    /\ tokens \subseteq Token
    /\ issuing \in [Connections -> Reading \cup {Absent}]
    /\ spent \in [Users -> [Ages -> Nat]]

AccessInit ==
    /\ account \in [Users -> Roles \cup {Absent}]
    /\ tokens = {}
    /\ issuing = [k \in Connections |-> Absent]
    /\ spent = [u \in Users |-> [n \in Ages |-> 0]]
    /\ held = [u \in Users |-> [r \in Roles |-> IF account[u] = r THEN 0 ELSE -1]]
    /\ served = Absent

GatewayInit == LimiterInit /\ AccessInit

-----------------------------------------------------------------------------
(* Tokens.                                                                 *)

Read(k, reading) ==
    /\ issuing[k] = Absent
    /\ issuing' = [issuing EXCEPT ![k] = reading]

\* the password was right
Authenticate(k, u) ==
    /\ Through(k)
    /\ account[u] # Absent
    /\ Read(k, [user |-> u, role |-> account[u], read |-> now])
    /\ UNCHANGED <<account, tokens, spent, held, served>>

Valid(t) == t \in tokens /\ now < t.exp

\* mutant: the role of the refresh token is carried over
RefreshClaims(k, t) ==
    /\ Through(k)
    /\ Valid(t) /\ t.typ = "refresh"
    /\ account[t.user] # Absent
    /\ Read(k, [user |-> t.user, role |-> t.role, read |-> now])
    /\ UNCHANGED <<account, tokens, spent, held, served>>

\* the account is read again; the token that was shown stays good
Refresh(k, t) ==
    /\ Through(k)
    /\ Valid(t) /\ t.typ = "refresh"
    /\ account[t.user] # Absent
    /\ Read(k, [user |-> t.user, role |-> account[t.user], read |-> now])
    /\ UNCHANGED <<account, tokens, spent, held, served>>

GeneratePair(k) ==
    /\ issuing[k] # Absent
    /\ Cardinality(tokens) < MaxTokens
    /\ tokens' = tokens \cup
         {[user |-> issuing[k].user, role |-> issuing[k].role, typ |-> typ,
           read |-> issuing[k].read, signed |-> now,
           exp |-> now + IF typ = "access" THEN AccessTTL ELSE RefreshTTL]
            : typ \in {"access", "refresh"}}
    /\ issuing' = [issuing EXCEPT ![k] = Absent]
    /\ UNCHANGED <<limiterVars, account, spent, held, served>>

Auth(t) == Valid(t) /\ t.typ = "access"

Serve(t, route) ==
    /\ served' = [route |-> route, user |-> t.user, role |-> t.role,
                  read |-> t.read, signed |-> t.signed, at |-> now]
    /\ spent' = IF admitted' = admitted THEN spent ELSE [spent EXCEPT ![t.user] = OneMore(@)]

\* a route behind Auth
CallAsUser(k, t) ==
    /\ Through(k)
    /\ Auth(t)
    /\ Serve(t, "user")
    /\ UNCHANGED <<account, tokens, issuing, held>>

\* a route behind Auth and RequireRole: the role is the one in the token
CallAsAdmin(k, t) ==
    /\ Through(k)
    /\ Auth(t) /\ t.role = "admin"
    /\ Serve(t, "admin")
    /\ UNCHANGED <<account, tokens, issuing, held>>

\* 429; or a public route, or one of the many answers 401, 403 and 404
Other(k) ==
    /\ Refuse(k) \/ Through(k)
    /\ UNCHANGED accessVars

-----------------------------------------------------------------------------
(* The surroundings.                                                       *)

\* an operator writes the row
ChangeRole(u, r) ==
    /\ account[u] \notin {Absent, r}
    /\ account' = [account EXCEPT ![u] = r]
    /\ held' = [held EXCEPT ![u][r] = now]
    /\ UNCHANGED <<limiterVars, tokens, issuing, spent, served>>

\* DELETE /api/admin/users: the row goes, the tokens stay good until they expire
DeleteAccount(u) ==
    /\ account[u] # Absent
    /\ account' = [account EXCEPT ![u] = Absent]
    /\ UNCHANGED <<limiterVars, tokens, issuing, spent, held, served>>

Elapse ==
    /\ Pass
    /\ held' = [u \in Users |-> [r \in Roles |-> IF account[u] = r THEN now + 1
                                                 ELSE held[u][r]]]
    /\ spent' = [u \in Users |-> Older(spent[u])]
    /\ UNCHANGED <<account, tokens, issuing, served>>

GatewayNext ==
    \/ Elapse
    \/ Sweep /\ UNCHANGED accessVars
    \/ \E u \in Users : DeleteAccount(u) \/ \E r \in Roles : ChangeRole(u, r)
    \/ \E k \in Connections :
         \/ GeneratePair(k) \/ Other(k)
         \/ \E u \in Users : Authenticate(k, u)
         \/ \E t \in tokens : Refresh(k, t) \/ CallAsUser(k, t) \/ CallAsAdmin(k, t)

GatewaySpec == GatewayInit /\ [][GatewayNext]_gatewayVars

-----------------------------------------------------------------------------
(* Properties.                                                             *)

\* Whoever passes a route of the administrators held that role when the login or
\* the refresh behind the token read the account, and the token is younger than
\* an access token may be: a role that was taken away, or an account that was
\* deleted, opens nothing once the tokens of the logins and refreshes that had read
\* the account by then have expired (the last of them may be signed afterwards).
RolesWereHeld ==
    served # Absent =>
       /\ served.at < served.signed + AccessTTL
       /\ served.route = "admin" => served.role = "admin"
       /\ held[served.user][served.role] >= served.read

\* The limit key is the authenticated user when present, so that a user has a
\* budget (src/internal/middleware/ratelimit.go:13) whatever connection a request
\* comes in by.  The limiter runs before Auth, so each connection of the user has
\* a budget of its own.
BudgetIsTheUsers == \A u \in Users : Lately(spent[u]) < 2 * Limit

=============================================================================
