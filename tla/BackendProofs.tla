---------------------------- MODULE BackendProofs ----------------------------
(***************************************************************************)
(* Proofs about the parts of Backend, for every number of users, records,  *)
(* plugins, connections and handlers, and for an instance of the API that  *)
(* holds the three: Gateway, Catalog and Stores.                           *)
(***************************************************************************)
EXTENDS Backend, FiniteSetTheorems, SequenceTheorems, TLAPS

(***************************************************************************)
(* Gateway: a role is only ever shown by those who held it.                *)
(*                                                                         *)
(* held never decreases, since nobody can have held a role later than now; *)
(* every reading of an account is at most as young as the last instant its *)
(* role was held, and signing or serving only copies the reading.          *)
(***************************************************************************)
Held(x) == held[x.user][x.role] >= x.read

ClaimsType(x) == x.user \in Users /\ x.role \in Roles /\ x.read \in Nat

HeldType ==
    /\ now \in Instants
    /\ account \in [Users -> Roles \cup {Absent}]
    /\ held \in [Users -> [Roles -> Int]]
    /\ \A t \in tokens : ClaimsType(t) /\ t.signed \in Nat /\ t.exp \in Nat
    /\ issuing \in [Connections -> Reading \cup {Absent}]
    /\ served # Absent => ClaimsType(served) /\ served.signed \in Nat /\ served.at \in Nat

HeldInv ==
    /\ HeldType
    /\ \A u \in Users, r \in Roles : held[u][r] <= now
    /\ \A u \in Users : account[u] # Absent => held[u][account[u]] = now
    /\ \A t \in tokens : Held(t)
    /\ \A t \in tokens : t.typ = "access" => t.exp = t.signed + AccessTTL
    /\ \A k \in Connections : issuing[k] # Absent => Held(issuing[k])
    /\ RolesWereHeld
    /\ served # Absent => Held(served)

LEMMA HeldInit == GatewayInit => HeldInv
<1> SUFFICES ASSUME GatewayInit PROVE HeldInv
  OBVIOUS
<1>1. HeldType
  BY RateLimiterAssumption DEF GatewayInit, LimiterInit, AccessInit, HeldType, Instants
<1>2. \A u \in Users, r \in Roles :
         held[u][r] <= now /\ (account[u] = r => held[u][r] = now)
  BY DEF GatewayInit, LimiterInit, AccessInit
<1> QED
  BY <1>1, <1>2 DEF GatewayInit, LimiterInit, AccessInit, HeldInv, HeldType, RolesWereHeld

\* the clock stands still, and nobody's past changes
LEMMA HeldStays ==
  ASSUME HeldInv, UNCHANGED <<now, account, held>>, HeldType',
         \A t \in tokens' : Held(t) /\ (t.typ = "access" => t.exp = t.signed + AccessTTL),
         \A k \in Connections : issuing'[k] # Absent => Held(issuing'[k]),
         RolesWereHeld', served' # Absent => Held(served')
  PROVE  HeldInv'
<1>1. \A x : Held(x) => (held'[x.user][x.role] >= x.read)
  BY DEF Held
<1> QED
  BY <1>1 DEF HeldInv, Held, HeldType

LEMMA ReadHeld ==
  ASSUME HeldInv, NEW k \in Connections, NEW u \in Users, account[u] # Absent,
         Read(k, [user |-> u, role |-> account[u], read |-> now]),
         UNCHANGED <<now, account, held, tokens, served>>
  PROVE  HeldInv'
<1> DEFINE reading == [user |-> u, role |-> account[u], read |-> now]
<1>1. account[u] \in Roles /\ held[u][account[u]] = now /\ now \in Nat
  BY RateLimiterAssumption DEF HeldInv, HeldType, Instants
<1>2. reading \in Reading
  BY <1>1 DEF Reading, HeldInv, HeldType
<1>3. Held(reading)
  BY <1>1 DEF Held
<1>4. \A j \in Connections : issuing'[j] = reading \/ issuing'[j] = issuing[j]
  BY DEF Read, HeldInv, HeldType
<1>5. HeldType'
  BY <1>2 DEF HeldInv, HeldType, Read, ClaimsType
<1>6. \A j \in Connections : issuing'[j] # Absent => Held(issuing'[j])
  BY <1>3, <1>4 DEF HeldInv
<1>7. RolesWereHeld' /\ (served' # Absent => Held(served'))
  BY DEF HeldInv, RolesWereHeld, Held
<1> QED
  BY <1>5, <1>6, <1>7, HeldStays DEF HeldInv

LEMMA SignHeld ==
  ASSUME HeldInv, NEW k \in Connections, GeneratePair(k)
  PROVE  HeldInv'
<1>1. now \in Nat /\ UNCHANGED <<now, account, held, served>>
  BY RateLimiterAssumption
     DEF GeneratePair, limiterVars, HeldInv, HeldType, Instants
<1>2. issuing[k] \in Reading /\ Held(issuing[k])
  BY DEF GeneratePair, HeldInv, HeldType
<1>3. ASSUME NEW t \in tokens', t \notin tokens
      PROVE  /\ ClaimsType(t) /\ t.signed \in Nat /\ t.exp \in Nat /\ Held(t)
             /\ t.typ = "access" => t.exp = t.signed + AccessTTL
  <2>1. PICK typ \in {"access", "refresh"} :
           t = [user |-> issuing[k].user, role |-> issuing[k].role, typ |-> typ,
                read |-> issuing[k].read, signed |-> now,
                exp |-> now + IF typ = "access" THEN AccessTTL ELSE RefreshTTL]
    BY <1>3 DEF GeneratePair
  <2>2. t.user = issuing[k].user /\ t.role = issuing[k].role /\ t.read = issuing[k].read
        /\ t.typ = typ /\ t.signed = now
        /\ t.exp = now + IF typ = "access" THEN AccessTTL ELSE RefreshTTL
    BY <2>1
  <2>3. ClaimsType(t) /\ Held(t)
    BY <1>2, <2>2, RateLimiterAssumption DEF ClaimsType, Held, Reading, Instants
  <2> QED
    BY <1>1, <2>2, <2>3, GatewayAssumption
<1>4. \A j \in Connections : issuing'[j] = Absent \/ issuing'[j] = issuing[j]
  BY DEF GeneratePair, HeldInv, HeldType
<1>5. HeldType'
  BY <1>1, <1>3 DEF HeldInv, HeldType, GeneratePair, ClaimsType
<1>6. \A j \in Connections : issuing'[j] # Absent => Held(issuing'[j])
  BY <1>4 DEF HeldInv
<1>7. RolesWereHeld' /\ (served' # Absent => Held(served'))
  BY <1>1 DEF HeldInv, RolesWereHeld, Held
<1> QED
  BY <1>1, <1>3, <1>5, <1>6, <1>7, HeldStays DEF HeldInv

LEMMA ServeHeld ==
  ASSUME HeldInv, NEW t \in tokens, Auth(t), NEW route,
         Serve(t, route), route = "admin" => t.role = "admin",
         UNCHANGED <<now, account, held, tokens, issuing>>
  PROVE  HeldInv'
<1>1. /\ served'.user = t.user /\ served'.role = t.role /\ served'.read = t.read
      /\ served'.signed = t.signed /\ served'.at = now /\ served'.route = route
  BY DEF Serve
<1>2. ClaimsType(t) /\ Held(t) /\ t.signed \in Nat /\ now \in Nat
  BY RateLimiterAssumption DEF HeldInv, HeldType, Instants
<1>3. now < t.signed + AccessTTL
  BY DEF Auth, Valid, HeldInv
<1>4. HeldType'
  BY <1>1, <1>2 DEF HeldInv, HeldType, ClaimsType
<1>5. RolesWereHeld' /\ Held(served')
  BY <1>1, <1>2, <1>3 DEF RolesWereHeld, Held
<1> QED
  BY <1>4, <1>5, HeldStays DEF HeldInv

\* the past only grows
LEMMA HeldGrows ==
  ASSUME HeldInv, now' \in Instants, UNCHANGED <<tokens, issuing, served>>,
         account' \in [Users -> Roles \cup {Absent}], held' \in [Users -> [Roles -> Int]],
         \A u \in Users, r \in Roles : held[u][r] <= held'[u][r] /\ held'[u][r] <= now',
         \A u \in Users : account'[u] # Absent => held'[u][account'[u]] = now'
  PROVE  HeldInv'
<1>1. ASSUME NEW x, ClaimsType(x), Held(x) PROVE held'[x.user][x.role] >= x.read
  BY <1>1 DEF HeldInv, HeldType, ClaimsType, Held
<1>2. HeldType'
  BY DEF HeldInv, HeldType, ClaimsType
<1>3. \A t \in tokens' : held'[t.user][t.role] >= t.read
  BY <1>1 DEF HeldInv, HeldType
<1>4. \A k \in Connections : issuing[k] # Absent => ClaimsType(issuing[k])
  BY RateLimiterAssumption DEF HeldInv, HeldType, ClaimsType, Reading, Instants
<1>5. \A k \in Connections :
         issuing'[k] # Absent => held'[issuing[k].user][issuing[k].role] >= issuing[k].read
  BY <1>1, <1>4 DEF HeldInv
<1>6. served' # Absent => held'[served.user][served.role] >= served.read
  BY <1>1 DEF HeldInv, HeldType
<1> QED
  BY <1>2, <1>3, <1>5, <1>6 DEF HeldInv, Held, RolesWereHeld

LEMMA HeldStep == HeldInv /\ [GatewayNext]_gatewayVars => HeldInv'
<1> SUFFICES ASSUME HeldInv, [GatewayNext]_gatewayVars PROVE HeldInv'
  OBVIOUS
<1>0. now \in Nat
  BY RateLimiterAssumption DEF HeldInv, HeldType, Instants
<1>1. ASSUME UNCHANGED <<now, accessVars>> PROVE HeldInv'
  BY <1>1 DEF accessVars, HeldInv, HeldType, RolesWereHeld, Held
<1>2. ASSUME NEW k \in Connections, Through(k) \/ Refuse(k) PROVE now' = now
  BY <1>2 DEF Through, Refuse, Allow, Count, Unlimited, limiterVars
<1>3. CASE Elapse
  <2>1. now' = now + 1 /\ now' \in Instants
    BY <1>3, <1>0, RateLimiterAssumption DEF Elapse, Pass, Instants
  <2>2. \A u \in Users, r \in Roles :
           held'[u][r] = IF account[u] = r THEN now + 1 ELSE held[u][r]
    BY <1>3 DEF Elapse
  <2>3. held' \in [Users -> [Roles -> Int]]
    BY <1>0, <1>3 DEF Elapse, HeldInv, HeldType
  <2>4. \A u \in Users, r \in Roles : held[u][r] \in Int /\ held[u][r] <= now
    BY DEF HeldInv, HeldType
  <2>5. \A u \in Users : account[u] # Absent => account[u] \in Roles
    BY DEF HeldInv, HeldType
  <2> QED
    BY <1>0, <1>3, <2>1, <2>2, <2>3, <2>4, <2>5, HeldGrows DEF Elapse, HeldInv, HeldType
<1>4. CASE Sweep /\ UNCHANGED accessVars
  BY <1>1, <1>4 DEF Sweep
<1>5. ASSUME NEW u \in Users, DeleteAccount(u) PROVE HeldInv'
  <2>1. UNCHANGED <<now, held, tokens, issuing, served>>
    BY <1>5 DEF DeleteAccount, limiterVars
  <2>2. account' = [account EXCEPT ![u] = Absent]
    BY <1>5 DEF DeleteAccount
  <2> QED
    BY <1>0, <2>1, <2>2, HeldGrows DEF HeldInv, HeldType
<1>6. ASSUME NEW u \in Users, NEW r \in Roles, ChangeRole(u, r) PROVE HeldInv'
  <2>1. UNCHANGED <<now, tokens, issuing, served>>
    BY <1>6 DEF ChangeRole, limiterVars
  <2>2. account' = [account EXCEPT ![u] = r] /\ held' = [held EXCEPT ![u][r] = now]
    BY <1>6 DEF ChangeRole
  <2>3. held' \in [Users -> [Roles -> Int]]
    BY <1>0, <2>2 DEF HeldInv, HeldType
  <2>4. \A v \in Users, q \in Roles :
           held'[v][q] = IF v = u /\ q = r THEN now ELSE held[v][q]
    BY <2>2 DEF HeldInv, HeldType
  <2> QED
    BY <1>0, <2>1, <2>2, <2>3, <2>4, HeldGrows DEF HeldInv, HeldType
<1>7. ASSUME NEW k \in Connections, GeneratePair(k) PROVE HeldInv'
  BY <1>7, SignHeld
<1>8. ASSUME NEW k \in Connections, Other(k) PROVE HeldInv'
  BY <1>1, <1>2, <1>8 DEF Other
<1>9. ASSUME NEW k \in Connections, NEW u \in Users, Authenticate(k, u) PROVE HeldInv'
  BY <1>2, <1>9, ReadHeld DEF Authenticate
<1>10. ASSUME NEW k \in Connections, NEW t \in tokens, Refresh(k, t) PROVE HeldInv'
  <2>1. t.user \in Users
    BY DEF HeldInv, HeldType, ClaimsType
  <2> QED
    BY <1>2, <1>10, <2>1, ReadHeld DEF Refresh
<1>11. ASSUME NEW k \in Connections, NEW t \in tokens,
              CallAsUser(k, t) \/ CallAsAdmin(k, t)
       PROVE  HeldInv'
  BY <1>2, <1>11, ServeHeld DEF CallAsUser, CallAsAdmin
<1>12. CASE UNCHANGED gatewayVars
  BY <1>1, <1>12 DEF gatewayVars, limiterVars
<1> QED
  BY <1>3, <1>4, <1>5, <1>6, <1>7, <1>8, <1>9, <1>10, <1>11, <1>12 DEF GatewayNext

\* whoever passes an administrators' route held that role when the account was
\* read, at most one lifetime of an access token ago
THEOREM GatewayRoles == GatewaySpec => []RolesWereHeld
<1>1. HeldInv => RolesWereHeld
  BY DEF HeldInv
<1> QED
  BY <1>1, HeldInit, HeldStep, PTL DEF GatewaySpec

\* the other parts of an instance of the API leave the gateway alone
LEMMA BackendHoldsGateway == BackendSpec => GatewaySpec
<1>1. BackendInit => GatewayInit
  BY DEF BackendInit
<1>2. [BackendNext]_backendVars => [GatewayNext]_gatewayVars
  BY DEF BackendNext, backendVars
<1> QED
  BY <1>1, <1>2, PTL DEF BackendSpec, GatewaySpec

\* the same of the middleware inside the whole back end
THEOREM BackendRoles == BackendSpec => []RolesWereHeld
  BY BackendHoldsGateway, GatewayRoles, PTL

-----------------------------------------------------------------------------
(* RateLimiter: how many requests a fixed window lets through.  Of a key's *)
(* window w, history f and last refusal x at the instant t.                *)

Least(c) == IF c <= Limit THEN c ELSE Limit

\* ticks since a window was opened
Age(w, t) == t - (w.resets - Window)

\* Over, of a window
Past(w, t, l) ==
    \/ w = Absent
    \/ l = "memory" /\ t > w.resets
    \/ l = "redis" /\ t >= w.resets

\* Counted, of a window
OneCounted(w, t, l) ==
    IF Past(w, t, l) THEN [count |-> 1, resets |-> t + Window]
                     ELSE [w EXCEPT !.count = @ + 1]

\* What was admitted since the window was opened is what it counts; the request that
\* opened it is the oldest of these; and of those before, all but one had been
\* admitted in one window, the one that opened that is too old.
Burst(w, f, t) ==
    /\ w.count \in Nat \ {0} /\ w.resets \in Nat /\ Age(w, t) >= 0
    /\ Age(w, t) <= Window => f[Age(w, t)] = Least(w.count)
    /\ \A n \in Ages : n < Age(w, t) => f[n] < Least(w.count)
    /\ \A n \in Ages : (Age(w, t) <= n /\ n < Window) => f[n] < Least(w.count) + Limit

Explained(w, f, x, t, l) ==
    /\ l # "off" /\ x.at \in Nat /\ x.resets \in Nat /\ x.until = x.resets + 1
    /\ x.at <= t /\ x.resets <= x.at + Window
    /\ w # Absent => x.resets <= w.resets
    /\ t = x.at => f[Window] >= Limit

KeyOK(w, f, x, t, l) ==
    /\ f \in [Ages -> Nat]
    /\ \A m, n \in Ages : m <= n => f[m] <= f[n]
    /\ w = Absent => \A n \in Ages : n < Window => f[n] < Limit
    /\ w # Absent => Burst(w, f, t)
    /\ Past(w, t, l) => f[0] = 0
    /\ x # Absent => Explained(w, f, x, t, l)

LimiterInv ==
    /\ limiter \in {"memory", "redis", "off"} /\ now \in Nat
    /\ windows \in [Connections -> [count : Nat, resets : Nat] \cup {Absent}]
    /\ admitted \in [Connections -> [Ages -> Nat]]
    /\ refused = [k \in Connections |-> refused[k]]
    /\ \A k \in Connections : KeyOK(windows[k], admitted[k], refused[k], now, limiter)

LEMMA AgesIs == Window \in Nat \ {0} /\ Limit \in Nat \ {0} /\ Ages = 0..Window
  BY RateLimiterAssumption DEF Ages

\* a window that is over has let through fewer than the limit since it could have begun
LEMMA PastFew ==
  ASSUME NEW w, NEW f, NEW x, NEW t \in Nat, NEW l, KeyOK(w, f, x, t, l), Past(w, t, l),
         NEW n \in Ages, n < Window
  PROVE  f[n] < Limit
<1>1. CASE w = Absent
  BY <1>1 DEF KeyOK
<1>2. CASE w # Absent
  <2>1. Burst(w, f, t) /\ w.resets \in Nat /\ t >= w.resets
    BY <1>2 DEF KeyOK, Past, Burst
  <2>2. n < Age(w, t)
    BY <2>1, AgesIs DEF Age
  <2>3. f[n] < Least(w.count) /\ f[n] \in Nat /\ w.count \in Nat
    BY <2>1, <2>2 DEF Burst, KeyOK
  <2> QED
    BY <2>3, AgesIs DEF Least
<1> QED
  BY <1>1, <1>2

\* the clock
LEMMA PassKey ==
  ASSUME NEW w, NEW f, NEW x, NEW t \in Nat, NEW l, KeyOK(w, f, x, t, l)
  PROVE  KeyOK(w, Older(f), x, t + 1, l)
<1>1. PICK g : g = Older(f)
  OBVIOUS
<1>2. /\ g \in [Ages -> Nat] /\ g[0] = 0
      /\ \A n \in Ages : n > 0 => n - 1 \in Ages /\ g[n] = f[n - 1]
  BY <1>1, AgesIs DEF Older, KeyOK
<1>3. ASSUME NEW m \in Ages, NEW n \in Ages, m <= n PROVE g[m] <= g[n]
  <2>1. CASE m = 0
    BY <1>2, <2>1, AgesIs
  <2>2. CASE m > 0
    BY <1>2, <1>3, <2>2, AgesIs DEF KeyOK
  <2> QED
    BY <2>1, <2>2, AgesIs
<1>4. ASSUME w = Absent, NEW n \in Ages, n < Window PROVE g[n] < Limit
  BY <1>2, <1>4, AgesIs DEF KeyOK
<1>5. ASSUME w # Absent PROVE Burst(w, g, t + 1)
  <2>1. Burst(w, f, t) /\ w.count \in Nat \ {0} /\ w.resets \in Nat
    BY <1>5 DEF KeyOK, Burst
  <2>2. PICK a \in Nat : a = Age(w, t) /\ Age(w, t + 1) = a + 1
    BY <2>1, AgesIs DEF Burst, Age
  <2>3. PICK least \in Nat \ {0} : least = Least(w.count)
    BY <2>1, AgesIs DEF Least
  <2>4. ASSUME a + 1 <= Window PROVE g[a + 1] = least
    <3>1. a <= Window /\ a + 1 \in Ages /\ a + 1 > 0 /\ (a + 1) - 1 = a
      BY <2>2, <2>4, AgesIs
    <3>2. f[a] = least
      BY <2>1, <2>2, <2>3, <3>1 DEF Burst
    <3> QED
      BY <1>2, <3>1, <3>2
  <2>5. ASSUME NEW n \in Ages, n < a + 1 PROVE g[n] < least
    <3>1. CASE n = 0
      BY <1>2, <2>3, <3>1
    <3>2. CASE n > 0
      <4>1. n - 1 \in Ages /\ n - 1 < a /\ g[n] = f[n - 1]
        BY <1>2, <2>2, <2>5, <3>2, AgesIs
      <4> QED
        BY <2>1, <2>2, <2>3, <4>1 DEF Burst
    <3> QED
      BY <3>1, <3>2, AgesIs
  <2>6. ASSUME NEW n \in Ages, a + 1 <= n, n < Window PROVE g[n] < least + Limit
    <3>1. n - 1 \in Ages /\ a <= n - 1 /\ n - 1 < Window /\ g[n] = f[n - 1]
      BY <1>2, <2>2, <2>6, AgesIs
    <3> QED
      BY <2>1, <2>2, <2>3, <3>1 DEF Burst
  <2> QED
    BY <2>1, <2>2, <2>3, <2>4, <2>5, <2>6 DEF Burst
<1>6. x # Absent => Explained(w, g, x, t + 1, l)
  BY DEF KeyOK, Explained
<1> QED
  BY <1>1, <1>2, <1>3, <1>4, <1>5, <1>6 DEF KeyOK

\* a request that is counted and let through
LEMMA AllowKey ==
  ASSUME NEW w, NEW f, NEW x, NEW t \in Nat, NEW l \in {"memory", "redis"}, KeyOK(w, f, x, t, l),
         NEW v, v = OneCounted(w, t, l),
         w \in [count : Nat, resets : Nat] \cup {Absent},
         v.count <= Limit
  PROVE  KeyOK(v, OneMore(f), x, t, l)
<1>1. PICK g : g = OneMore(f)
  OBVIOUS
<1>2. g \in [Ages -> Nat] /\ \A n \in Ages : g[n] = f[n] + 1 /\ f[n] \in Nat
  BY <1>1 DEF OneMore, KeyOK
<1>3. \A m, n \in Ages : m <= n => g[m] <= g[n]
  BY <1>2 DEF KeyOK
<1>4. v \in [count : Nat, resets : Nat] /\ v # Absent
  <2>1. CASE Past(w, t, l)
    BY <2>1, AgesIs, RateLimiterAssumption DEF OneCounted
  <2>2. CASE ~Past(w, t, l)
    <3>1. w \in [count : Nat, resets : Nat]
      BY <2>2 DEF Past
    <3> QED
      BY <2>2, <3>1, RateLimiterAssumption DEF OneCounted
  <2> QED
    BY <2>1, <2>2
<1>5. Burst(v, g, t) /\ ~Past(v, t, l)
  <2>1. CASE Past(w, t, l)
    <3>1. v.count = 1 /\ v.resets = t + Window /\ Age(v, t) = 0
      BY <2>1, AgesIs DEF Age, OneCounted
    <3>2. f[0] = 0 /\ Least(v.count) = 1
      BY <2>1, <3>1, AgesIs DEF KeyOK, Least
    <3>3. \A n \in Ages : n < Window => f[n] < Limit
      BY <2>1, PastFew
    <3>4. g[0] = 1 /\ \A n \in Ages : n < Window => g[n] < 1 + Limit
      BY <1>2, <3>2, <3>3, AgesIs, RateLimiterAssumption
    <3>5. ~Past(v, t, l)
      BY <1>4, <3>1, RateLimiterAssumption DEF Past
    <3>6. v.count \in Nat \ {0} /\ v.resets \in Nat /\ \A n \in Ages : ~(n < 0)
      BY <1>4, <3>1, AgesIs
    <3>7. Burst(v, g, t)
      BY <3>1, <3>2, <3>4, <3>6 DEF Burst
    <3> QED
      BY <3>5, <3>7
  <2>2. CASE ~Past(w, t, l)
    <3>1. w # Absent /\ w.count \in Nat \ {0} /\ w.resets \in Nat /\ Burst(w, f, t)
      BY <2>2 DEF Past, KeyOK, Burst
    <3>2. v.count = w.count + 1 /\ v.resets = w.resets /\ Age(v, t) = Age(w, t)
      BY <2>2, <3>1, <1>4 DEF Age, Past, OneCounted
    <3>3. Least(v.count) = w.count + 1 /\ Least(w.count) = w.count
      BY <3>1, <3>2, AgesIs DEF Least
    <3>4. PICK a \in Nat : a = Age(w, t) /\ a <= Window
      BY <2>2, <3>1, AgesIs DEF Burst, Age, Past
    <3>5. g[a] = w.count + 1
      BY <1>2, <3>1, <3>3, <3>4, AgesIs DEF Burst
    <3>6. ASSUME NEW n \in Ages, n < a PROVE g[n] < w.count + 1
      <4>1. f[n] < w.count
        BY <3>1, <3>3, <3>4, <3>6 DEF Burst
      <4> QED
        BY <1>2, <3>1, <4>1
    <3>7. ASSUME NEW n \in Ages, a <= n, n < Window PROVE g[n] < w.count + 1 + Limit
      <4>1. f[n] < w.count + Limit
        BY <3>1, <3>3, <3>4, <3>7 DEF Burst
      <4> QED
        BY <1>2, <3>1, <4>1, AgesIs
    <3>8. ~Past(v, t, l)
      BY <1>4, <2>2, <3>2 DEF Past
    <3> QED
      BY <1>4, <3>1, <3>2, <3>3, <3>4, <3>5, <3>6, <3>7, <3>8 DEF Burst
  <2> QED
    BY <2>1, <2>2
<1>6. ASSUME x # Absent PROVE Explained(v, g, x, t, l)
  <2>1. Explained(w, f, x, t, l) /\ x.at \in Nat /\ x.resets \in Nat
    BY <1>6 DEF KeyOK, Explained
  <2>2. x.resets <= v.resets
    BY <1>4, <2>1, AgesIs DEF Explained, Past, OneCounted
  <2>3. t = x.at => g[Window] >= Limit
    BY <1>2, <2>1, AgesIs DEF Explained
  <2> QED
    BY <2>1, <2>2, <2>3 DEF Explained
<1> QED
  BY <1>1, <1>2, <1>3, <1>4, <1>5, <1>6 DEF KeyOK

\* a request that is counted and refused: the window is open and full
LEMMA RefuseKey ==
  ASSUME NEW w, NEW f, NEW x, NEW t \in Nat, NEW l \in {"memory", "redis"}, KeyOK(w, f, x, t, l),
         NEW v, v = OneCounted(w, t, l),
         w \in [count : Nat, resets : Nat] \cup {Absent},
         ~(v.count <= Limit),
         NEW y, y = [at |-> t, resets |-> v.resets, until |-> t + (v.resets - t + 1)]
  PROVE  KeyOK(v, f, y, t, l) /\ v \in [count : Nat, resets : Nat]
<1>1. ~Past(w, t, l)
  BY AgesIs DEF OneCounted
<1>2. w \in [count : Nat, resets : Nat] /\ w # Absent
  BY <1>1 DEF Past
<1>3. w.count \in Nat \ {0} /\ w.resets \in Nat /\ Burst(w, f, t)
  BY <1>2 DEF KeyOK, Burst
<1>4. /\ v \in [count : Nat, resets : Nat] /\ v # Absent
      /\ v.count = w.count + 1 /\ v.resets = w.resets /\ Age(v, t) = Age(w, t)
  BY <1>1, <1>2, RateLimiterAssumption DEF Age, OneCounted
<1>5. Least(v.count) = Limit /\ Least(w.count) = Limit
  BY <1>3, <1>4, AgesIs DEF Least
<1>6. PICK a \in Nat : a = Age(w, t) /\ a <= Window
  BY <1>1, <1>3, AgesIs DEF Burst, Age, Past
<1>7. Burst(v, f, t)
  BY <1>3, <1>4, <1>5 DEF Burst
<1>8. f[a] = Limit /\ f[a] <= f[Window]
  BY <1>3, <1>5, <1>6, AgesIs DEF Burst, KeyOK
<1>9. /\ y.at = t /\ y.resets = w.resets /\ y.until = w.resets + 1
      /\ w.resets <= t + Window
  BY <1>3, <1>4, <1>6, AgesIs DEF Age
<1>10. Explained(v, f, y, t, l)
  BY <1>3, <1>4, <1>8, <1>9, AgesIs DEF Explained, KeyOK
<1>11. ~Past(v, t, l)
  BY <1>1, <1>4 DEF Past
<1> QED
  BY <1>4, <1>7, <1>10, <1>11 DEF KeyOK

\* the janitor
LEMMA SweepKey ==
  ASSUME NEW w, NEW f, NEW x, NEW t \in Nat, NEW l, KeyOK(w, f, x, t, l), Past(w, t, l)
  PROVE  KeyOK(Absent, f, x, t, l)
<1>1. \A n \in Ages : n < Window => f[n] < Limit
  BY PastFew
<1> QED
  BY <1>1 DEF KeyOK, Past, Explained

LEMMA OverIs == \A k : Over(k) <=> Past(windows[k], now, limiter)
  BY DEF Over, Past

LEMMA LimiterStarts == GatewayInit => LimiterInv
<1> SUFFICES ASSUME LimiterInit PROVE LimiterInv
  BY DEF GatewayInit
<1>1. ASSUME NEW k \in Connections
      PROVE  KeyOK(windows[k], admitted[k], refused[k], now, limiter)
  <2>1. windows[k] = Absent /\ refused[k] = Absent /\ admitted[k] = [n \in Ages |-> 0]
    BY DEF LimiterInit
  <2> QED
    BY <2>1, AgesIs DEF KeyOK
<1> QED
  BY <1>1, RateLimiterAssumption DEF LimiterInit, LimiterInv

\* a request of one key leaves the others alone
LEMMA CountStep ==
  ASSUME LimiterInv, NEW k \in Connections, Allow(k) \/ Refuse(k)
  PROVE  LimiterInv'
<1>1. PICK w, f, x, v : w = windows[k] /\ f = admitted[k] /\ x = refused[k] /\ v = Counted(k)
  OBVIOUS
<1>2. /\ KeyOK(w, f, x, now, limiter) /\ w \in [count : Nat, resets : Nat] \cup {Absent}
      /\ now \in Nat /\ limiter \in {"memory", "redis"}
      /\ v = OneCounted(w, now, limiter)
      /\ windows' = [windows EXCEPT ![k] = v] /\ UNCHANGED <<limiter, now>>
  BY <1>1, OverIs DEF LimiterInv, Allow, Refuse, Count, Counted, OneCounted
<1>3. ASSUME NEW g, NEW y, KeyOK(v, g, y, now, limiter), v \in [count : Nat, resets : Nat],
             admitted' = [admitted EXCEPT ![k] = g], refused' = [refused EXCEPT ![k] = y]
      PROVE  LimiterInv'
  <2>1. ASSUME NEW j \in Connections
        PROVE  KeyOK(windows'[j], admitted'[j], refused'[j], now, limiter)
    BY <1>2, <1>3, <2>1 DEF LimiterInv
  <2>2. windows' \in [Connections -> [count : Nat, resets : Nat] \cup {Absent}]
    BY <1>2, <1>3 DEF LimiterInv
  <2>3. admitted' \in [Connections -> [Ages -> Nat]]
    BY <1>3 DEF LimiterInv, KeyOK
  <2>4. refused' = [j \in Connections |-> refused'[j]]
    BY <1>3 DEF LimiterInv
  <2> QED
    BY <1>2, <2>1, <2>2, <2>3, <2>4 DEF LimiterInv
<1>4. CASE Allow(k)
  <2>1. v.count <= Limit /\ admitted' = [admitted EXCEPT ![k] = OneMore(f)]
        /\ refused' = [refused EXCEPT ![k] = x]
    BY <1>1, <1>4 DEF Allow, Within, LimiterInv
  <2>2. KeyOK(v, OneMore(f), x, now, limiter)
    BY <1>2, <2>1, AllowKey
  <2>3. v \in [count : Nat, resets : Nat]
    BY <1>2, AgesIs DEF Past, OneCounted
  <2> QED
    BY <1>3, <2>1, <2>2, <2>3
<1>5. CASE Refuse(k)
  <2>1. PICK y : y = [at |-> now, resets |-> v.resets, until |-> now + (v.resets - now + 1)]
    OBVIOUS
  <2>2. ~(v.count <= Limit) /\ admitted' = [admitted EXCEPT ![k] = f]
        /\ refused' = [refused EXCEPT ![k] = y]
    BY <1>1, <1>5, <2>1 DEF Refuse, Within, RetryAfter, LimiterInv
  <2>3. KeyOK(v, f, y, now, limiter) /\ v \in [count : Nat, resets : Nat]
    BY <1>2, <2>1, <2>2, RefuseKey
  <2> QED
    BY <1>3, <2>2, <2>3
<1> QED
  BY <1>4, <1>5

LEMMA LimiterStep == LimiterInv /\ [GatewayNext]_gatewayVars => LimiterInv'
<1> SUFFICES ASSUME LimiterInv, [GatewayNext]_gatewayVars PROVE LimiterInv'
  OBVIOUS
<1>1. ASSUME UNCHANGED limiterVars PROVE LimiterInv'
  BY <1>1 DEF limiterVars, LimiterInv
<1>2. ASSUME NEW k \in Connections, Through(k) \/ Refuse(k) PROVE LimiterInv'
  BY <1>1, <1>2, CountStep DEF Through, Unlimited
<1>3. ASSUME Sweep PROVE LimiterInv'
  <2>1. ASSUME NEW k \in Connections
        PROVE  /\ KeyOK(windows'[k], admitted[k], refused[k], now, limiter)
               /\ windows'[k] \in {windows[k], Absent}
    BY <1>3, <2>1, OverIs, SweepKey DEF Sweep, LimiterInv
  <2>2. DOMAIN windows' = Connections /\ UNCHANGED <<limiter, now, refused, admitted>>
    BY <1>3 DEF Sweep
  <2>3. windows' \in [Connections -> [count : Nat, resets : Nat] \cup {Absent}]
    BY <1>3, <2>1 DEF Sweep, LimiterInv
  <2> QED
    BY <2>1, <2>2, <2>3 DEF LimiterInv
<1>4. ASSUME Pass PROVE LimiterInv'
  <2>1. ASSUME NEW k \in Connections
        PROVE  KeyOK(windows[k], admitted'[k], refused[k], now + 1, limiter)
    BY <1>4, <2>1, PassKey DEF Pass, LimiterInv
  <2>2. admitted' \in [Connections -> [Ages -> Nat]]
    BY <1>4, <2>1 DEF Pass, KeyOK
  <2>3. now' = now + 1 /\ now' \in Nat /\ UNCHANGED <<limiter, windows, refused>>
    BY <1>4 DEF Pass, LimiterInv
  <2> QED
    BY <2>1, <2>2, <2>3 DEF LimiterInv
<1> QED
  BY <1>1, <1>2, <1>3, <1>4
     DEF GatewayNext, Elapse, DeleteAccount, ChangeRole, GeneratePair, Other, Authenticate,
         Refresh, CallAsUser, CallAsAdmin, gatewayVars

\* For any limit, window and number of connections: fewer than twice the limit pass in
\* any window, nobody is refused without cause, and Retry-After is enough.
THEOREM GatewayAdmissions == GatewaySpec => []AdmissionsAreFair
<1>1. ASSUME LimiterInv, NEW k \in Connections
      PROVE  /\ Lately(admitted[k]) < 2 * Limit
             /\ refused[k] # Absent =>
                   /\ now = refused[k].at => admitted[k][Window] >= Limit
                   /\ now >= refused[k].until =>
                         Over(k) \/ windows[k].resets > refused[k].resets
  <2>1. PICK w, f, x : w = windows[k] /\ f = admitted[k] /\ x = refused[k]
    OBVIOUS
  <2>2. /\ KeyOK(w, f, x, now, limiter) /\ now \in Nat
        /\ limiter \in {"memory", "redis", "off"}
        /\ Over(k) <=> Past(w, now, limiter)
    BY <1>1, <2>1, OverIs DEF LimiterInv
  <2>3. f[Window - 1] < 2 * Limit
    <3>1. Window - 1 \in Ages /\ Window - 1 < Window /\ f[Window - 1] \in Nat
      BY <2>2, AgesIs DEF KeyOK
    <3>2. CASE w = Absent
      BY <2>2, <3>1, <3>2, AgesIs DEF KeyOK
    <3>3. CASE w # Absent
      <4>1. PICK least \in Nat : least = Least(w.count) /\ least <= Limit
        BY <2>2, <3>3, AgesIs DEF KeyOK, Burst, Least
      <4>2. f[Window - 1] < least + Limit
        <5>1. Burst(w, f, now) /\ w.resets \in Nat
          BY <2>2, <3>3 DEF KeyOK, Burst
        <5>2. Age(w, now) \in Int
          BY <2>2, <5>1, AgesIs DEF Age
        <5>3. Window - 1 < Age(w, now) \/ Age(w, now) <= Window - 1
          BY <3>1, <5>2, AgesIs
        <5> QED
          BY <3>1, <4>1, <5>1, <5>3, AgesIs DEF Burst
      <4> QED
        BY <3>1, <4>1, <4>2, AgesIs
    <3> QED
      BY <3>2, <3>3
  <2>4. ASSUME x # Absent
        PROVE  /\ now = x.at => f[Window] >= Limit
               /\ now >= x.until => Past(w, now, limiter) \/ w.resets > x.resets
    <3>1. Explained(w, f, x, now, limiter) /\ (w # Absent => w.resets \in Nat)
      BY <2>2, <2>4 DEF KeyOK, Burst
    <3> QED
      BY <2>2, <3>1 DEF Explained, Past
  <2> QED
    BY <2>1, <2>2, <2>3, <2>4 DEF Lately
<1>2. LimiterInv => AdmissionsAreFair
  BY <1>1 DEF AdmissionsAreFair, FewerThanTwiceTheLimit, RefusalsAreExplained
<1> QED
  BY <1>2, LimiterStarts, LimiterStep, PTL DEF GatewaySpec

\* the same of the limiter inside the whole back end
THEOREM BackendAdmissions == BackendSpec => []AdmissionsAreFair
  BY BackendHoldsGateway, GatewayAdmissions, PTL

-----------------------------------------------------------------------------
(* Catalog: what a stale entry is explained by survives every step.  The   *)
(* rows are only ever written, never deleted, so that a load in flight has *)
(* a row to be compared with when it fills the entry.                      *)

CatalogInv ==
    /\ CatalogTypeOK
    /\ \A h \in Handlers : doing[h].stage # "idle" => doing[h].slug \in Slugs
    /\ \A h \in Handlers :
          doing[h].stage \in {"insert", "write", "fill"} => doing[h].edition \in Editions
    /\ \A h \in Handlers :
          doing[h].stage \in {"write", "drop", "fill"} => plugins[doing[h].slug] # Nothing
    /\ CatalogStaleIsExplained

LEMMA CatalogInitInv == CatalogInit => CatalogInv
  BY DEF CatalogInit, CatalogInv, CatalogTypeOK, Doing, Stages, Resting,
         CatalogStaleIsExplained

\* a handler goes from one statement to the next
LEMMA DoingType ==
  ASSUME CatalogTypeOK, NEW h \in Handlers,
         \/ Rests(h)
         \/ \E stage \in Stages : Moves(h, stage)
         \/ \E stage \in Stages, s \in Slugs, e \in Editions \cup {Nothing} :
               Begins(h, stage, s, e)
         \/ \E stage \in Stages, e \in Editions :
               doing' = [doing EXCEPT ![h].stage = stage, ![h].edition = e]
  PROVE  doing' \in [Handlers -> Doing]
  BY DEF CatalogTypeOK, Rests, Moves, Begins, Doing, Resting, Stages

LEMMA MissedType == \A e \in Cache : [e EXCEPT !.missed = TRUE] \in Cache
  BY DEF Cache

LEMMA CatalogStep == CatalogInv /\ [CatalogNext]_catalogVars => CatalogInv'
<1> SUFFICES ASSUME CatalogInv, [CatalogNext]_catalogVars PROVE CatalogInv'
  OBVIOUS
<1> USE DEF CatalogInv, CatalogStaleIsExplained, In
<1>1. CASE Expire
  <2>1. CatalogTypeOK'
    BY <1>1, CatalogAssumption DEF Expire, CatalogTypeOK, Cache
  <2>2. \A s \in Slugs : entries'[s] # Nothing =>
          /\ entries[s] # Nothing
          /\ entries'[s].edition = entries[s].edition /\ entries'[s].missed = entries[s].missed
    BY <1>1 DEF Expire, CatalogTypeOK, Cache
  <2> QED
    BY <1>1, <2>1, <2>2 DEF Expire
<1>2. ASSUME NEW h \in Handlers, NEW s \in Slugs, GetBySlug(h, s) PROVE CatalogInv'
  <2>1. CatalogTypeOK'
    BY <1>2, DoingType DEF GetBySlug, CatalogTypeOK, Stages
  <2> QED
    BY <1>2, <2>1 DEF GetBySlug, Begins, CatalogTypeOK
<1>3. ASSUME NEW h \in Handlers, NEW s \in Slugs, NEW e \in Editions,
             Register(h, s, e) \/ UpdatePlugin(h, s, e)
      PROVE  CatalogInv'
  <2>1. CatalogTypeOK'
    BY <1>3, DoingType DEF Register, UpdatePlugin, CatalogTypeOK, Stages
  <2> QED
    BY <1>3, <2>1 DEF Register, UpdatePlugin, Begins, CatalogTypeOK
<1>4. ASSUME NEW h \in Handlers, InsertPlugin(h) PROVE CatalogInv'
  <2>1. CatalogTypeOK'
    BY <1>4, DoingType DEF InsertPlugin, CatalogTypeOK
  <2> QED
    BY <1>4, <2>1, CatalogAssumption DEF InsertPlugin, Rests, Resting, CatalogTypeOK
<1>5. ASSUME NEW h \in Handlers, WriteRow(h) PROVE CatalogInv'
  <2>1. CatalogTypeOK'
    BY <1>5, DoingType DEF WriteRow, CatalogTypeOK, Stages
  <2> QED
    BY <1>5, <2>1, CatalogAssumption DEF WriteRow, Moves, CatalogTypeOK
<1>6. ASSUME NEW h \in Handlers, DropEntry(h) PROVE CatalogInv'
  <2>0. \A s \in Slugs :
           entries[s] # Nothing => [entries[s] EXCEPT !.missed = TRUE] \in Cache
    BY MissedType DEF CatalogTypeOK
  <2>1. CatalogTypeOK'
    <3>1. entries' \in [Slugs -> Cache \cup {Nothing}]
      BY <1>6, <2>0 DEF DropEntry, CatalogTypeOK
    <3> QED
      BY <1>6, <3>1, DoingType DEF DropEntry, CatalogTypeOK
  <2>2. ASSUME NEW s \in Slugs, entries'[s] # Nothing
        PROVE  /\ entries[s] # Nothing
               /\ entries'[s].edition = entries[s].edition
               /\ entries[s].missed \/ s = doing[h].slug => entries'[s].missed
    <3>1. CASE s # doing[h].slug
      BY <1>6, <2>2, <3>1 DEF DropEntry, CatalogTypeOK
    <3>2. CASE s = doing[h].slug
      <4>1. entries[s] # Nothing /\ entries'[s] = [entries[s] EXCEPT !.missed = TRUE]
        BY <1>6, <2>2, <3>2 DEF DropEntry, CatalogTypeOK
      <4> QED
        BY <4>1 DEF CatalogTypeOK, Cache
    <3> QED
      BY <3>1, <3>2
  <2> QED
    BY <1>6, <2>1, <2>2 DEF DropEntry, Rests, Resting, CatalogTypeOK
<1>7. ASSUME NEW h \in Handlers, LoadPlugin(h) PROVE CatalogInv'
  <2>1. plugins[doing[h].slug] \in Editions \cup {Nothing}
    BY <1>7 DEF LoadPlugin, CatalogTypeOK
  <2>2. CatalogTypeOK'
    BY <1>7, <2>1, DoingType DEF LoadPlugin, CatalogTypeOK, Stages
  <2>3. CASE plugins[doing[h].slug] = Nothing
    BY <1>7, <2>2, <2>3 DEF LoadPlugin, Rests, Resting, CatalogTypeOK
  <2>4. CASE plugins[doing[h].slug] # Nothing
    <3>1. doing' = [doing EXCEPT ![h].stage = "fill", ![h].edition = plugins[doing[h].slug]]
      BY <1>7, <2>4 DEF LoadPlugin
    <3>2. /\ doing'[h].stage = "fill" /\ doing'[h].slug = doing[h].slug
          /\ doing'[h].edition = plugins[doing[h].slug]
          /\ doing[h].stage = "load"
          /\ \A g \in Handlers \ {h} : doing'[g] = doing[g]
      BY <1>7, <3>1 DEF LoadPlugin, CatalogTypeOK, Doing
    <3> QED
      BY <1>7, <2>1, <2>2, <2>4, <3>2 DEF LoadPlugin
  <2> QED
    BY <2>3, <2>4
<1>8. ASSUME NEW h \in Handlers, FillEntry(h) PROVE CatalogInv'
  <2>1. CatalogTypeOK'
    BY <1>8, DoingType, CatalogAssumption DEF FillEntry, CatalogTypeOK, Cache
  <2>2. /\ plugins' = plugins /\ doing'[h] = Resting
        /\ \A g \in Handlers \ {h} : doing'[g] = doing[g]
        /\ doing[h].stage = "fill"
    BY <1>8 DEF FillEntry, Rests, In, CatalogTypeOK
  <2>3. /\ entries'[doing[h].slug].edition # plugins[doing[h].slug]
             => entries'[doing[h].slug].missed
        /\ \A s \in Slugs \ {doing[h].slug} : entries'[s] = entries[s]
    BY <1>8 DEF FillEntry, CatalogTypeOK
  <2> QED
    BY <1>8, <2>1, <2>2, <2>3 DEF Resting
<1>9. ASSUME NEW h \in Handlers, Abandon(h) PROVE CatalogInv'
  <2>1. CatalogTypeOK'
    BY <1>9, DoingType DEF Abandon, CatalogTypeOK
  <2> QED
    BY <1>9, <2>1 DEF Abandon, Rests, Resting, CatalogTypeOK
<1>10. CASE UNCHANGED catalogVars
  BY <1>10 DEF catalogVars, CatalogTypeOK
<1> QED
  BY <1>1, <1>2, <1>3, <1>4, <1>5, <1>6, <1>7, <1>8, <1>9, <1>10 DEF CatalogNext

\* a catalog entry that differs from the table is about to be deleted, could not
\* be deleted, or was overtaken
THEOREM CatalogStale == CatalogSpec => []CatalogStaleIsExplained
<1>1. CatalogInv => CatalogStaleIsExplained
  BY DEF CatalogInv
<1> QED
  BY <1>1, CatalogInitInv, CatalogStep, PTL DEF CatalogSpec

\* the other parts leave the catalog alone
LEMMA BackendHoldsCatalog == BackendSpec => CatalogSpec
<1>1. BackendInit => CatalogInit
  BY DEF BackendInit
<1>2. [BackendNext]_backendVars => [CatalogNext]_catalogVars
  BY DEF BackendNext, backendVars
<1> QED
  BY <1>1, <1>2, PTL DEF BackendSpec, CatalogSpec

\* the same of the plugin catalog inside the whole back end
THEOREM BackendCatalog == BackendSpec => []CatalogStaleIsExplained
  BY BackendHoldsCatalog, CatalogStale, PTL

-----------------------------------------------------------------------------
(* Stores: FindOneAndUpdate.  Under every driver the query selects pending *)
(* records only; on Postgres the record was selected before it is written, *)
(* but it stays pending while it is locked, and nobody else has it.        *)

\* a condition is added behind the others
LEMMA WhereConditions ==
  ASSUME NEW q, "conditions" \in DOMAIN q, NEW op, NEW field, NEW value
  PROVE  /\ Where(q, op, field, value).conditions
               = Append(q.conditions, Condition(field, op, value))
         /\ "conditions" \in DOMAIN Where(q, op, field, value)
<1> DEFINE c == Condition(field, op, value)
<1>1. Where(q, op, field, value) = [q EXCEPT !.conditions = Append(@, c)]
  BY DEF Where
<1> HIDE DEF c
<1>2. Where(q, op, field, value).conditions = Append(q.conditions, c)
  BY <1>1
<1>3. DOMAIN Where(q, op, field, value) = DOMAIN q
  BY <1>1
<1> QED
  BY <1>2, <1>3 DEF c

LEMMA TwoConditions ==
  ASSUME NEW a, NEW b, NEW s, s = Append(Append(<<>>, a), b)
  PROVE  DOMAIN s = 1..2 /\ s[1] = a /\ s[2] = b
<1> DEFINE S == {a, b}
<1>1. <<a>> \in Seq(S) /\ <<>> \in Seq(S) /\ a \in S /\ b \in S
  OBVIOUS
<1>2. Append(<<>>, a) = <<a>>
  BY <1>1
<1>3. /\ Len(Append(<<a>>, b)) = 2 /\ Append(<<a>>, b)[1] = a /\ Append(<<a>>, b)[2] = b
      /\ Append(<<a>>, b) \in Seq(S)
  BY <1>1
<1> QED
  BY <1>2, <1>3

LEMMA ClaimableConditions ==
  LET s == Claimable.conditions IN
  DOMAIN s = 1..2 /\ s[1] = Condition("kind", "eq", "time")
                  /\ s[2] = Condition("status", "eq", "pending")
<1>a. PICK q1 : q1 = Where(NewQuery, "eq", "kind", "time")
  OBVIOUS
<1>b. PICK q2 : q2 = Where(q1, "eq", "status", "pending")
  OBVIOUS
<1>1. NewQuery.conditions = <<>> /\ "conditions" \in DOMAIN NewQuery
  BY DEF NewQuery
<1>2. q1.conditions = Append(<<>>, Condition("kind", "eq", "time"))
      /\ "conditions" \in DOMAIN q1
  BY <1>1, <1>a, WhereConditions
<1>3. q2.conditions = Append(q1.conditions, Condition("status", "eq", "pending"))
  <2>1. PICK c : c = Condition("status", "eq", "pending")
    OBVIOUS
  <2>2. PICK cs : cs = Append(q1.conditions, c)
    OBVIOUS
  <2>3. q2 = [q1 EXCEPT !.conditions = cs]
    BY <1>b, <2>1, <2>2 DEF Where
  <2>4. q2.conditions = cs
    BY <1>2, <2>3
  <2> QED
    BY <2>1, <2>2, <2>4
<1>4. Claimable.conditions = q2.conditions
  <2>1. PICK up : up = FALSE
    OBVIOUS
  <2>2. Claimable = OrderBy(q2, "at", up)
    BY <1>a, <1>b, <2>1 DEF Claimable
  <2>3. PICK p : p = [q2 EXCEPT !.order = "at"]
    OBVIOUS
  <2>4. OrderBy(q2, "at", up) = [p EXCEPT !.desc = up]
    BY <2>3 DEF OrderBy
  <2>5. [p EXCEPT !.desc = up].conditions = p.conditions /\ p.conditions = q2.conditions
    BY ONLY <2>3
  <2> QED
    BY <2>2, <2>4, <2>5
<1> QED
  BY <1>2, <1>3, <1>4, TwoConditions

\* the three drivers agree on what may be claimed
LEMMA ClaimablePending ==
  ASSUME driver \in {"postgres", "mongo", "memory"},
         NEW i \in Selected(driver, Claimable)
  PROVE  i \in Ids /\ rows[i] # None /\ rows[i].status = "pending"
<1> DEFINE s == Claimable.conditions
           kind == Condition("kind", "eq", "time")
           pending == Condition("status", "eq", "pending")
<1>1. DOMAIN s = 1..2 /\ s[1] = kind /\ s[2] = pending
  BY ClaimableConditions
<1>2. i \in Ids /\ rows[i] # None /\ Selects(driver, rows[i], s)
  BY DEF Selected, Present, Stored
<1>3. /\ pending.field = "status" /\ pending.op = "eq" /\ pending.value = "pending"
      /\ kind.field = "kind"
  BY DEF Condition
<1> HIDE DEF s, kind, pending
<1>4. CASE SqlSelects(rows[i], s)
  <2>1. SqlHolds(rows[i], pending)
    BY <1>1, <1>4 DEF SqlSelects
  <2> QED
    BY <1>2, <1>3, <2>1 DEF SqlHolds, Scalar, Ranges
<1>5. CASE MongoSelects(rows[i], s)
  <2>1. "status" \in {s[k].field : k \in DOMAIN s}
    BY <1>1, <1>3
  <2>2. (CHOOSE k \in DOMAIN s : /\ s[k].field = "status"
                                 /\ \A l \in DOMAIN s : s[l].field = "status" => l <= k) = 2
    BY <1>1, <1>3
  <2>3. MongoFilter(s)["status"] = pending /\ "status" \in DOMAIN MongoFilter(s)
    BY <1>1, <2>1, <2>2 DEF MongoFilter
  <2>4. MongoHolds(rows[i], pending)
    BY <1>5, <2>3 DEF MongoSelects
  <2> QED
    BY <1>2, <1>3, <2>4 DEF MongoHolds, Scalar, Ranges
<1>6. CASE MemorySelects(rows[i], s)
  <2>1. MemoryHolds(rows[i], pending)
    BY <1>1, <1>6 DEF MemorySelects
  <2> QED
    BY <1>2, <1>3, <2>1 DEF MemoryHolds, Scalar, Nullable
<1> QED
  BY <1>2, <1>4, <1>5, <1>6 DEF Selects

RowsType ==
    /\ driver \in {"postgres", "mongo", "memory"}
    /\ rows \in [Ids -> Row \cup {None}] /\ tx \in [Ids -> Row \cup {None}]
    /\ stamp \in 0..MaxStamp
    /\ claim \in [Claimers -> Ids \cup {None}]
    /\ claims \in [Ids -> Int] /\ \A i \in Ids : claims[i] >= -1

ClaimInv ==
    /\ RowsType
    /\ \A i \in Ids : claims[i] = -1 => rows[i] = None
    /\ \A i \in Ids : tx[i] # None => claims[i] = -1
    /\ \A i \in Ids : rows[i] # None /\ rows[i].status = "pending" => claims[i] <= 0
    /\ \A c \in Claimers :
          claim[c] # None =>
             /\ driver = "postgres"
             /\ rows[claim[c]] # None /\ rows[claim[c]].status = "pending"
    /\ \A c, d \in Claimers : claim[c] = claim[d] /\ claim[c] # None => c = d
    /\ ClaimedOnce

LEMMA NewRowsType == stamp \in 0..MaxStamp => NewRows \subseteq Row
<1> SUFFICES ASSUME stamp \in 0..MaxStamp PROVE NewRows \subseteq Row
  OBVIOUS
<1>1. [w \in Words |-> "absent"] \in Texts
  BY DEF Texts, Occurs
<1>2. \A u \in Owners, kind \in {"time", "location", "user"}, at \in Times \cup {None},
         x \in Texts : NewRow(u, kind, at, x) \in Row
  BY DEF NewRow, Row, Statuses
<1>3. CASE schema = "users"
  BY <1>1, <1>2, <1>3 DEF NewRows
<1>4. CASE schema # "users"
  <2>1. ASSUME NEW r \in NewRows PROVE r \in Row
    <3>1. \/ \E u \in Owners, t \in Times, x \in Texts : r = NewRow(u, "time", t, x)
          \/ \E u \in Owners : r = NewRow(u, "location", None, [w \in Words |-> "absent"])
      BY <1>4, <2>1 DEF NewRows
    <3> QED
      BY <1>1, <1>2, <3>1
  <2> QED
    BY <2>1
<1> QED
  BY <1>3, <1>4

LEMMA ClaimInitInv == StoresInit => ClaimInv
  BY StoresAssumption DEF StoresInit, ClaimInv, RowsType, ClaimedOnce

LEMMA NotifiedStep ==
  ASSUME ClaimInv, NEW i \in Ids, rows[i] # None, rows[i].status = "pending",
         SetNotified(i)
  PROVE  /\ rows' \in [Ids -> Row \cup {None}] /\ claims' \in [Ids -> Int]
         /\ rows'[i] \in Row /\ rows'[i].status = "notified" /\ claims'[i] \in {0, 1}
         /\ \A j \in Ids \ {i} : rows'[j] = rows[j] /\ claims'[j] = claims[j]
<1>1. rows[i] \in Row /\ claims[i] \in Int /\ claims[i] <= 0 /\ claims[i] # -1
  BY DEF ClaimInv, RowsType
<1>2. [rows[i] EXCEPT !.status = "notified"] \in Row
      /\ [rows[i] EXCEPT !.status = "notified"].status = "notified"
  BY <1>1 DEF Row, Statuses
<1>3. rows' = [rows EXCEPT ![i] = [rows[i] EXCEPT !.status = "notified"]]
      /\ claims' = [claims EXCEPT ![i] = claims[i] + 1]
  BY DEF SetNotified
<1>4. rows \in [Ids -> Row \cup {None}] /\ claims \in [Ids -> Int] /\ claims[i] = 0
  BY <1>1 DEF ClaimInv, RowsType
<1> QED
  BY <1>2, <1>3, <1>4

LEMMA ClaimStep == ClaimInv /\ [StoresNext]_storesVars => ClaimInv'
<1> SUFFICES ASSUME ClaimInv, [StoresNext]_storesVars PROVE ClaimInv'
  OBVIOUS
<1>1. ASSUME UNCHANGED <<driver, rows, tx, claim, claims>>, stamp' \in 0..MaxStamp
      PROVE  ClaimInv'
  BY <1>1 DEF ClaimInv, RowsType, ClaimedOnce
<1>2. CASE Tick
  BY <1>1, <1>2, StoresAssumption DEF Tick, ClaimInv, RowsType
<1>3. ASSUME NEW i \in Ids, NEW r \in NewRows, Begin(i, r) PROVE ClaimInv'
  <2>1. r \in Row
    BY NewRowsType DEF ClaimInv, RowsType
  <2> QED
    BY <1>3, <2>1 DEF Begin, Fresh, ClaimInv, RowsType, ClaimedOnce
<1>4. ASSUME NEW i \in Ids, NEW r \in NewRows, Create(i, r) PROVE ClaimInv'
  <2>1. r \in Row
    BY NewRowsType DEF ClaimInv, RowsType
  <2>2. \A c \in Claimers : claim[c] # i \/ i = None
    BY <1>4 DEF Create, Fresh, ClaimInv
  <2> QED
    BY <1>4, <2>1, <2>2, StoresAssumption DEF Create, Fresh, ClaimInv, RowsType, ClaimedOnce
<1>5. ASSUME NEW i \in Ids, Commit(i) \/ Rollback(i) PROVE ClaimInv'
  <2>1. tx[i] # None /\ claims[i] = -1 /\ rows[i] = None
    BY <1>5 DEF Commit, Rollback, ClaimInv
  <2>2. \A c \in Claimers : claim[c] # i \/ i = None
    BY <2>1 DEF ClaimInv
  <2> QED
    BY <1>5, <2>1, <2>2, StoresAssumption
       DEF Commit, Rollback, ClaimInv, RowsType, ClaimedOnce
<1>6. ASSUME NEW i \in Ids, NEW status \in Statuses, NEW delivered \in BOOLEAN,
             Update(i, status, delivered)
      PROVE  ClaimInv'
  <2>1. rows[i] \in Row /\ claims[i] # -1 /\ tx[i] = None /\ ~Locked(i)
    BY <1>6 DEF Update, Stored, ClaimInv, RowsType
  <2>2. [rows[i] EXCEPT !.status = status, !.delivered = delivered] \in Row
    BY <2>1 DEF Row
  <2>3. rows' = [rows EXCEPT ![i] = [rows[i] EXCEPT !.status = status, !.delivered = delivered]]
    BY <1>6 DEF Update, ClaimInv, RowsType
  <2>4. rows' \in [Ids -> Row \cup {None}] /\ \A j \in Ids \ {i} : rows'[j] = rows[j]
    BY <2>2, <2>3 DEF ClaimInv, RowsType
  <2>5. claims' = [claims EXCEPT ![i] = 0] /\ UNCHANGED <<driver, stamp, tx, claim>>
    BY <1>6 DEF Update
  <2> QED
    BY <2>1, <2>4, <2>5, StoresAssumption DEF Locked, ClaimInv, RowsType, ClaimedOnce
<1>7. ASSUME NEW i \in Ids, Delete(i) PROVE ClaimInv'
  BY <1>7, StoresAssumption DEF Delete, Stored, Locked, ClaimInv, RowsType, ClaimedOnce
<1>8. ASSUME NEW c \in Claimers, LockRow(c) PROVE ClaimInv'
  <2>1. PICK s \in Sorted(Unlocked(Selected(driver, Claimable)), Claimable.order,
                          Claimable.desc) :
           1 \in DOMAIN s /\ claim' = [claim EXCEPT ![c] = s[1]]
    BY <1>8 DEF LockRow
  <2>2. s[1] \in Unlocked(Selected(driver, Claimable))
    BY <2>1 DEF Sorted
  <2>3. s[1] \in Ids /\ rows[s[1]] # None /\ rows[s[1]].status = "pending" /\ ~Locked(s[1])
    BY <2>2, ClaimablePending DEF Unlocked, ClaimInv, RowsType
  <2> QED
    BY <1>8, <2>1, <2>3 DEF LockRow, Locked, ClaimInv, RowsType, ClaimedOnce
<1>9. ASSUME NEW c \in Claimers, WriteLocked(c) PROVE ClaimInv'
  <2>1. claim[c] \in Ids /\ rows[claim[c]] # None /\ rows[claim[c]].status = "pending"
    BY <1>9 DEF WriteLocked, ClaimInv, RowsType
  <2>2. SetNotified(claim[c]) /\ claim' = [claim EXCEPT ![c] = None]
        /\ UNCHANGED <<driver, stamp, tx>>
    BY <1>9 DEF WriteLocked
  <2>3. \A d \in Claimers \ {c} : claim'[d] = claim[d] /\ claim[d] # claim[c]
    BY <1>9, <2>2 DEF WriteLocked, ClaimInv, RowsType
  <2> QED
    BY <2>1, <2>2, <2>3, NotifiedStep DEF ClaimInv, RowsType, ClaimedOnce
<1>10. CASE ClaimAtOnce
  <2>1. PICK s \in Sorted(Selected(driver, Claimable), Claimable.order, Claimable.desc) :
           1 \in DOMAIN s /\ SetNotified(s[1])
    BY <1>10 DEF ClaimAtOnce
  <2>2. s[1] \in Ids /\ rows[s[1]] # None /\ rows[s[1]].status = "pending"
    BY <2>1, ClaimablePending DEF Sorted, ClaimInv, RowsType
  <2>3. UNCHANGED <<driver, stamp, tx, claim>> /\ \A c \in Claimers : claim[c] = None
    BY <1>10 DEF ClaimAtOnce, ClaimInv
  <2> QED
    BY <2>1, <2>2, <2>3, NotifiedStep DEF ClaimInv, RowsType, ClaimedOnce
<1>11. CASE FindPage \/ CountAll \/ \E n \in 0..(MaxPage + 1) : StartWalk(n)
  BY <1>1, <1>11 DEF FindPage, CountAll, StartWalk, ClaimInv, RowsType
<1>12. CASE UNCHANGED storesVars
  BY <1>1, <1>12 DEF storesVars, ClaimInv, RowsType
<1> QED
  BY <1>2, <1>3, <1>4, <1>5, <1>6, <1>7, <1>8, <1>9, <1>10, <1>11, <1>12 DEF StoresNext

\* whatever the driver, no two callers are handed the same record
THEOREM StoresClaims == StoresSpec => []ClaimedOnce
<1>1. ClaimInv => ClaimedOnce
  BY DEF ClaimInv
<1> QED
  BY <1>1, ClaimInitInv, ClaimStep, PTL DEF StoresSpec

LEMMA BackendHoldsStores == BackendSpec => StoresSpec
<1>1. BackendInit => StoresInit
  BY DEF BackendInit
<1>2. [BackendNext]_backendVars => [StoresNext]_storesVars
  BY DEF BackendNext, backendVars
<1> QED
  BY <1>1, <1>2, PTL DEF BackendSpec, StoresSpec

\* the same of the queues of records inside the whole back end
THEOREM BackendClaims == BackendSpec => []ClaimedOnce
  BY BackendHoldsStores, StoresClaims, PTL

-----------------------------------------------------------------------------
(* Stores: a listing read page by page.  A record that is in no tie has a  *)
(* place: after the newer ones.  Inserting moves it to a later page, never *)
(* to an earlier one.                                                      *)

Newer(i) == {j \in Present : rows[j].created > rows[i].created}

\* i can still be met on a page after the first n records
Ahead(n) ==
    \A i \in walk.there \ walk.seen : walk.torn \/ i \in walk.tied \/ Cardinality(Newer(i)) >= n

WalkOK ==
    /\ walk.page \in Nat \ {0} /\ walk.size \in Nat \ {0} /\ schema = "users"
    /\ walk.step \in {"find", "count", "done"}
    /\ walk = [page |-> walk.page, size |-> walk.size, step |-> walk.step, seen |-> walk.seen,
               there |-> walk.there, tied |-> walk.tied, torn |-> walk.torn]
    /\ walk.step # "done" => walk.there \subseteq Present
    /\ walk.step = "find" => Ahead((walk.page - 1) * walk.size)
    /\ walk.step = "count" => Ahead(walk.page * walk.size)

WalkRest ==
    /\ schema = "users" => \A c \in Claimers : claim[c] = None
    /\ walk # None => WalkOK
    /\ MissedIsExplained

WalkInv == ClaimInv /\ WalkRest

LEMMA PresentFinite ==
  /\ IsFiniteSet(Present) /\ Cardinality(Present) \in Nat
  /\ \A S \in SUBSET Present :
        /\ IsFiniteSet(S) /\ Cardinality(S) \in Nat /\ Cardinality(S) <= Cardinality(Present)
<1>1. IsFiniteSet(Present)
  BY StoresAssumption, FS_Subset DEF Present
<1> QED
  BY <1>1, FS_Subset, FS_CardinalityType

Above(S, v, x) == {j \in S : v[j] > x}

\* what is at place k of a listing
PlaceOf(s, i, k, n) == s[k] = i /\ n = k - 1

LEMMA UpTo == ASSUME NEW n \in Nat PROVE IsFiniteSet(1..n) /\ Cardinality(1..n) = n
BY FS_Interval

\* a record without a tie comes after the newer ones
LEMMA PlaceIs ==
  ASSUME NEW S, IsFiniteSet(S), NEW v \in [S -> Int],
         NEW N \in Nat, N = Cardinality(S), NEW s \in [1..N -> S],
         \A j, k \in 1..N : j # k => s[j] # s[k],
         \A j, k \in 1..N : j < k => v[s[j]] >= v[s[k]],
         NEW i \in S, \A j \in S \ {i} : v[j] # v[i]
  PROVE  \E k \in 1..N : PlaceOf(s, i, k, Cardinality(Above(S, v, v[i])))
<1>1. PICK k \in 1..N : s[k] = i
  <2>1. s \in Injection(1..N, S)
    BY DEF Injection, IsInjective
  <2>2. IsFiniteSet(1..N) /\ Cardinality(1..N) = N
    BY UpTo
  <2>3. s \in Surjection(1..N, S)
    BY <2>1, <2>2, FS_Injection
  <2> QED
    BY <2>3 DEF Surjection
<1> DEFINE newer == {j \in S : v[j] > v[i]}
<1>2. ASSUME NEW j \in 1..(k - 1) PROVE s[j] \in newer
  BY <1>1, <1>2
<1>3. ASSUME NEW x \in newer PROVE \E j \in 1..(k - 1) : s[j] = x
  <2>1. PICK j \in 1..N : s[j] = x
    <3>1. s \in Injection(1..N, S)
      BY DEF Injection, IsInjective
    <3>2. IsFiniteSet(1..N) /\ Cardinality(1..N) = N
      BY UpTo
    <3>3. s \in Surjection(1..N, S)
      BY <3>1, <3>2, FS_Injection
    <3> QED
      BY <1>3, <3>3 DEF Surjection
  <2>2. j # k /\ ~(k < j)
    BY <1>1, <1>3, <2>1
  <2> QED
    BY <2>1, <2>2
<1>4. PICK f : f = [j \in 1..(k - 1) |-> s[j]]
  OBVIOUS
<1> HIDE DEF newer
<1>5. f \in Bijection(1..(k - 1), newer)
  <2>1. f \in [1..(k - 1) -> newer]
    BY <1>2, <1>4
  <2>2. \A a, b \in 1..(k - 1) : f[a] = f[b] => a = b
    BY <1>4
  <2>3. \A x \in newer : \E a \in 1..(k - 1) : f[a] = x
    BY <1>3, <1>4
  <2> QED
    BY <2>1, <2>2, <2>3 DEF Bijection, Injection, Surjection, IsInjective
<1>6. IsFiniteSet(1..(k - 1)) /\ Cardinality(1..(k - 1)) = k - 1
  <2>1. k \in Int /\ k >= 1
    OBVIOUS
  <2>2. PICK m \in Nat : m = k - 1
    BY <2>1
  <2>3. IsFiniteSet(1..m) /\ Cardinality(1..m) = m
    BY <2>2, UpTo
  <2> QED
    BY <2>2, <2>3
<1>7. Cardinality(newer) = k - 1
  BY <1>5, <1>6, FS_Bijection DEF ExistsBijection
<1>8. Cardinality(Above(S, v, v[i])) = k - 1
  BY <1>7 DEF newer, Above
<1> QED
  BY <1>1, <1>8 DEF PlaceOf

LEMMA SameRows ==
  ASSUME UNCHANGED rows
  PROVE  Present' = Present /\ \A j : Newer(j)' = Newer(j)
BY DEF Present, Stored, Newer

Shown(s) == {s[k] : k \in DOMAIN s}

\* what a page holds
LEMMA PageIs ==
  ASSUME NEW S, NEW N \in Nat, NEW s \in [1..N -> S], NEW q,
         NEW off \in Nat, NEW size \in Nat \ {0},
         q.offset = off, q.limit = size, NEW k \in 1..N, off < k, k <= off + size
  PROVE  s[k] \in Shown(Page(s, q))
<1>1. PICK rest : rest = SubSeq(s, off + 1, N)
  OBVIOUS
<1>2. s \in Seq(S) /\ Len(s) = N
  OBVIOUS
<1>3. /\ rest \in Seq(S) /\ Len(rest) = N - off
      /\ \A j \in 1..(N - off) : rest[j] = s[off + j]
  <2>1. \A j \in (off + 1)..N : s[j] \in S
    OBVIOUS
  <2>2. /\ rest \in Seq(S) /\ Len(rest) = N - (off + 1) + 1
        /\ \A j \in 1..(N - (off + 1) + 1) : rest[j] = s[off + 1 + j - 1]
    BY <1>1, <2>1, SubSeqProperties
  <2> QED
    BY <2>2
<1>4. PICK m \in 1..(N - off) : m = (IF size < Len(rest) THEN size ELSE Len(rest))
  <2>1. N - off \in 1..(N - off) /\ (size < N - off => size \in 1..(N - off))
    OBVIOUS
  <2>2. (IF size < N - off THEN size ELSE N - off) \in 1..(N - off)
    BY <2>1
  <2> QED
    BY <1>3, <2>2
<1>5. Page(s, q) = SubSeq(rest, 1, m)
  BY <1>1, <1>2, <1>4 DEF Page
<1>6. \A j \in 1..m : rest[j] \in S
  BY <1>3, <1>4
<1>7. /\ Len(SubSeq(rest, 1, m)) = m /\ SubSeq(rest, 1, m) \in Seq(S)
      /\ \A j \in 1..m : SubSeq(rest, 1, m)[j] = rest[j]
  <2>1. /\ Len(SubSeq(rest, 1, m)) = m - 1 + 1 /\ SubSeq(rest, 1, m) \in Seq(S)
        /\ \A j \in 1..(m - 1 + 1) : SubSeq(rest, 1, m)[j] = rest[1 + j - 1]
    BY <1>4, <1>6, SubSeqProperties
  <2> QED
    BY <1>4, <2>1
<1>8. k - off \in 1..m
  BY <1>3, <1>4
<1>9. Page(s, q)[k - off] = s[k] /\ k - off \in DOMAIN Page(s, q)
  <2>1. DOMAIN SubSeq(rest, 1, m) = 1..m
    BY <1>7, LenProperties
  <2>2. rest[k - off] = s[off + (k - off)] /\ off + (k - off) = k
    BY <1>3, <1>4, <1>8
  <2>3. SubSeq(rest, 1, m)[k - off] = s[k]
    BY <1>7, <1>8, <2>2
  <2> QED
    BY <1>5, <1>8, <2>1, <2>3
<1> QED
  BY <1>9 DEF Shown

\* the listing selects everything there is
LEMMA ListSelects ==
  ASSUME RowsType, NEW page \in Nat \ {0}, NEW size \in Nat \ {0}
  PROVE  /\ Selected(driver, NewQuery) = Present
         /\ Selected(driver, ListQuery(page, size)) = Present
         /\ ListQuery(page, size).order = "created" /\ ListQuery(page, size).desc = TRUE
         /\ ListQuery(page, size).limit = size
         /\ ListQuery(page, size).offset = (page - 1) * size
<1>1. /\ NewQuery.conditions = <<>> /\ ListQuery(page, size).conditions = <<>>
      /\ ListQuery(page, size).order = "created" /\ ListQuery(page, size).desc = TRUE
      /\ ListQuery(page, size).limit = size
      /\ ListQuery(page, size).offset = (page - 1) * size
  BY DEF NewQuery, ListQuery, Paginate, OrderBy
<1>2. \A r : SqlSelects(r, <<>>) /\ MongoSelects(r, <<>>) /\ MemorySelects(r, <<>>)
  BY DEF SqlSelects, MongoSelects, MemorySelects, MongoFilter
<1>3. \A r : Selects(driver, r, <<>>)
  BY <1>2 DEF RowsType, Selects
<1> QED
  BY <1>1, <1>3 DEF Selected

\* a page is read: what it does not show is further ahead
LEMMA FindPageStep ==
  ASSUME WalkInv, FindPage
  PROVE  WalkRest'
<1>1. PICK s \in Found(driver, ListQuery(walk.page, walk.size)) :
        walk' = [walk EXCEPT !.step = "count", !.seen = @ \cup {s[k] : k \in DOMAIN s},
                             !.tied = @ \cup {i \in Present : Tied(i)}]
  BY DEF FindPage
<1>2. /\ WalkOK /\ walk.step = "find" /\ RowsType /\ ClaimInv
      /\ UNCHANGED <<driver, schema, rows, stamp, tx, claim, claims>>
  BY DEF FindPage, WalkInv, WalkRest, ClaimInv
<1>3. /\ walk'.page = walk.page /\ walk'.size = walk.size /\ walk'.step = "count"
      /\ walk'.seen = walk.seen \cup {s[k] : k \in DOMAIN s} /\ walk'.there = walk.there
      /\ walk'.tied = walk.tied \cup {i \in Present : Tied(i)} /\ walk'.torn = walk.torn
      /\ walk' = [page |-> walk'.page, size |-> walk'.size, step |-> walk'.step,
                  seen |-> walk'.seen, there |-> walk'.there, tied |-> walk'.tied,
                  torn |-> walk'.torn]
  BY <1>1, <1>2 DEF WalkOK
<1>4. PICK page, size, off : /\ page = walk.page /\ size = walk.size /\ off = (page - 1) * size
  OBVIOUS
<1>5. page \in Nat \ {0} /\ size \in Nat \ {0} /\ off \in Nat /\ page * size = off + size
  BY <1>2, <1>4 DEF WalkOK
<1>6. PICK N, full : /\ N = Cardinality(Present) /\ full \in [1..N -> Present]
                     /\ \A j, k \in 1..N : j # k => full[j] # full[k]
                     /\ \A j, k \in 1..N :
                           j < k => rows[full[j]].created >= rows[full[k]].created
                     /\ s = Page(full, ListQuery(page, size))
  <2>1. PICK q : q = ListQuery(page, size)
    OBVIOUS
  <2>2. Selected(driver, q) = Present /\ q.order = "created" /\ q.desc = TRUE
    BY <1>2, <1>5, <2>1, ListSelects
  <2>3. PICK full \in Sorted(Present, "created", TRUE) : s = Page(full, q)
    BY <1>1, <1>4, <2>1, <2>2 DEF Found
  <2>4. full \in Sorted(Present, "created", TRUE)
    BY <2>3
  <2>5. /\ full \in [1..Cardinality(Present) -> Present]
        /\ \A j, k \in DOMAIN full : j # k => full[j] # full[k]
    BY <2>4 DEF Sorted
  <2>6. \A j, k \in DOMAIN full :
           j < k => rows[full[j]]["created"] >= rows[full[k]]["created"]
    <3> SUFFICES ASSUME NEW j \in DOMAIN full, NEW k \in DOMAIN full, j < k
                 PROVE  rows[full[j]]["created"] >= rows[full[k]]["created"]
      OBVIOUS
    <3>1. "created" # None => IF TRUE THEN rows[full[j]]["created"] >= rows[full[k]]["created"]
                                     ELSE rows[full[j]]["created"] <= rows[full[k]]["created"]
      BY <2>4 DEF Sorted
    <3> QED
      BY <3>1, NullAssumption
  <2>7. DOMAIN full = 1..Cardinality(Present)
    BY <2>5
  <2> QED
    BY <2>1, <2>3, <2>5, <2>6, <2>7
<1>7. ASSUME NEW i \in walk.there, i \notin walk'.seen, ~walk.torn, i \notin walk'.tied
      PROVE  Cardinality(Newer(i)) >= page * size
  <2>1. i \in Present /\ Cardinality(Newer(i)) >= off
    BY <1>2, <1>3, <1>4, <1>7 DEF WalkOK, Ahead
  <2>2. PICK v : v = [j \in Present |-> rows[j].created]
    OBVIOUS
  <2>3. v \in [Present -> Int]
    BY <1>2, <2>2 DEF RowsType, Row, Present, Stored
  <2>4. \A j \in Present \ {i} : v[j] # v[i]
    BY <1>3, <1>7, <2>1, <2>2 DEF Tied
  <2>5. \A j, k \in 1..N : j < k => v[full[j]] >= v[full[k]]
    BY <1>6, <2>2
  <2>6. Newer(i) = {j \in Present : v[j] > v[i]}
    BY <2>1, <2>2 DEF Newer
  <2>7. PICK k \in 1..N : full[k] = i /\ Cardinality(Newer(i)) = k - 1
    <3>1. IsFiniteSet(Present) /\ N \in Nat /\ N = Cardinality(Present)
      BY <1>6, PresentFinite
    <3>2. full \in [1..N -> Present] /\ \A j, k \in 1..N : j # k => full[j] # full[k]
      BY <1>6
    <3>3. i \in Present
      BY <2>1
    <3>4. PICK k \in 1..N : PlaceOf(full, i, k, Cardinality(Above(Present, v, v[i])))
      BY <2>3, <2>4, <2>5, <3>1, <3>2, <3>3, PlaceIs
    <3>5. Newer(i) = Above(Present, v, v[i])
      BY <2>6 DEF Above
    <3> QED
      BY <3>4, <3>5 DEF PlaceOf
  <2>8. ~(k <= off + size)
    <3> SUFFICES ASSUME k <= off + size PROVE FALSE
      OBVIOUS
    <3>1. off < k /\ N \in Nat
      BY <1>5, <1>6, <2>1, <2>7, PresentFinite
    <3>2. full[k] \in Shown(s)
      <4>1. PICK q : q = ListQuery(page, size)
        OBVIOUS
      <4>2. q.offset = off /\ q.limit = size
        BY <1>2, <1>4, <1>5, <4>1, ListSelects
      <4>3. full \in [1..N -> Present] /\ s = Page(full, q)
        BY <1>6, <4>1
      <4>4. k \in 1..N /\ off \in Nat /\ size \in Nat \ {0} /\ off < k /\ k <= off + size
        BY <1>5, <2>7, <3>1
      <4> QED
        BY <3>1, <4>2, <4>3, <4>4, PageIs
    <3> QED
      BY <1>3, <1>7, <2>7, <3>2 DEF Shown
  <2> QED
    BY <1>5, <1>6, <2>7, <2>8, PresentFinite
<1>8. walk'.there \subseteq Present'
  BY <1>2, <1>3, SameRows DEF WalkOK
<1>9. Ahead(page * size)'
  BY <1>2, <1>3, <1>7, SameRows DEF Ahead
<1>10. WalkOK'
  BY <1>2, <1>3, <1>4, <1>5, <1>8, <1>9 DEF WalkOK
<1>11. MissedIsExplained'
  BY <1>3 DEF MissedIsExplained
<1> QED
  BY <1>2, <1>10, <1>11 DEF WalkInv, WalkRest

\* the records are counted: when no page is left, nothing is further ahead
LEMMA CountAllStep ==
  ASSUME WalkInv, CountAll
  PROVE  WalkRest'
<1>1. /\ walk # None /\ WalkOK /\ walk.step = "count" /\ RowsType
      /\ UNCHANGED <<driver, schema, rows, stamp, tx, claim, claims>>
  BY DEF CountAll, WalkInv, WalkRest, ClaimInv
<1>2. PICK page, size : page = walk.page /\ size = walk.size
  OBVIOUS
<1>3. page \in Nat \ {0} /\ size \in Nat \ {0} /\ Ahead(page * size) /\ page * size \in Nat
  BY <1>1, <1>2 DEF WalkOK
<1>4. Selected(driver, NewQuery) = Present
  BY <1>1, <1>3, ListSelects
<1>5. CASE page * size < Cardinality(Present)
  <2>1. PICK next : next = page + 1
    OBVIOUS
  <2>2. walk' = [walk EXCEPT !.page = next, !.step = "find"]
    BY <1>2, <1>4, <1>5, <2>1 DEF CountAll
  <2>3. /\ walk'.page = next /\ walk'.size = size /\ walk'.step = "find"
        /\ walk'.seen = walk.seen /\ walk'.there = walk.there
        /\ walk'.tied = walk.tied /\ walk'.torn = walk.torn
        /\ walk' = [page |-> walk'.page, size |-> walk'.size, step |-> walk'.step,
                    seen |-> walk'.seen, there |-> walk'.there, tied |-> walk'.tied,
                    torn |-> walk'.torn]
    BY <1>1, <1>2, <2>2 DEF WalkOK
  <2>4. (next - 1) * size = page * size /\ next \in Nat \ {0}
    BY <1>3, <2>1
  <2>5. Ahead((next - 1) * size)'
    BY <1>1, <1>3, <2>3, <2>4, SameRows DEF Ahead
  <2>6. walk'.there \subseteq Present'
    BY <1>1, <2>3, SameRows DEF WalkOK
  <2>7. WalkOK'
    BY <1>1, <1>3, <2>3, <2>4, <2>5, <2>6 DEF WalkOK
  <2> QED
    BY <1>1, <2>3, <2>7 DEF WalkInv, WalkRest, MissedIsExplained
<1>6. CASE ~(page * size < Cardinality(Present))
  <2>1. walk' = [walk EXCEPT !.step = "done"]
    BY <1>2, <1>4, <1>6 DEF CountAll
  <2>2. /\ walk'.page = page /\ walk'.size = size /\ walk'.step = "done"
        /\ walk'.seen = walk.seen /\ walk'.there = walk.there
        /\ walk'.tied = walk.tied /\ walk'.torn = walk.torn
        /\ walk' = [page |-> walk'.page, size |-> walk'.size, step |-> walk'.step,
                    seen |-> walk'.seen, there |-> walk'.there, tied |-> walk'.tied,
                    torn |-> walk'.torn]
    BY <1>1, <1>2, <2>1 DEF WalkOK
  <2>3. ASSUME NEW i \in walk.there PROVE Cardinality(Newer(i)) < page * size
    <3>1. i \in Present /\ i \notin Newer(i) /\ Newer(i) \subseteq Present
      BY <1>1, <2>3 DEF WalkOK, Newer, RowsType, Row, Present, Stored
    <3>2. IsFiniteSet(Newer(i)) /\ Cardinality(Newer(i)) \in Nat
      BY <3>1, PresentFinite
    <3>3. Cardinality(Newer(i) \cup {i}) = Cardinality(Newer(i)) + 1
      BY <3>1, <3>2, FS_AddElement
    <3>4. Cardinality(Newer(i) \cup {i}) <= Cardinality(Present)
      BY <3>1, PresentFinite
    <3> QED
      BY <1>3, <1>6, <3>2, <3>3, <3>4, PresentFinite
  <2>4. \A i \in walk.there \ walk.seen : walk.torn \/ i \in walk.tied
    <3> SUFFICES ASSUME NEW i \in walk.there \ walk.seen, ~walk.torn, i \notin walk.tied
                 PROVE  FALSE
      OBVIOUS
    <3>1. Cardinality(Newer(i)) >= page * size /\ Newer(i) \subseteq Present
      BY <1>3 DEF Ahead, Newer
    <3> QED
      BY <1>3, <2>3, <3>1, PresentFinite
  <2>5. MissedIsExplained'
    BY <2>2, <2>4 DEF MissedIsExplained
  <2>6. WalkOK'
    BY <1>1, <1>3, <2>2 DEF WalkOK
  <2> QED
    BY <1>1, <2>5, <2>6 DEF WalkInv, WalkRest
<1> QED
  BY <1>5, <1>6

\* a record appears: the others keep their place or move further ahead
LEMMA AppearStep ==
  ASSUME WalkInv, NEW i \in Ids, rows[i] = None, NEW row \in Row \cup {None},
         rows' = [rows EXCEPT ![i] = row], UNCHANGED <<schema, claim, walk>>
  PROVE  WalkRest'
<1>1. CASE walk = None
  BY <1>1 DEF WalkInv, WalkRest, MissedIsExplained
<1>2. CASE walk # None
  <2>1. WalkOK /\ RowsType
    BY <1>2 DEF WalkInv, WalkRest, ClaimInv
  <2>2. \A j \in Ids \ {i} : rows'[j] = rows[j]
    BY <2>1 DEF RowsType
  <2>3. Present \subseteq Present' /\ i \notin Present
    BY <2>2 DEF Present, Stored
  <2>4. ASSUME NEW j \in Present PROVE Cardinality(Newer(j)) <= Cardinality(Newer(j)')
    <3>1. Newer(j) \subseteq Newer(j)'
      BY <2>2, <2>3, <2>4 DEF Newer, Present
    <3>2. IsFiniteSet(Present')
      BY StoresAssumption, FS_Subset DEF Present
    <3>3. IsFiniteSet(Newer(j)')
      BY <3>2, FS_Subset DEF Newer
    <3> QED
      BY <3>1, <3>3, FS_Subset
  <2>5. ASSUME NEW n \in Int, Ahead(n), walk.there \subseteq Present PROVE Ahead(n)'
    <3> SUFFICES ASSUME NEW j \in walk.there \ walk.seen, ~walk.torn, j \notin walk.tied
                 PROVE  Cardinality(Newer(j)') >= n
      BY DEF Ahead
    <3>1. Cardinality(Newer(j)) >= n /\ Cardinality(Newer(j)) \in Nat
      BY <2>5, PresentFinite DEF Ahead, Newer
    <3>2. Cardinality(Newer(j)') \in Nat
      <4>1. IsFiniteSet(Newer(j)')
        BY StoresAssumption, FS_Subset DEF Present, Newer
      <4> QED
        BY <4>1, FS_CardinalityType
    <3> QED
      BY <2>4, <2>5, <3>1, <3>2
  <2>6. (walk.page - 1) * walk.size \in Int /\ walk.page * walk.size \in Int
    BY <2>1 DEF WalkOK
  <2>7. WalkOK'
    BY <2>1, <2>3, <2>5, <2>6 DEF WalkOK
  <2> QED
    BY <2>7 DEF WalkInv, WalkRest, MissedIsExplained
<1> QED
  BY <1>1, <1>2

\* a record is deleted: a listing under way is torn
LEMMA DeleteStep ==
  ASSUME WalkInv, NEW i \in Ids, Delete(i)
  PROVE  WalkRest'
<1>1. CASE walk = None \/ walk.step = "done"
  <2>1. UNCHANGED <<schema, claim, walk>>
    BY <1>1 DEF Delete
  <2> QED
    BY <1>1, <2>1 DEF WalkInv, WalkRest, WalkOK, MissedIsExplained
<1>2. CASE walk # None /\ walk.step # "done"
  <2>1. WalkOK /\ RowsType
    BY <1>2 DEF WalkInv, WalkRest, ClaimInv
  <2>2. PICK there : there = walk.there \ {i}
    OBVIOUS
  <2>3. /\ walk' = [walk EXCEPT !.there = there, !.torn = TRUE]
        /\ rows' = [rows EXCEPT ![i] = None] /\ UNCHANGED <<schema, claim>>
    BY <1>2, <2>2 DEF Delete
  <2>4. /\ walk'.page = walk.page /\ walk'.size = walk.size /\ walk'.step = walk.step
        /\ walk'.seen = walk.seen /\ walk'.there = there /\ walk'.tied = walk.tied
        /\ walk'.torn = TRUE
        /\ walk' = [page |-> walk'.page, size |-> walk'.size, step |-> walk'.step,
                    seen |-> walk'.seen, there |-> walk'.there, tied |-> walk'.tied,
                    torn |-> walk'.torn]
    BY <2>1, <2>3 DEF WalkOK
  <2>5. walk'.there \subseteq Present'
    BY <1>2, <2>1, <2>2, <2>3, <2>4 DEF WalkOK, Present, Stored, RowsType
  <2>6. Ahead((walk.page - 1) * walk.size)' /\ Ahead(walk.page * walk.size)'
    BY <2>4 DEF Ahead
  <2>7. WalkOK'
    BY <2>1, <2>3, <2>4, <2>5, <2>6 DEF WalkOK
  <2> QED
    BY <2>3, <2>4, <2>7 DEF WalkInv, WalkRest, MissedIsExplained
<1> QED
  BY <1>1, <1>2

LEMMA StartWalkStep ==
  ASSUME WalkInv, NEW n \in 0..(MaxPage + 1), StartWalk(n)
  PROVE  WalkRest'
<1>1. PICK size : size = PerPage(n)
  OBVIOUS
<1>2. size \in Nat \ {0}
  BY <1>1, StoresAssumption DEF PerPage
<1>3. /\ walk' = [page |-> 1, size |-> size, step |-> "find", seen |-> {},
                  there |-> Present, tied |-> {}, torn |-> FALSE]
      /\ schema = "users" /\ UNCHANGED <<driver, schema, rows, claim>>
  BY <1>1 DEF StartWalk
<1>4. /\ walk'.page = 1 /\ walk'.size = size /\ walk'.step = "find"
      /\ walk'.seen = {} /\ walk'.there = Present /\ walk'.tied = {} /\ walk'.torn = FALSE
  BY <1>3
<1>5. (1 - 1) * size = 0
  BY <1>2
<1>6. Ahead(0)'
  <2>1. ASSUME NEW j PROVE Cardinality(Newer(j)') >= 0
    <3>1. Newer(j)' = Newer(j) /\ Newer(j) \subseteq Present
      BY <1>3, SameRows DEF Newer
    <3> QED
      BY <3>1, PresentFinite
  <2> QED
    BY <2>1 DEF Ahead
<1>7. WalkOK'
  BY <1>2, <1>3, <1>4, <1>5, <1>6, SameRows DEF WalkOK
<1> QED
  BY <1>3, <1>4, <1>7 DEF WalkInv, WalkRest, MissedIsExplained

\* what leaves the records and the listing alone
LEMMA WalkStays ==
  ASSUME WalkInv, UNCHANGED <<schema, rows, walk>>,
         UNCHANGED claim
  PROVE  WalkRest'
<1>1. WalkOK => WalkOK'
  BY SameRows DEF WalkOK, Ahead
<1> QED
  BY <1>1 DEF WalkInv, WalkRest, MissedIsExplained

\* the reminders are not listed page by page
LEMMA RemindersHaveNoWalk ==
  ASSUME WalkInv, schema # "users", UNCHANGED <<schema, walk>>
  PROVE  WalkRest'
<1>1. walk = None
  BY DEF WalkInv, WalkRest, WalkOK
<1> QED
  BY <1>1 DEF WalkInv, WalkRest, MissedIsExplained

LEMMA WalkInit == StoresInit => WalkInv
<1> SUFFICES ASSUME StoresInit PROVE WalkInv
  OBVIOUS
<1>1. walk = None /\ \A c \in Claimers : claim[c] = None
  BY DEF StoresInit
<1> QED
  BY <1>1, ClaimInitInv DEF WalkInv, WalkRest, MissedIsExplained

LEMMA WalkStep == WalkInv /\ [StoresNext]_storesVars => WalkInv'
<1> SUFFICES ASSUME WalkInv, [StoresNext]_storesVars PROVE WalkRest'
  BY ClaimStep DEF WalkInv
<1> USE DEF WalkInv
<1>1. RowsType /\ NewRows \subseteq Row
  BY NewRowsType DEF ClaimInv, RowsType
<1>2. CASE Tick
  BY <1>2, WalkStays DEF Tick
<1>3. ASSUME NEW i \in Ids, NEW r \in NewRows, Begin(i, r) PROVE WalkRest'
  BY <1>3, WalkStays DEF Begin
<1>4. ASSUME NEW i \in Ids, NEW r \in NewRows, Create(i, r) PROVE WalkRest'
  BY <1>1, <1>4, AppearStep DEF Create, Fresh, ClaimInv
<1>5. ASSUME NEW i \in Ids, Commit(i) PROVE WalkRest'
  <2>1. tx[i] \in Row \cup {None} /\ rows[i] = None
    BY <1>1, <1>5 DEF Commit, RowsType, ClaimInv
  <2> QED
    BY <1>5, <2>1, AppearStep DEF Commit
<1>6. ASSUME NEW i \in Ids, Rollback(i) PROVE WalkRest'
  BY <1>6, WalkStays DEF Rollback
<1>7. ASSUME NEW i \in Ids, NEW status \in Statuses, NEW delivered \in BOOLEAN,
             Update(i, status, delivered)
      PROVE  WalkRest'
  BY <1>7, RemindersHaveNoWalk DEF Update
<1>8. ASSUME NEW i \in Ids, Delete(i) PROVE WalkRest'
  BY <1>8, DeleteStep
<1>9. ASSUME NEW c \in Claimers, LockRow(c) PROVE WalkRest'
  BY <1>9, RemindersHaveNoWalk DEF LockRow
<1>10. ASSUME NEW c \in Claimers, WriteLocked(c) PROVE WalkRest'
  <2>1. schema # "users" /\ UNCHANGED <<schema, walk>>
    BY <1>10 DEF WriteLocked, WalkRest
  <2> QED
    BY <2>1, RemindersHaveNoWalk
<1>11. CASE ClaimAtOnce
  BY <1>11, RemindersHaveNoWalk DEF ClaimAtOnce
<1>12. ASSUME NEW n \in 0..(MaxPage + 1), StartWalk(n) PROVE WalkRest'
  BY <1>12, StartWalkStep
<1>13. CASE FindPage
  BY <1>13, FindPageStep
<1>14. CASE CountAll
  BY <1>14, CountAllStep
<1>15. CASE UNCHANGED storesVars
  BY <1>15, WalkStays DEF storesVars
<1> QED
  BY <1>2, <1>3, <1>4, <1>5, <1>6, <1>7, <1>8, <1>9, <1>10, <1>11, <1>12, <1>13, <1>14, <1>15
     DEF StoresNext

\* whatever is registered while a listing is read, no record that was there all
\* the time is missed, unless one was deleted or two carry the same created_at
THEOREM StoresListing == StoresSpec => []MissedIsExplained
<1>1. WalkInv => MissedIsExplained
  BY DEF WalkInv, WalkRest
<1> QED
  BY <1>1, WalkInit, WalkStep, PTL DEF StoresSpec

\* the same of the listings of the whole back end
THEOREM BackendListing == BackendSpec => []MissedIsExplained
  BY BackendHoldsStores, StoresListing, PTL

-----------------------------------------------------------------------------
(* Stores: the questions of the repositories.  Their conditions are few and *)
(* plain, so that a driver that can evaluate them evaluates them as SQL    *)
(* does; what is left is what the conditions mean of one record.           *)

\* a condition as the repositories write them
Plain(c) ==
    \/ c.op = "eq" /\ c.field \in {"owner", "kind", "status"} /\ c.value # None
    \/ c.op = "in" /\ c.field = "status" /\ None \notin c.value
    \/ c.op \in Ranges /\ c.field = "at"
    \/ c.op = "like" /\ c.field = "text"

LEMMA RowColumns ==
  ASSUME NEW r \in Row
  PROVE  /\ r["owner"] = r.owner /\ r["kind"] = r.kind /\ r["status"] = r.status
         /\ r["at"] = r.at /\ r["text"] = r.text
         /\ r.owner # None /\ r.kind # None /\ r.status # None /\ r.text # None
BY StoresAssumption, NullAssumption DEF Row

LEMMA MongoHoldsAlike ==
  ASSUME NEW r \in Row, NEW c, Plain(c), c.op # "like"
  PROVE  MongoHolds(r, c) <=> SqlHolds(r, c)
<1>1. CASE c.op = "eq"
  BY <1>1, RowColumns DEF Plain, Ranges, Scalar, MongoHolds, SqlHolds
<1>2. CASE c.op = "in"
  BY <1>2, RowColumns DEF Plain, Ranges, Scalar, MongoHolds, SqlHolds
<1>3. CASE c.op \in Ranges
  BY <1>3 DEF Ranges, Scalar, MongoHolds, SqlHolds
<1> QED
  BY <1>1, <1>2, <1>3 DEF Plain

LEMMA MemoryHoldsAlike ==
  ASSUME NEW r \in Row, NEW c, Plain(c), c.op \notin Ranges
  PROVE  MemoryHolds(r, c) <=> SqlHolds(r, c)
<1>1. CASE c.op = "eq"
  BY <1>1, RowColumns DEF Plain, Ranges, Nullable, Scalar, MemoryHolds, SqlHolds
<1>2. CASE c.op = "in"
  BY <1>2, RowColumns DEF Plain, Ranges, Nullable, Scalar, MemoryHolds, SqlHolds
<1>3. CASE c.op = "like"
  BY <1>3, RowColumns DEF Plain, Ranges, Nullable, Scalar, MemoryHolds, SqlHolds
<1> QED
  BY <1>1, <1>2, <1>3 DEF Plain

\* a filter document keeps every condition when no field is asked for twice
LEMMA FilterKeepsAll ==
  ASSUME NEW conditions, NEW r,
         \A k, l \in DOMAIN conditions : conditions[l].field = conditions[k].field => l = k
  PROVE  MongoSelects(r, conditions)
            <=> \A k \in DOMAIN conditions : MongoHolds(r, conditions[k])
<1> DEFINE Last(f) == CHOOSE k \in DOMAIN conditions :
                         /\ conditions[k].field = f
                         /\ \A l \in DOMAIN conditions : conditions[l].field = f => l <= k
<1>1. PICK filter : filter = MongoFilter(conditions)
  OBVIOUS
<1>2. /\ DOMAIN filter = {conditions[k].field : k \in DOMAIN conditions}
      /\ \A f \in DOMAIN filter : filter[f] = conditions[Last(f)]
  BY <1>1 DEF MongoFilter
<1>3. ASSUME NEW k \in DOMAIN conditions, k \in Int PROVE Last(conditions[k].field) = k
  <2>1. \A l \in DOMAIN conditions : conditions[l].field = conditions[k].field => l <= k
    BY <1>3
  <2> QED
    BY <1>3, <2>1
<1> QED
  BY <1>1, <1>2, <1>3 DEF MongoSelects

LEMMA SelectsAlike ==
  ASSUME NEW r \in Row, NEW d \in {"postgres", "mongo", "memory"}, NEW conditions,
         DOMAIN conditions \subseteq Int,
         \A k \in DOMAIN conditions : Plain(conditions[k]),
         d = "postgres" \/ Portable(d, conditions)
  PROVE  Selects(d, r, conditions) <=> SqlSelects(r, conditions)
<1>1. CASE d = "postgres"
  BY <1>1 DEF Selects
<1>2. CASE d = "mongo"
  <2>1. \A k, l \in DOMAIN conditions : conditions[l].field = conditions[k].field => l = k
    BY <1>2 DEF Portable
  <2>2. MongoSelects(r, conditions)
           <=> \A k \in DOMAIN conditions : MongoHolds(r, conditions[k])
    BY <2>1, FilterKeepsAll
  <2>3. \A k \in DOMAIN conditions : conditions[k].op # "like"
    BY <1>2 DEF Portable
  <2>4. \A k \in DOMAIN conditions :
           MongoHolds(r, conditions[k]) <=> SqlHolds(r, conditions[k])
    BY <2>3, MongoHoldsAlike
  <2> QED
    BY <1>2, <2>2, <2>4 DEF Selects, SqlSelects
<1>3. CASE d = "memory"
  <2>1. \A k \in DOMAIN conditions : conditions[k].op \notin Ranges
    BY <1>3 DEF Portable
  <2>2. \A k \in DOMAIN conditions :
           MemoryHolds(r, conditions[k]) <=> SqlHolds(r, conditions[k])
    BY <2>1, MemoryHoldsAlike
  <2> QED
    BY <1>3, <2>2 DEF Selects, SqlSelects, MemorySelects
<1> QED
  BY <1>1, <1>2, <1>3

\* a time reminder has a time
Timed(r) == r # None /\ r.kind = "time" => r.at # None

TimedInv == ClaimInv /\ \A i \in Ids : Timed(rows[i]) /\ Timed(tx[i])

\* the instants of a day
LEMMA SameDay ==
  ASSUME NEW D \in Nat \ {0}, NEW x \in Nat, NEW q \in Nat
  PROVE  (x >= q * D /\ x < q * D + D) <=> x \div D = q
<1>1. PICK p : p = x \div D
  OBVIOUS
<1>2. p \in Nat /\ p * D <= x /\ x < p * D + D
  BY <1>1
<1>3. ASSUME x >= q * D, x < q * D + D PROVE p = q
  <2>1. CASE p < q
    <3>1. PICK e \in Nat : q = p + 1 + e
      BY <1>2, <2>1
    <3>2. q * D = p * D + D + e * D /\ e * D \in Nat
      BY <1>2, <3>1
    <3> QED
      BY <1>2, <1>3, <3>2
  <2>2. CASE q < p
    <3>1. PICK e \in Nat : p = q + 1 + e
      BY <1>2, <2>2
    <3>2. p * D = q * D + D + e * D /\ e * D \in Nat
      BY <1>2, <3>1
    <3> QED
      BY <1>2, <1>3, <3>2
  <2> QED
    BY <1>2, <2>1, <2>2
<1> QED
  BY <1>1, <1>2, <1>3

\* the conditions of a query of the repositories
PlainSeq(cs) == (\E S : cs \in Seq(S)) /\ \A k \in DOMAIN cs : Plain(cs[k])

QueryOf(cs, field, desc) ==
    [conditions |-> cs, order |-> field, desc |-> desc, limit |-> 0, offset |-> 0]

PlainQuery(q) == \E cs, field, desc : q = QueryOf(cs, field, desc) /\ PlainSeq(cs)

Fields(q) == {q.conditions[k].field : k \in DOMAIN q.conditions}

Asks(q, r) == SqlSelects(r, q.conditions)

LEMMA AppendIs ==
  ASSUME NEW cs, \E S : cs \in Seq(S), NEW c
  PROVE  /\ \E S : Append(cs, c) \in Seq(S)
         /\ Len(cs) \in Nat /\ DOMAIN cs = 1..Len(cs)
         /\ DOMAIN Append(cs, c) = 1..(Len(cs) + 1)
         /\ \A k \in 1..Len(cs) : Append(cs, c)[k] = cs[k]
         /\ Append(cs, c)[Len(cs) + 1] = c
<1>1. PICK S : cs \in Seq(S)
  OBVIOUS
<1>2. PICK T : T = S \cup {c}
  OBVIOUS
<1>3. cs \in Seq(T) /\ c \in T
  BY <1>1, <1>2
<1>4. /\ Append(cs, c) \in Seq(T) /\ Len(Append(cs, c)) = Len(cs) + 1
      /\ \A k \in 1..Len(cs) : Append(cs, c)[k] = cs[k]
      /\ Append(cs, c)[Len(cs) + 1] = c
  BY <1>3, AppendProperties
<1>5. Len(cs) \in Nat /\ DOMAIN cs = 1..Len(cs) /\ DOMAIN Append(cs, c) = 1..(Len(cs) + 1)
  BY <1>3, <1>4, LenProperties
<1> QED
  BY <1>4, <1>5

LEMMA WhereIs ==
  ASSUME NEW cs, NEW field, NEW desc, NEW op, NEW f, NEW value
  PROVE  Where(QueryOf(cs, field, desc), op, f, value)
            = QueryOf(Append(cs, Condition(f, op, value)), field, desc)
<1>1. PICK q : q = QueryOf(cs, field, desc)
  OBVIOUS
<1>2. PICK ds : ds = Append(cs, Condition(f, op, value))
  OBVIOUS
<1>3. q.conditions = cs
  BY <1>1 DEF QueryOf
<1>4. Where(q, op, f, value) = [q EXCEPT !.conditions = ds]
  BY <1>2, <1>3 DEF Where
<1>5. [QueryOf(cs, field, desc) EXCEPT !.conditions = ds] = QueryOf(ds, field, desc)
  BY DEF QueryOf
<1> QED
  BY <1>1, <1>2, <1>4, <1>5

LEMMA NewAsks ==
  PlainQuery(NewQuery) /\ Fields(NewQuery) = {} /\ \A r : Asks(NewQuery, r)
<1>1. NewQuery = QueryOf(<<>>, None, FALSE) /\ NewQuery.conditions = <<>>
  BY DEF NewQuery, QueryOf
<1>2. PlainSeq(<<>>)
  <2>1. <<>> \in Seq({})
    OBVIOUS
  <2> QED
    BY <2>1 DEF PlainSeq
<1>3. PlainQuery(NewQuery)
  BY <1>1, <1>2 DEF PlainQuery
<1>4. DOMAIN NewQuery.conditions = {}
  <2>1. DOMAIN <<>> = {}
    OBVIOUS
  <2> QED
    BY <1>1, <2>1
<1> QED
  BY <1>3, <1>4 DEF Fields, Asks, SqlSelects

\* one condition more
LEMMA WhereAsks ==
  ASSUME NEW q, PlainQuery(q), NEW op, NEW f, NEW value, Plain(Condition(f, op, value))
  PROVE  /\ PlainQuery(Where(q, op, f, value))
         /\ Fields(Where(q, op, f, value)) = Fields(q) \cup {f}
         /\ \A r : Asks(Where(q, op, f, value), r)
                      <=> Asks(q, r) /\ SqlHolds(r, Condition(f, op, value))
<1>1. PICK c : c = Condition(f, op, value)
  OBVIOUS
<1>2. PICK cs, field, desc : q = QueryOf(cs, field, desc) /\ PlainSeq(cs)
  BY DEF PlainQuery
<1>3. PICK ds : ds = Append(cs, c)
  OBVIOUS
<1>4. PICK n \in Nat : n = Len(cs)
  BY <1>2, AppendIs DEF PlainSeq
<1>5. /\ \E S : ds \in Seq(S)
      /\ DOMAIN cs = 1..n /\ DOMAIN ds = 1..(n + 1)
      /\ \A k \in 1..n : ds[k] = cs[k]
      /\ ds[n + 1] = c
  BY <1>2, <1>3, <1>4, AppendIs DEF PlainSeq
<1>6. 1..(n + 1) = 1..n \cup {n + 1}
  OBVIOUS
<1>7. Where(q, op, f, value) = QueryOf(ds, field, desc)
  BY <1>1, <1>2, <1>3, WhereIs
<1>8. q.conditions = cs /\ Where(q, op, f, value).conditions = ds
  BY <1>2, <1>7 DEF QueryOf
<1>9. PlainSeq(ds)
  BY <1>1, <1>2, <1>5, <1>6 DEF PlainSeq
<1>10. c.field = f
  BY <1>1 DEF Condition
<1>11. {ds[k].field : k \in DOMAIN ds} = {cs[k].field : k \in DOMAIN cs} \cup {f}
  BY <1>5, <1>6, <1>10
<1>12. \A r : SqlSelects(r, ds) <=> SqlSelects(r, cs) /\ SqlHolds(r, c)
  BY <1>5, <1>6 DEF SqlSelects
<1> QED
  BY <1>1, <1>7, <1>8, <1>9, <1>11, <1>12 DEF PlainQuery, Fields, Asks

\* the order changes nothing
LEMMA OrderAsks ==
  ASSUME NEW q, PlainQuery(q), NEW f, NEW desc
  PROVE  /\ PlainQuery(OrderBy(q, f, desc))
         /\ Fields(OrderBy(q, f, desc)) = Fields(q)
         /\ \A r : Asks(OrderBy(q, f, desc), r) <=> Asks(q, r)
<1>1. PICK cs, g, e : q = QueryOf(cs, g, e) /\ PlainSeq(cs)
  BY DEF PlainQuery
<1>2. OrderBy(q, f, desc) = QueryOf(cs, f, desc)
  <2>1. [QueryOf(cs, g, e) EXCEPT !.order = f] = QueryOf(cs, f, e)
    BY DEF QueryOf
  <2>2. [QueryOf(cs, f, e) EXCEPT !.desc = desc] = QueryOf(cs, f, desc)
    BY DEF QueryOf
  <2>3. OrderBy(q, f, desc) = [[q EXCEPT !.order = f] EXCEPT !.desc = desc]
    BY DEF OrderBy
  <2> QED
    BY <1>1, <2>1, <2>2, <2>3
<1>3. q.conditions = cs /\ OrderBy(q, f, desc).conditions = cs
  BY <1>1, <1>2 DEF QueryOf
<1> QED
  BY <1>1, <1>2, <1>3 DEF PlainQuery, Fields, Asks

LEMMA SortedAsks ==
  ASSUME NEW q, PlainQuery(q), NEW f
  PROVE  /\ PlainQuery(OrderBy(q, f, FALSE)) /\ PlainQuery(OrderBy(q, f, TRUE))
         /\ \A r : Asks(OrderBy(q, f, FALSE), r) <=> Asks(q, r)
         /\ \A r : Asks(OrderBy(q, f, TRUE), r) <=> Asks(q, r)
         /\ Fields(OrderBy(q, f, FALSE)) = Fields(q)
<1>1. PICK up : up = FALSE
  OBVIOUS
<1>2. PICK down : down = TRUE
  OBVIOUS
<1>3. /\ PlainQuery(OrderBy(q, f, up)) /\ PlainQuery(OrderBy(q, f, down))
      /\ \A r : Asks(OrderBy(q, f, up), r) <=> Asks(q, r)
      /\ \A r : Asks(OrderBy(q, f, down), r) <=> Asks(q, r)
      /\ Fields(OrderBy(q, f, up)) = Fields(q)
  BY OrderAsks
<1> QED
  BY <1>1, <1>2, <1>3

\* what the conditions mean of a record
LEMMA ColumnsAsked ==
  ASSUME NEW r \in Row
  PROVE  /\ \A u : SqlHolds(r, Condition("owner", "eq", u)) <=> r.owner = u
         /\ \A k : SqlHolds(r, Condition("kind", "eq", k)) <=> r.kind = k
         /\ \A st : SqlHolds(r, Condition("status", "eq", st)) <=> r.status = st
         /\ \A S : SqlHolds(r, Condition("status", "in", S)) <=> r.status \in S
         /\ \A t : SqlHolds(r, Condition("at", "lte", t)) <=> r.at # None /\ r.at <= t
         /\ \A t : SqlHolds(r, Condition("at", "gte", t)) <=> r.at # None /\ r.at >= t
         /\ \A t : SqlHolds(r, Condition("at", "lt", t)) <=> r.at # None /\ r.at < t
         /\ \A w : SqlHolds(r, Condition("text", "like", w)) <=> r.text[w] # "absent"
<1>1. \A f, op, v : /\ Condition(f, op, v).field = f /\ Condition(f, op, v).op = op
                    /\ Condition(f, op, v).value = v
  BY DEF Condition
<1>2. \A f, v : SqlHolds(r, Condition(f, "eq", v)) <=> r[f] # None /\ r[f] = v
  BY <1>1 DEF SqlHolds, Scalar, Ranges
<1>3. \A f, v : SqlHolds(r, Condition(f, "in", v)) <=> r[f] # None /\ r[f] \in v
  BY <1>1 DEF SqlHolds, Scalar, Ranges
<1>4. \A f, v : SqlHolds(r, Condition(f, "lte", v)) <=> r[f] # None /\ r[f] <= v
  BY <1>1 DEF SqlHolds, Scalar, Ranges, InRange
<1>5. \A f, v : SqlHolds(r, Condition(f, "gte", v)) <=> r[f] # None /\ r[f] >= v
  BY <1>1 DEF SqlHolds, Scalar, Ranges, InRange
<1>6. \A f, v : SqlHolds(r, Condition(f, "lt", v)) <=> r[f] # None /\ r[f] < v
  BY <1>1 DEF SqlHolds, Scalar, Ranges, InRange
<1>7. \A f, v : SqlHolds(r, Condition(f, "like", v)) <=> r[f] # None /\ r[f][v] # "absent"
  BY <1>1 DEF SqlHolds, Scalar, Ranges, InRange
<1> QED
  BY <1>2, <1>3, <1>4, <1>5, <1>6, <1>7, RowColumns

LEMMA PlainConditions ==
  /\ \A u : u # None => Plain(Condition("owner", "eq", u))
  /\ Plain(Condition("kind", "eq", "time")) /\ Plain(Condition("kind", "eq", "location"))
  /\ \A st \in Statuses : Plain(Condition("status", "eq", st))
  /\ Plain(Condition("status", "in", {"pending", "notified"}))
  /\ \A t : \A op \in Ranges : Plain(Condition("at", op, t))
  /\ \A w : Plain(Condition("text", "like", w))
<1>1. \A f, op, v : /\ Condition(f, op, v).field = f /\ Condition(f, op, v).op = op
                    /\ Condition(f, op, v).value = v
  BY DEF Condition
<1>2. None # "time" /\ None # "location" /\ None \notin Statuses
  BY NullAssumption
<1>3. \A v : \A f \in {"owner", "kind", "status"} : v # None => Plain(Condition(f, "eq", v))
  BY <1>1 DEF Plain
<1>4. Plain(Condition("status", "in", {"pending", "notified"}))
  BY <1>1, <1>2 DEF Plain, Statuses
<1>5. \A t : \A op \in Ranges : Plain(Condition("at", op, t))
  BY <1>1 DEF Plain
<1>6. \A w : Plain(Condition("text", "like", w))
  BY <1>1 DEF Plain
<1> QED
  BY <1>2, <1>3, <1>4, <1>5, <1>6

LEMMA TimeRemindersAsks ==
  ASSUME NEW u \in Owners
  PROVE  /\ PlainQuery(TimeRemindersOf(u)) /\ Fields(TimeRemindersOf(u)) = {"owner", "kind"}
         /\ \A r \in Row : Asks(TimeRemindersOf(u), r) <=> r.owner = u /\ r.kind = "time"
<1>1. PICK q : q = Where(NewQuery, "eq", "owner", u)
  OBVIOUS
<1>2. Plain(Condition("owner", "eq", u)) /\ Plain(Condition("kind", "eq", "time"))
  BY PlainConditions, StoresAssumption
<1>3. /\ PlainQuery(q) /\ Fields(q) = {"owner"}
      /\ \A r : Asks(q, r) <=> SqlHolds(r, Condition("owner", "eq", u))
  BY <1>1, <1>2, NewAsks, WhereAsks
<1>4. TimeRemindersOf(u) = Where(q, "eq", "kind", "time")
  BY <1>1 DEF TimeRemindersOf
<1> QED
  BY <1>2, <1>3, <1>4, WhereAsks, ColumnsAsked

LEMMA FindDueAsks ==
  ASSUME NEW moment
  PROVE  /\ PlainQuery(FindDue(moment))
         /\ \A r \in Row : Asks(FindDue(moment), r)
               <=> r.kind = "time" /\ r.status = "pending" /\ r.at # None /\ r.at <= moment
<1>1. PICK q1 : q1 = Where(NewQuery, "eq", "kind", "time")
  OBVIOUS
<1>2. PICK q2 : q2 = Where(q1, "eq", "status", "pending")
  OBVIOUS
<1>3. PICK q3 : q3 = Where(q2, "lte", "at", moment)
  OBVIOUS
<1>4. /\ PlainQuery(q1)
      /\ \A r \in Row : Asks(q1, r) <=> r.kind = "time"
  <2>1. Plain(Condition("kind", "eq", "time"))
    BY PlainConditions
  <2>2. /\ PlainQuery(q1)
        /\ \A r : Asks(q1, r) <=> Asks(NewQuery, r) /\ SqlHolds(r, Condition("kind", "eq", "time"))
    BY <1>1, NewAsks, <2>1, WhereAsks
  <2>3. \A r \in Row : SqlHolds(r, Condition("kind", "eq", "time")) <=> r.kind = "time"
    BY ColumnsAsked
  <2> QED
    BY NewAsks, <2>2, <2>3
<1>5. /\ PlainQuery(q2)
      /\ \A r \in Row : Asks(q2, r) <=> r.kind = "time" /\ r.status = "pending"
  <2>1. Plain(Condition("status", "eq", "pending"))
    BY PlainConditions DEF Statuses
  <2>2. /\ PlainQuery(q2)
        /\ \A r : Asks(q2, r) <=> Asks(q1, r) /\ SqlHolds(r, Condition("status", "eq", "pending"))
    BY <1>2, <1>4, <2>1, WhereAsks
  <2>3. \A r \in Row : SqlHolds(r, Condition("status", "eq", "pending")) <=> r.status = "pending"
    BY ColumnsAsked
  <2> QED
    BY <1>4, <2>2, <2>3
<1>6. /\ PlainQuery(q3)
      /\ \A r \in Row : Asks(q3, r)
            <=> r.kind = "time" /\ r.status = "pending" /\ r.at # None /\ r.at <= moment
  <2>1. Plain(Condition("at", "lte", moment))
    BY PlainConditions DEF Ranges
  <2>2. /\ PlainQuery(q3)
        /\ \A r : Asks(q3, r) <=> Asks(q2, r) /\ SqlHolds(r, Condition("at", "lte", moment))
    BY <1>3, <1>5, <2>1, WhereAsks
  <2>3. \A r \in Row : SqlHolds(r, Condition("at", "lte", moment)) <=> r.at # None /\ r.at <= moment
    BY ColumnsAsked
  <2> QED
    BY <1>5, <2>2, <2>3
<1>7. PICK q : q = OrderBy(q3, "at", FALSE)
  OBVIOUS
<1>8. PlainQuery(q) /\ \A r : Asks(q, r) <=> Asks(q3, r)
  BY <1>6, <1>7, SortedAsks
<1>9. FindDue(moment) = q
  BY <1>1, <1>2, <1>3, <1>7 DEF FindDue
<1> QED
  BY <1>6, <1>8, <1>9

LEMMA FindPendingAsks ==
  ASSUME NEW u \in Owners, NEW w
  PROVE  /\ PlainQuery(FindPendingByUserAndMessage(u, w))
         /\ \A r \in Row : Asks(FindPendingByUserAndMessage(u, w), r)
               <=> /\ r.owner = u /\ r.kind = "time" /\ r.status = "pending"
                   /\ r.text[w] # "absent"
<1>1. PICK q1 : q1 = Where(TimeRemindersOf(u), "eq", "status", "pending")
  OBVIOUS
<1>2. PICK q2 : q2 = Where(q1, "like", "text", w)
  OBVIOUS
<1>3. /\ PlainQuery(q1)
      /\ \A r \in Row : Asks(q1, r) <=> r.owner = u /\ r.kind = "time" /\ r.status = "pending"
  <2>1. Plain(Condition("status", "eq", "pending"))
    BY PlainConditions DEF Statuses
  <2>2. /\ PlainQuery(q1)
        /\ \A r : Asks(q1, r) <=> Asks(TimeRemindersOf(u), r) /\ SqlHolds(r, Condition("status", "eq", "pending"))
    BY <1>1, TimeRemindersAsks, <2>1, WhereAsks
  <2>3. \A r \in Row : SqlHolds(r, Condition("status", "eq", "pending")) <=> r.status = "pending"
    BY ColumnsAsked
  <2> QED
    BY TimeRemindersAsks, <2>2, <2>3
<1>4. /\ PlainQuery(q2)
      /\ \A r \in Row : Asks(q2, r) <=> /\ r.owner = u /\ r.kind = "time"
                                        /\ r.status = "pending" /\ r.text[w] # "absent"
  <2>1. Plain(Condition("text", "like", w))
    BY PlainConditions
  <2>2. /\ PlainQuery(q2)
        /\ \A r : Asks(q2, r) <=> Asks(q1, r) /\ SqlHolds(r, Condition("text", "like", w))
    BY <1>2, <1>3, <2>1, WhereAsks
  <2>3. \A r \in Row : SqlHolds(r, Condition("text", "like", w)) <=> r.text[w] # "absent"
    BY ColumnsAsked
  <2> QED
    BY <1>3, <2>2, <2>3
<1>5. PICK q : q = OrderBy(q2, "at", FALSE)
  OBVIOUS
<1>6. PlainQuery(q) /\ \A r : Asks(q, r) <=> Asks(q2, r)
  BY <1>4, <1>5, SortedAsks
<1>7. FindPendingByUserAndMessage(u, w) = q
  BY <1>1, <1>2, <1>5 DEF FindPendingByUserAndMessage
<1> QED
  BY <1>4, <1>6, <1>7

LEMMA FindNotifiedAsks ==
  ASSUME NEW u \in Owners
  PROVE  /\ PlainQuery(FindNotified(u))
         /\ \A r \in Row : Asks(FindNotified(u), r)
               <=> r.owner = u /\ r.kind = "time" /\ r.status = "notified"
<1>1. PICK q1 : q1 = Where(TimeRemindersOf(u), "eq", "status", "notified")
  OBVIOUS
<1>2. /\ PlainQuery(q1)
      /\ \A r \in Row : Asks(q1, r) <=> r.owner = u /\ r.kind = "time" /\ r.status = "notified"
  <2>1. Plain(Condition("status", "eq", "notified"))
    BY PlainConditions DEF Statuses
  <2>2. /\ PlainQuery(q1)
        /\ \A r : Asks(q1, r) <=> Asks(TimeRemindersOf(u), r) /\ SqlHolds(r, Condition("status", "eq", "notified"))
    BY <1>1, TimeRemindersAsks, <2>1, WhereAsks
  <2>3. \A r \in Row : SqlHolds(r, Condition("status", "eq", "notified")) <=> r.status = "notified"
    BY ColumnsAsked
  <2> QED
    BY TimeRemindersAsks, <2>2, <2>3
<1>3. PICK q : q = OrderBy(q1, "at", FALSE)
  OBVIOUS
<1>4. PlainQuery(q) /\ \A r : Asks(q, r) <=> Asks(q1, r)
  BY <1>2, <1>3, SortedAsks
<1>5. FindNotified(u) = q
  BY <1>1, <1>3 DEF FindNotified
<1> QED
  BY <1>2, <1>4, <1>5

LEMMA FindByStatusAsks ==
  ASSUME NEW u \in Owners, NEW st \in Statuses
  PROVE  /\ PlainQuery(FindByUserAndStatus(u, st))
         /\ \A r \in Row : Asks(FindByUserAndStatus(u, st), r)
               <=> r.owner = u /\ r.kind = "location" /\ r.status = st
<1>1. PICK q1 : q1 = Where(NewQuery, "eq", "owner", u)
  OBVIOUS
<1>2. PICK q2 : q2 = Where(q1, "eq", "kind", "location")
  OBVIOUS
<1>3. PICK q3 : q3 = Where(q2, "eq", "status", st)
  OBVIOUS
<1>4. /\ PlainQuery(q1)
      /\ \A r \in Row : Asks(q1, r) <=> r.owner = u
  <2>1. Plain(Condition("owner", "eq", u))
    BY PlainConditions, StoresAssumption
  <2>2. /\ PlainQuery(q1)
        /\ \A r : Asks(q1, r) <=> Asks(NewQuery, r) /\ SqlHolds(r, Condition("owner", "eq", u))
    BY <1>1, NewAsks, <2>1, WhereAsks
  <2>3. \A r \in Row : SqlHolds(r, Condition("owner", "eq", u)) <=> r.owner = u
    BY ColumnsAsked
  <2> QED
    BY NewAsks, <2>2, <2>3
<1>5. /\ PlainQuery(q2)
      /\ \A r \in Row : Asks(q2, r) <=> r.owner = u /\ r.kind = "location"
  <2>1. Plain(Condition("kind", "eq", "location"))
    BY PlainConditions
  <2>2. /\ PlainQuery(q2)
        /\ \A r : Asks(q2, r) <=> Asks(q1, r) /\ SqlHolds(r, Condition("kind", "eq", "location"))
    BY <1>2, <1>4, <2>1, WhereAsks
  <2>3. \A r \in Row : SqlHolds(r, Condition("kind", "eq", "location")) <=> r.kind = "location"
    BY ColumnsAsked
  <2> QED
    BY <1>4, <2>2, <2>3
<1>6. /\ PlainQuery(q3)
      /\ \A r \in Row : Asks(q3, r) <=> r.owner = u /\ r.kind = "location" /\ r.status = st
  <2>1. Plain(Condition("status", "eq", st))
    BY PlainConditions
  <2>2. /\ PlainQuery(q3)
        /\ \A r : Asks(q3, r) <=> Asks(q2, r) /\ SqlHolds(r, Condition("status", "eq", st))
    BY <1>3, <1>5, <2>1, WhereAsks
  <2>3. \A r \in Row : SqlHolds(r, Condition("status", "eq", st)) <=> r.status = st
    BY ColumnsAsked
  <2> QED
    BY <1>5, <2>2, <2>3
<1>7. PICK q : q = OrderBy(q3, "created", TRUE)
  OBVIOUS
<1>8. PlainQuery(q) /\ \A r : Asks(q, r) <=> Asks(q3, r)
  BY <1>6, <1>7, SortedAsks
<1>9. FindByUserAndStatus(u, st) = q
  BY <1>1, <1>2, <1>3, <1>7 DEF FindByUserAndStatus
<1> QED
  BY <1>6, <1>8, <1>9

\* the reminders of u that still count, in the order of their times
Active(u) ==
    OrderBy(Where(TimeRemindersOf(u), "in", "status", {"pending", "notified"}), "at", FALSE)

LEMMA ActiveAsks ==
  ASSUME NEW u \in Owners
  PROVE  /\ PlainQuery(Active(u))
         /\ \A r \in Row : Asks(Active(u), r)
               <=> r.owner = u /\ r.kind = "time" /\ r.status \in {"pending", "notified"}
<1>1. PICK S : S = {"pending", "notified"}
  OBVIOUS
<1>2. PICK q1 : q1 = Where(TimeRemindersOf(u), "in", "status", S)
  OBVIOUS
<1>3. /\ PlainQuery(q1)
      /\ \A r \in Row : Asks(q1, r) <=> r.owner = u /\ r.kind = "time" /\ r.status \in S
  <2>1. Plain(Condition("status", "in", S))
    BY <1>1, PlainConditions
  <2>2. /\ PlainQuery(q1)
        /\ \A r : Asks(q1, r) <=> Asks(TimeRemindersOf(u), r) /\ SqlHolds(r, Condition("status", "in", S))
    BY <1>2, TimeRemindersAsks, <2>1, WhereAsks
  <2>3. \A r \in Row : SqlHolds(r, Condition("status", "in", S)) <=> r.status \in S
    BY ColumnsAsked
  <2> QED
    BY TimeRemindersAsks, <2>2, <2>3
<1>4. PICK q : q = OrderBy(q1, "at", FALSE)
  OBVIOUS
<1>5. PlainQuery(q) /\ \A r : Asks(q, r) <=> Asks(q1, r)
  BY <1>3, <1>4, SortedAsks
<1>6. Active(u) = q
  BY <1>1, <1>2, <1>4 DEF Active
<1> QED
  BY <1>1, <1>3, <1>5, <1>6

LEMMA WithinDayAsks ==
  ASSUME NEW q, PlainQuery(q), NEW t \in Nat
  PROVE  /\ PlainQuery(WithinDay(q, UtcDayBounds(t)))
         /\ \A r \in Row : Asks(WithinDay(q, UtcDayBounds(t)), r)
               <=> Asks(q, r) /\ r.at # None /\ r.at \div DayLength = t \div DayLength
<1>1. PICK day : day = UtcDayBounds(t)
  OBVIOUS
<1>2. PICK n \in Nat : n = t \div DayLength
  BY StoresAssumption
<1>3. day.start = n * DayLength /\ day.end = n * DayLength + DayLength
  BY <1>1, <1>2 DEF UtcDayBounds
<1>4. PICK q1 : q1 = Where(q, "gte", "at", day.start)
  OBVIOUS
<1>5. PICK q2 : q2 = Where(q1, "lt", "at", day.end)
  OBVIOUS
<1>6. /\ PlainQuery(q1)
      /\ \A r \in Row : Asks(q1, r) <=> Asks(q, r) /\ r.at # None /\ r.at >= day.start
  <2>1. Plain(Condition("at", "gte", day.start))
    BY PlainConditions DEF Ranges
  <2>2. /\ PlainQuery(q1)
        /\ \A r : Asks(q1, r) <=> Asks(q, r) /\ SqlHolds(r, Condition("at", "gte", day.start))
    BY <1>4, <2>1, WhereAsks
  <2>3. \A r \in Row : SqlHolds(r, Condition("at", "gte", day.start)) <=> r.at # None /\ r.at >= day.start
    BY ColumnsAsked
  <2> QED
    BY <2>2, <2>3
<1>7. /\ PlainQuery(q2)
      /\ \A r \in Row : Asks(q2, r)
            <=> Asks(q, r) /\ r.at # None /\ r.at >= day.start /\ r.at < day.end
  <2>1. Plain(Condition("at", "lt", day.end))
    BY PlainConditions DEF Ranges
  <2>2. /\ PlainQuery(q2)
        /\ \A r : Asks(q2, r) <=> Asks(q1, r) /\ SqlHolds(r, Condition("at", "lt", day.end))
    BY <1>5, <1>6, <2>1, WhereAsks
  <2>3. \A r \in Row : SqlHolds(r, Condition("at", "lt", day.end)) <=> r.at # None /\ r.at < day.end
    BY ColumnsAsked
  <2> QED
    BY <1>6, <2>2, <2>3
<1>8. \A r \in Row : r.at # None =>
         (r.at >= day.start /\ r.at < day.end <=> r.at \div DayLength = n)
  <2> SUFFICES ASSUME NEW r \in Row, r.at # None
               PROVE  r.at >= day.start /\ r.at < day.end <=> r.at \div DayLength = n
    OBVIOUS
  <2>1. PICK x \in Nat : x = r.at
    BY StoresAssumption DEF Row
  <2>2. (x >= n * DayLength /\ x < n * DayLength + DayLength) <=> x \div DayLength = n
    BY SameDay, StoresAssumption
  <2> QED
    BY <1>3, <2>1, <2>2
<1>9. WithinDay(q, day) = q2
  BY <1>4, <1>5 DEF WithinDay
<1> QED
  BY <1>1, <1>2, <1>7, <1>8, <1>9

LEMMA FindActiveAsks ==
  ASSUME NEW u \in Owners, NEW moment \in Nat
  PROVE  /\ FindActiveByUser(u, "all", moment) = Active(u)
         /\ FindActiveByUser(u, "today", moment) = WithinDay(Active(u), UtcDayBounds(moment))
         /\ FindActiveByUser(u, "tomorrow", moment)
               = WithinDay(Active(u), UtcDayBounds(moment + DayLength))
         /\ (moment + DayLength) \div DayLength = moment \div DayLength + 1
         /\ moment + DayLength \in Nat
<1>1. FindActiveByUser(u, "all", moment) = Active(u)
  BY DEF FindActiveByUser, Active
<1>2. FindActiveByUser(u, "today", moment) = WithinDay(Active(u), UtcDayBounds(moment))
  BY DEF FindActiveByUser, Active
<1>3. FindActiveByUser(u, "tomorrow", moment)
         = WithinDay(Active(u), UtcDayBounds(moment + DayLength))
  BY DEF FindActiveByUser, Active
<1>4. PICK n \in Nat : n = moment \div DayLength
  BY StoresAssumption
<1>5. PICK x \in Nat : x = moment + DayLength
  BY StoresAssumption
<1>6. moment >= n * DayLength /\ moment < n * DayLength + DayLength
  BY <1>4, SameDay, StoresAssumption
<1>7. x >= (n + 1) * DayLength /\ x < (n + 1) * DayLength + DayLength
  <2>1. (n + 1) * DayLength = n * DayLength + DayLength
    BY StoresAssumption
  <2>2. n * DayLength \in Int /\ DayLength \in Int
    BY StoresAssumption
  <2> QED
    BY <1>5, <1>6, <2>1, <2>2
<1>8. x \div DayLength = n + 1
  BY <1>7, SameDay, StoresAssumption
<1> QED
  BY <1>1, <1>2, <1>3, <1>4, <1>5, <1>8

\* what a driver that can evaluate the query selects
LEMMA Answered ==
  ASSUME RowsType, NEW d \in {"postgres", "mongo", "memory"}, NEW q, PlainQuery(q),
         d = "postgres" \/ Portable(d, q.conditions)
  PROVE  SelectedBy(d, q.conditions) = {i \in Present : Asks(q, rows[i])}
<1>1. DOMAIN q.conditions \subseteq Int /\ \A k \in DOMAIN q.conditions : Plain(q.conditions[k])
  <2>1. PICK cs, field, desc : q = QueryOf(cs, field, desc) /\ PlainSeq(cs)
    BY DEF PlainQuery
  <2>2. q.conditions = cs
    BY <2>1 DEF QueryOf
  <2>3. DOMAIN cs = 1..Len(cs) /\ Len(cs) \in Nat
    BY <2>1, AppendIs DEF PlainSeq
  <2> QED
    BY <2>1, <2>2, <2>3 DEF PlainSeq
<1>2. \A i \in Present : rows[i] \in Row
  BY DEF RowsType, Present, Stored
<1>3. \A i \in Present : Selects(d, rows[i], q.conditions) <=> Asks(q, rows[i])
  BY <1>1, <1>2, SelectsAlike DEF Asks
<1> QED
  BY <1>3 DEF SelectedBy

\* equality on a field not yet asked for is within every driver's reach
LEMMA WherePortable ==
  ASSUME NEW d, NEW q, PlainQuery(q), Portable(d, q.conditions),
         NEW f, f \notin Fields(q), NEW value
  PROVE  Portable(d, Where(q, "eq", f, value).conditions)
<1>1. PICK c : c = Condition(f, "eq", value)
  OBVIOUS
<1>2. PICK cs, field, desc : q = QueryOf(cs, field, desc) /\ PlainSeq(cs)
  BY DEF PlainQuery
<1>3. PICK ds : ds = Append(cs, c)
  OBVIOUS
<1>4. PICK n \in Nat : n = Len(cs)
  BY <1>2, AppendIs DEF PlainSeq
<1>5. /\ DOMAIN cs = 1..n /\ DOMAIN ds = 1..(n + 1)
      /\ \A k \in 1..n : ds[k] = cs[k]
      /\ ds[n + 1] = c
  BY <1>2, <1>3, <1>4, AppendIs DEF PlainSeq
<1>6. 1..(n + 1) = 1..n \cup {n + 1}
  OBVIOUS
<1>7. q.conditions = cs /\ Where(q, "eq", f, value).conditions = ds
  <2>1. Where(q, "eq", f, value) = QueryOf(ds, field, desc)
    BY <1>1, <1>2, <1>3, WhereIs
  <2> QED
    BY <1>2, <2>1 DEF QueryOf
<1>8. c.field = f /\ c.op = "eq"
  BY <1>1 DEF Condition
<1>9. \A k \in 1..n : cs[k].field # f
  BY <1>5, <1>7 DEF Fields
<1>10. ASSUME NEW k \in 1..(n + 1)
       PROVE  /\ \A l \in 1..(n + 1) : ds[l].field = ds[k].field => l = k
              /\ d # "postgres" => ds[k].op # "ne" \/ ds[k].field \notin Nullable
              /\ d = "mongo" => ds[k].op # "like"
              /\ d = "memory" => ds[k].op \notin Ranges
  <2>1. CASE k = n + 1
    BY <1>5, <1>6, <1>8, <1>9, <2>1 DEF Ranges
  <2>2. CASE k \in 1..n
    <3>1. /\ \A l \in 1..n : cs[l].field = cs[k].field => l = k
          /\ d # "postgres" => cs[k].op # "ne" \/ cs[k].field \notin Nullable
          /\ d = "mongo" => cs[k].op # "like"
          /\ d = "memory" => cs[k].op \notin Ranges
      BY <1>5, <1>7, <2>2 DEF Portable
    <3> QED
      BY <1>5, <1>6, <1>8, <1>9, <2>2, <3>1
  <2> QED
    BY <1>6, <2>1, <2>2
<1> QED
  BY <1>5, <1>7, <1>10 DEF Portable

LEMMA NotifiedPortable ==
  ASSUME NEW d, NEW u \in Owners
  PROVE  Portable(d, FindNotified(u).conditions)
<1>1. PICK q1 : q1 = Where(NewQuery, "eq", "owner", u)
  OBVIOUS
<1>2. Portable(d, NewQuery.conditions)
  <2>1. NewQuery.conditions = <<>> /\ DOMAIN <<>> = {}
    BY DEF NewQuery
  <2> QED
    BY <2>1 DEF Portable
<1>3. PlainQuery(q1) /\ Fields(q1) = {"owner"} /\ Portable(d, q1.conditions)
  <2>1. PlainQuery(NewQuery) /\ Fields(NewQuery) = {}
    BY NewAsks
  <2>2. Plain(Condition("owner", "eq", u))
    BY PlainConditions, StoresAssumption
  <2>3. PlainQuery(q1) /\ Fields(q1) = {} \cup {"owner"}
    BY <1>1, <2>1, <2>2, WhereAsks
  <2>4. Portable(d, q1.conditions)
    BY <1>1, <1>2, <2>1, WherePortable
  <2> QED
    BY <2>3, <2>4
<1>4. PICK q2 : q2 = TimeRemindersOf(u)
  OBVIOUS
<1>5. q2 = Where(q1, "eq", "kind", "time")
  BY <1>1, <1>4 DEF TimeRemindersOf
<1>6. PlainQuery(q2) /\ Fields(q2) = {"owner", "kind"} /\ Portable(d, q2.conditions)
  <2>1. PlainQuery(q2) /\ Fields(q2) = {"owner", "kind"}
    BY <1>4, TimeRemindersAsks
  <2>2. "kind" \notin Fields(q1)
    BY <1>3
  <2>3. Portable(d, q2.conditions)
    BY <1>3, <1>5, <2>2, WherePortable
  <2> QED
    BY <2>1, <2>3
<1>7. PICK q3 : q3 = Where(q2, "eq", "status", "notified")
  OBVIOUS
<1>8. PlainQuery(q3) /\ Portable(d, q3.conditions)
  BY <1>6, <1>7, WhereAsks, WherePortable, PlainConditions DEF Statuses
<1>9. FindNotified(u).conditions = q3.conditions
  <2>1. PICK cs, field, desc : q3 = QueryOf(cs, field, desc) /\ PlainSeq(cs)
    BY <1>8 DEF PlainQuery
  <2>2. FindNotified(u) = OrderBy(q3, "at", FALSE)
    BY <1>4, <1>7 DEF FindNotified
  <2>3. OrderBy(q3, "at", FALSE).conditions = cs
    BY <2>1 DEF OrderBy, QueryOf
  <2> QED
    BY <2>1, <2>2, <2>3 DEF QueryOf
<1> QED
  BY <1>8, <1>9

LEMMA QuestionsHold == TimedInv => QuestionsAreAnswered
<1> SUFFICES ASSUME TimedInv, NEW d \in Drivers
             PROVE  /\ \A q \in Questions :
                          (d = "postgres" \/ Portable(d, q.query))
                             => SelectedBy(d, q.query) = q.means
                    /\ \A u \in Owners :
                          PendingDelivery(d, u) =
                             {i \in TimeOf(u) : rows[i].status = "notified"
                                                 /\ ~rows[i].delivered}
  BY DEF QuestionsAreAnswered
<1>1. d \in {"postgres", "mongo", "memory"} /\ RowsType
  BY StoresAssumption DEF TimedInv, ClaimInv
<1>2. \A i \in Present : rows[i] \in Row /\ (rows[i].kind = "time" => rows[i].at # None)
  BY <1>1 DEF RowsType, TimedInv, Timed, Present, Stored
<1>3. ASSUME NEW moment \in Times, d = "postgres" \/ Portable(d, FindDue(moment).conditions)
      PROVE  SelectedBy(d, FindDue(moment).conditions)
                = DueAt(moment)
  <2>1. PICK q : q = FindDue(moment)
    OBVIOUS
  <2>2. SelectedBy(d, q.conditions) = {i \in Present : Asks(q, rows[i])}
    BY <1>1, <1>3, <2>1, FindDueAsks, Answered
  <2> QED
    BY <1>2, <2>1, <2>2, FindDueAsks DEF DueAt
<1>4. ASSUME NEW u \in Owners,
             d = "postgres" \/ Portable(d, FindActiveByUser(u, "all", 0).conditions)
      PROVE  SelectedBy(d, FindActiveByUser(u, "all", 0).conditions)
                = ActiveOf(u)
  <2>1. PICK q : q = Active(u)
    OBVIOUS
  <2>2. FindActiveByUser(u, "all", 0) = q
    BY <2>1, FindActiveAsks
  <2>3. SelectedBy(d, q.conditions) = {i \in Present : Asks(q, rows[i])}
    BY <1>1, <1>4, <2>1, <2>2, ActiveAsks, Answered
  <2> QED
    BY <1>2, <2>1, <2>2, <2>3, ActiveAsks DEF ActiveOf, TimeOf
<1>5. ASSUME NEW u \in Owners, NEW moment \in Times,
             d = "postgres" \/ Portable(d, FindActiveByUser(u, "today", moment).conditions)
      PROVE  SelectedBy(d, FindActiveByUser(u, "today", moment).conditions)
                = OnDay(u, moment \div DayLength)
  <2>1. PICK q : q = WithinDay(Active(u), UtcDayBounds(moment))
    OBVIOUS
  <2>2. moment \in Nat /\ FindActiveByUser(u, "today", moment) = q
    BY <2>1, FindActiveAsks, StoresAssumption
  <2>3. /\ PlainQuery(q)
        /\ \A r \in Row : Asks(q, r) <=> /\ r.owner = u /\ r.kind = "time"
                                         /\ r.status \in {"pending", "notified"}
                                         /\ r.at # None
                                         /\ r.at \div DayLength = moment \div DayLength
    BY <2>1, <2>2, ActiveAsks, WithinDayAsks
  <2>4. SelectedBy(d, q.conditions) = {i \in Present : Asks(q, rows[i])}
    BY <1>1, <1>5, <2>2, <2>3, Answered
  <2> QED
    BY <1>2, <2>2, <2>3, <2>4 DEF OnDay, ActiveOf, TimeOf
<1>6. ASSUME NEW u \in Owners, NEW moment \in Times,
             d = "postgres" \/ Portable(d, FindActiveByUser(u, "tomorrow", moment).conditions)
      PROVE  SelectedBy(d, FindActiveByUser(u, "tomorrow", moment).conditions)
                = OnDay(u, moment \div DayLength + 1)
  <2>1. PICK t : t = moment + DayLength
    OBVIOUS
  <2>2. PICK q : q = WithinDay(Active(u), UtcDayBounds(t))
    OBVIOUS
  <2>3. /\ t \in Nat /\ t \div DayLength = moment \div DayLength + 1
        /\ FindActiveByUser(u, "tomorrow", moment) = q
    BY <2>1, <2>2, FindActiveAsks, StoresAssumption
  <2>4. /\ PlainQuery(q)
        /\ \A r \in Row : Asks(q, r) <=> /\ r.owner = u /\ r.kind = "time"
                                         /\ r.status \in {"pending", "notified"}
                                         /\ r.at # None
                                         /\ r.at \div DayLength = t \div DayLength
    BY <2>2, <2>3, ActiveAsks, WithinDayAsks
  <2>5. SelectedBy(d, q.conditions) = {i \in Present : Asks(q, rows[i])}
    BY <1>1, <1>6, <2>3, <2>4, Answered
  <2> QED
    BY <1>2, <2>3, <2>4, <2>5 DEF OnDay, ActiveOf, TimeOf
<1>7. ASSUME NEW u \in Owners, NEW w \in Words,
             d = "postgres" \/ Portable(d, FindPendingByUserAndMessage(u, w).conditions)
      PROVE  SelectedBy(d, FindPendingByUserAndMessage(u, w).conditions)
                = PendingAbout(u, w)
  <2>1. PICK q : q = FindPendingByUserAndMessage(u, w)
    OBVIOUS
  <2>2. SelectedBy(d, q.conditions) = {i \in Present : Asks(q, rows[i])}
    BY <1>1, <1>7, <2>1, FindPendingAsks, Answered
  <2> QED
    BY <1>2, <2>1, <2>2, FindPendingAsks DEF PendingAbout, TimeOf
<1>8. ASSUME NEW u \in Owners, NEW st \in Statuses,
             d = "postgres" \/ Portable(d, FindByUserAndStatus(u, st).conditions)
      PROVE  SelectedBy(d, FindByUserAndStatus(u, st).conditions)
                = PlacesOf(u, st)
  <2>1. PICK q : q = FindByUserAndStatus(u, st)
    OBVIOUS
  <2>2. SelectedBy(d, q.conditions) = {i \in Present : Asks(q, rows[i])}
    BY <1>1, <1>8, <2>1, FindByStatusAsks, Answered
  <2> QED
    BY <1>2, <2>1, <2>2, FindByStatusAsks DEF PlacesOf
<1>9. ASSUME NEW u \in Owners
      PROVE  PendingDelivery(d, u) =
                {i \in TimeOf(u) : rows[i].status = "notified" /\ ~rows[i].delivered}
  <2>1. PICK q : q = FindNotified(u)
    OBVIOUS
  <2>2. SelectedBy(d, q.conditions) = {i \in Present : Asks(q, rows[i])}
    BY <1>1, <2>1, FindNotifiedAsks, NotifiedPortable, Answered
  <2>3. PendingDelivery(d, u) = {i \in SelectedBy(d, q.conditions) : ~rows[i].delivered}
    BY <2>1 DEF PendingDelivery, Selected, SelectedBy
  <2> QED
    BY <1>2, <2>1, <2>2, <2>3, FindNotifiedAsks DEF TimeOf
<1>10. ASSUME NEW q \in Questions, d = "postgres" \/ Portable(d, q.query)
       PROVE  SelectedBy(d, q.query) = q.means
  <2>1. \A p, m : Question(p, m).query = p.conditions /\ Question(p, m).means = m
    BY DEF Question
  <2>2. CASE \E moment \in Times : q = Question(FindDue(moment), DueAt(moment))
    BY <1>3, <1>10, <2>1, <2>2
  <2>3. CASE \E u \in Owners : q = Question(FindActiveByUser(u, "all", 0), ActiveOf(u))
    BY <1>4, <1>10, <2>1, <2>3
  <2>4. CASE \E u \in Owners, moment \in Times :
                q = Question(FindActiveByUser(u, "today", moment), OnDay(u, moment \div DayLength))
    BY <1>5, <1>10, <2>1, <2>4
  <2>5. CASE \E u \in Owners, moment \in Times :
                q = Question(FindActiveByUser(u, "tomorrow", moment),
                             OnDay(u, moment \div DayLength + 1))
    BY <1>6, <1>10, <2>1, <2>5
  <2>6. CASE \E u \in Owners, w \in Words :
                q = Question(FindPendingByUserAndMessage(u, w), PendingAbout(u, w))
    BY <1>7, <1>10, <2>1, <2>6
  <2>7. CASE \E u \in Owners, st \in Statuses :
                q = Question(FindByUserAndStatus(u, st), PlacesOf(u, st))
    BY <1>8, <1>10, <2>1, <2>7
  <2> QED
    BY <2>2, <2>3, <2>4, <2>5, <2>6, <2>7 DEF Questions
<1> QED
  BY <1>9, <1>10

LEMMA TimedInit == StoresInit => TimedInv
  BY ClaimInitInv DEF StoresInit, TimedInv, Timed

LEMMA NewRowsTimed == \A r \in NewRows : Timed(r)
<1>1. \A u, x : \A t \in Times : Timed(NewRow(u, "time", t, x))
  BY StoresAssumption DEF NewRow, Timed
<1>2. \A u, x : Timed(NewRow(u, "user", None, x)) /\ Timed(NewRow(u, "location", None, x))
  BY DEF NewRow, Timed
<1>3. CASE schema = "users"
  BY <1>2, <1>3 DEF NewRows
<1>4. CASE schema # "users"
  BY <1>1, <1>2, <1>4 DEF NewRows
<1> QED
  BY <1>3, <1>4

\* only the status and the delivery of a reminder are written again
LEMMA TimedStep == TimedInv /\ [StoresNext]_storesVars => TimedInv'
<1> SUFFICES ASSUME TimedInv, [StoresNext]_storesVars
             PROVE  \A i \in Ids : Timed(rows'[i]) /\ Timed(tx'[i])
  BY ClaimStep DEF TimedInv, Timed
<1>1. RowsType /\ ClaimInv /\ \A i \in Ids : Timed(rows[i]) /\ Timed(tx[i])
  BY DEF TimedInv, ClaimInv
<1>2. Timed(None)
  BY DEF Timed
<1>3. CASE UNCHANGED <<rows, tx>>
  BY <1>1, <1>3
<1>4. ASSUME NEW i \in Ids, NEW r \in NewRows, Begin(i, r) \/ Create(i, r)
      PROVE  \A j \in Ids : Timed(rows'[j]) /\ Timed(tx'[j])
  BY <1>1, <1>4, NewRowsTimed DEF Begin, Create, RowsType
<1>5. ASSUME NEW i \in Ids, Commit(i) \/ Rollback(i) \/ Delete(i)
      PROVE  \A j \in Ids : Timed(rows'[j]) /\ Timed(tx'[j])
  BY <1>1, <1>2, <1>5 DEF Commit, Rollback, Delete, RowsType
<1>6. ASSUME NEW i \in Ids, NEW status \in Statuses, NEW delivered \in BOOLEAN,
             Update(i, status, delivered)
      PROVE  \A j \in Ids : Timed(rows'[j]) /\ Timed(tx'[j])
  <2>1. rows[i] \in Row
    BY <1>1, <1>6 DEF Update, Stored, RowsType
  <2>2. PICK r : r = [rows[i] EXCEPT !.status = status, !.delivered = delivered]
    OBVIOUS
  <2>3. r.kind = rows[i].kind /\ r.at = rows[i].at
    BY <2>1, <2>2 DEF Row
  <2>4. Timed(r)
    BY <1>1, <1>6, <2>3 DEF Timed, Update, Stored
  <2>5. rows' = [rows EXCEPT ![i] = r] /\ tx' = tx
    BY <1>1, <1>6, <2>2 DEF Update, RowsType
  <2> QED
    BY <1>1, <2>4, <2>5 DEF RowsType
<1>7. ASSUME NEW i \in Ids, rows[i] # None, SetNotified(i), UNCHANGED tx
      PROVE  \A j \in Ids : Timed(rows'[j]) /\ Timed(tx'[j])
  <2>1. rows[i] \in Row
    BY <1>1, <1>7 DEF RowsType
  <2>2. PICK r : r = [rows[i] EXCEPT !.status = "notified"]
    OBVIOUS
  <2>3. r.kind = rows[i].kind /\ r.at = rows[i].at
    BY <2>1, <2>2 DEF Row
  <2>4. Timed(r)
    BY <1>1, <1>7, <2>3 DEF Timed
  <2>5. rows' = [rows EXCEPT ![i] = r] /\ tx' = tx
    BY <1>1, <1>7, <2>2 DEF SetNotified, RowsType
  <2> QED
    BY <1>1, <2>4, <2>5 DEF RowsType
<1>8. ASSUME NEW c \in Claimers, WriteLocked(c)
      PROVE  \A j \in Ids : Timed(rows'[j]) /\ Timed(tx'[j])
  BY <1>1, <1>7, <1>8 DEF WriteLocked, ClaimInv, RowsType
<1>9. CASE ClaimAtOnce
  <2>1. PICK s \in Sorted(Selected(driver, Claimable), Claimable.order, Claimable.desc) :
           1 \in DOMAIN s /\ SetNotified(s[1])
    BY <1>9 DEF ClaimAtOnce
  <2>2. s[1] \in Ids /\ rows[s[1]] # None
    BY <1>1, <2>1, ClaimablePending DEF Sorted, ClaimInv, RowsType
  <2>3. UNCHANGED tx
    BY <1>9 DEF ClaimAtOnce
  <2> QED
    BY <1>7, <2>1, <2>2, <2>3
<1>10. CASE Tick \/ FindPage \/ CountAll \/ (\E n \in 0..(MaxPage + 1) : StartWalk(n))
            \/ (\E c \in Claimers : LockRow(c)) \/ UNCHANGED storesVars
  BY <1>3, <1>10 DEF Tick, FindPage, CountAll, StartWalk, LockRow, storesVars
<1> QED
  BY <1>4, <1>5, <1>6, <1>8, <1>9, <1>10 DEF StoresNext

\* whatever the driver, each question of the repositories selects the records it
\* means, as long as the driver can evaluate the query
THEOREM StoresQuestions == StoresSpec => []QuestionsAreAnswered
  BY QuestionsHold, TimedInit, TimedStep, PTL DEF StoresSpec

\* the same of the questions of the whole back end
THEOREM BackendQuestions == BackendSpec => []QuestionsAreAnswered
  BY BackendHoldsStores, StoresQuestions, PTL

=============================================================================
