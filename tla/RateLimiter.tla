----------------------------- MODULE RateLimiter -----------------------------
(***************************************************************************)
(* The rate limiter (src/pkg/ratelimit, src/internal/middleware): a fixed  *)
(* window for each key, in the process or in Redis.  The router installs   *)
(* it for every route before anybody is authenticated                      *)
(* (src/internal/app/app.go), so the key of a request is always its remote *)
(* address, here the connection.                                           *)
(*                                                                         *)
(* Allow is one step: the in-process limiter holds its mutex, and Redis    *)
(* runs the script on its own.                                             *)
(***************************************************************************)
EXTENDS Integers, FiniteSets

CONSTANTS
    Connections,  \* remote addresses, each with its port
    Limit,        \* RATE_LIMIT_REQUESTS
    Window,       \* RATE_LIMIT_WINDOW, in ticks
    Limiters,     \* "memory", "redis", or "off": RATE_LIMIT_ENABLED is false
    LastTick,     \* bound on the clock
    MaxCount,     \* bound on the requests of one window
    Absent        \* nil

ASSUME RateLimiterAssumption ==
    /\ Limit \in Nat \ {0} /\ Window \in Nat \ {0}
    /\ Limiters \subseteq {"memory", "redis", "off"}
    /\ LastTick \in Nat /\ MaxCount \in Nat /\ MaxCount > Limit
    /\ Absent \notin Connections /\ Absent \notin [count : Nat, resets : Nat]

VARIABLES
    limiter,   \* the limiter the container built
    now,       \* the clock
    windows,   \* the window of each key
    refused,   \* history: the last refusal of each key, with its Retry-After
    admitted   \* history: requests of a key let through in this tick and the n before

limiterVars == <<limiter, now, windows, refused, admitted>>

Instants == 0..LastTick
Ages == 0..Window
Until == 0..(LastTick + Window + 1)

WindowOf == [count : 1..MaxCount, resets : Until]
Refusal == [at : Instants, resets : Until, until : Until]

LimiterTypeOK ==
    /\ limiter \in Limiters /\ now \in Instants
    /\ windows \in [Connections -> WindowOf \cup {Absent}]
    /\ refused \in [Connections -> Refusal \cup {Absent}]
    /\ admitted \in [Connections -> [Ages -> Nat]]

LimiterInit ==
    /\ limiter \in Limiters
    /\ now = 0
    /\ windows = [k \in Connections |-> Absent]
    /\ refused = [k \in Connections |-> Absent]
    /\ admitted = [k \in Connections |-> [n \in Ages |-> 0]]

-----------------------------------------------------------------------------
\* the in-process limiter reopens a window strictly after it ended; the key in
\* Redis is gone as soon as its expiry has passed
Over(k) ==
    \/ windows[k] = Absent
    \/ limiter = "memory" /\ now > windows[k].resets
    \/ limiter = "redis" /\ now >= windows[k].resets

Counted(k) ==
    IF Over(k) THEN [count |-> 1, resets |-> now + Window]
               ELSE [windows[k] EXCEPT !.count = @ + 1]

\* mutant: the request that fills the budget is followed by one more
WithinLax(w) == w.count <= Limit + 1

Within(w) == w.count <= Limit

\* whole seconds, plus one
RetryAfter(w) == w.resets - now + 1

\* a history gains a request, and grows older by a tick
OneMore(f) == [n \in Ages |-> f[n] + 1]
Older(f) == [n \in Ages |-> IF n = 0 THEN 0 ELSE f[n - 1]]

Count(k) ==
    /\ limiter # "off"
    /\ Counted(k).count <= MaxCount
    /\ windows' = [windows EXCEPT ![k] = Counted(k)]
    /\ UNCHANGED <<limiter, now>>

Allow(k) ==
    /\ Count(k)
    /\ Within(Counted(k))
    /\ admitted' = [admitted EXCEPT ![k] = OneMore(@)]
    /\ UNCHANGED refused

\* too many requests
Refuse(k) ==
    /\ Count(k)
    /\ ~Within(Counted(k))
    /\ refused' = [refused EXCEPT ![k] =
                     [at |-> now, resets |-> Counted(k).resets,
                      until |-> now + RetryAfter(Counted(k))]]
    /\ UNCHANGED admitted

\* no limiter, or its script failed: an outage does not take down the API
Unlimited ==
    /\ limiter \in {"redis", "off"}
    /\ UNCHANGED limiterVars

Through(k) == Allow(k) \/ Unlimited

\* the janitor of the in-process limiter
Sweep ==
    /\ limiter = "memory"
    /\ \E k \in Connections : windows[k] # Absent /\ Over(k)
    /\ windows' = [k \in Connections |-> IF Over(k) THEN Absent ELSE windows[k]]
    /\ UNCHANGED <<limiter, now, refused, admitted>>

Pass ==
    /\ now < LastTick
    /\ now' = now + 1
    /\ admitted' = [k \in Connections |-> Older(admitted[k])]
    /\ UNCHANGED <<limiter, windows, refused>>

-----------------------------------------------------------------------------
\* the requests of a history in a window's length, this tick included
Lately(f) == f[Window - 1]

\* A fixed window lets a burst through on either side of its boundary: in any
\* stretch of time as long as the window fewer requests of a key than twice the
\* limit pass the limiter, since the request that opened the earlier window is
\* already too old.
FewerThanTwiceTheLimit ==
    \A k \in Connections : Lately(admitted[k]) < 2 * Limit

\* Nobody is refused who has not used up the limit in the window just past, and
\* a client that waits as long as Retry-After says finds that window closed.
RefusalsAreExplained ==
    \A k \in Connections :
       refused[k] # Absent =>
          /\ now = refused[k].at => admitted[k][Window] >= Limit
          /\ now >= refused[k].until => Over(k) \/ windows[k].resets > refused[k].resets

\* The limiter is fair, in the process and in Redis.
AdmissionsAreFair == FewerThanTwiceTheLimit /\ RefusalsAreExplained

=============================================================================
