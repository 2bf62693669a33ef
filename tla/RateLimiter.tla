---------------------------- MODULE RateLimiter ----------------------------
(***************************************************************************)
(* The token bucket of the RateLimit middleware (middleware/auth.go).      *)
(* A call takes the mutex, so it is one step.  Time is counted in ticks;   *)
(* what matters of it is the time since an address last called, which the  *)
(* limiter keeps as `last` and moves on every call, the refused ones too.  *)
(***************************************************************************)
EXTENDS Integers

CONSTANTS
    Address,    \* the keys of the buckets: remote addresses (RealIP, port)
    Rate,       \* requests per window
    Window,     \* the window, in ticks
    Horizon     \* bound: longer pauses are not told apart

ASSUME LimiterAssumption ==
    /\ Rate \in Nat \ {0}
    /\ Window \in Nat \ {0}
    /\ Horizon \in Nat
    /\ Horizon >= Window

VARIABLES
    tokens,     \* tokens of the bucket of an address, NoBucket before a call
    since,      \* ticks since the last call of the address
    served      \* history: admissions since the last pause of a window

limitvars == <<tokens, since, served>>

NoBucket == -1

LimiterInit ==
    /\ tokens = [a \in Address |-> NoBucket]
    /\ since = [a \in Address |-> 0]
    /\ served = [a \in Address |-> 0]

\* Seeded fault: the division is made after the multiplication.
EarnedLate(elapsed) == elapsed \div (Window * Rate)

\* elapsed / window is a division of integers: whole windows only.
Earned(elapsed) == (elapsed \div Window) * Rate

\* Seeded fault: nothing caps what a long pause earns.
Uncapped(n) == n

Capped(n) == IF n > Rate THEN Rate ELSE n

Refilled(a) ==
    IF tokens[a] = NoBucket THEN Rate ELSE Capped(tokens[a] + Earned(since[a]))

Paused(a) == tokens[a] = NoBucket \/ since[a] >= Window

Admit(a) ==
    /\ Refilled(a) > 0
    /\ tokens' = [tokens EXCEPT ![a] = Refilled(a) - 1]
    /\ since' = [since EXCEPT ![a] = 0]
    /\ served' = [served EXCEPT ![a] = IF Paused(a) THEN 1 ELSE @ + 1]

\* The refusal is answered with 429 and Retry-After.
Refuse(a) ==
    /\ Refilled(a) <= 0
    /\ tokens' = [tokens EXCEPT ![a] = Refilled(a)]
    /\ since' = [since EXCEPT ![a] = 0]
    /\ UNCHANGED served

Allow(a) == Admit(a) \/ Refuse(a)

Tick ==
    /\ since' = [a \in Address |-> IF since[a] < Horizon THEN since[a] + 1 ELSE since[a]]
    /\ UNCHANGED <<tokens, served>>

LimiterNext == Tick \/ \E a \in Address : Allow(a)

LimiterSpec == LimiterInit /\ [][LimiterNext]_limitvars

-----------------------------------------------------------------------------

\* Types of the limiter.
LimiterTypeOK ==
    /\ tokens \in [Address -> {NoBucket} \cup 0..Rate]
    /\ since \in [Address -> 0..Horizon]
    /\ served \in [Address -> Nat]

\* Allow, middleware/auth.go:148.  Between two pauses of a whole window an
\* address is admitted at most Rate times, however long that takes: neither a
\* burst nor patience short of a window gets it more.  This is stricter than
\* Rate per Window: a client that calls once per half window is admitted Rate
\* times and then never again, until it stops calling.
OneAllotmentPerPause == \A a \in Address : served[a] <= Rate

\* RateLimit, middleware/auth.go:170.  The Retry-After header is honest: an
\* address that stays away for a window is admitted when it comes back,
\* however often it was refused before.
PauseIsEnough ==
    [][\A a \in Address : Paused(a) /\ Allow(a) => Admit(a)]_limitvars

=============================================================================
