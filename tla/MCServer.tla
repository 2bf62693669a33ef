------------------------------ MODULE MCServer ------------------------------
(***************************************************************************)
(* Four parts of the server that share no state: the migrations of its     *)
(* start, the rate limiter, the request pipeline and the authentication    *)
(* service.  A property of one says nothing of the others, so a behaviour  *)
(* follows one of them, chosen by `focus`, while the others rest in their  *)
(* initial states: what is explored is the sum of the four, not their      *)
(* product.                                                                *)
(***************************************************************************)
EXTENDS Migrations, RateLimiter, Pipeline, AuthService

\* Two addresses, two requests a window of two ticks.
MCAddress == {1, 2}

\* A request and its retry.
CONSTANTS r1, r2
MCCall == {r1, r2}
MCKeyOf == [c \in MCCall |-> "transfers:k1"]

\* Two of three registrations give the same phone number.
CONSTANTS u1, u2, u3, h1, h2
MCSignup == {u1, u2, u3}
MCPhoneOf == [u \in MCSignup |-> IF u = u3 THEN "p2" ELSE "p1"]
MCHandler == {h1, h2}

VARIABLE focus

MCvars == <<focus, migvars, limitvars, pipevars, authvars>>

MCInit ==
    /\ focus \in {"migrations", "limiter", "pipeline", "auth"}
    /\ MigInit /\ LimiterInit /\ PipeInit /\ AuthInit
    /\ durable \/ focus = "pipeline"    \* a store in memory only where it matters

MigrationsMove ==
    focus = "migrations" /\ MigNext /\ UNCHANGED <<focus, limitvars, pipevars, authvars>>

LimiterMoves ==
    focus = "limiter" /\ LimiterNext /\ UNCHANGED <<focus, migvars, pipevars, authvars>>

PipelineMoves ==
    focus = "pipeline" /\ PipeNext /\ UNCHANGED <<focus, migvars, limitvars, authvars>>

AuthMoves ==
    focus = "auth" /\ AuthNext /\ UNCHANGED <<focus, migvars, limitvars, pipevars>>

MCNext == MigrationsMove \/ LimiterMoves \/ PipelineMoves \/ AuthMoves

\* A part at rest has no step that is fair, so the conditions ask nothing of it.
MCSpec == MCInit /\ [][MCNext]_MCvars /\ PipeFairness /\ AuthFairness

\* The types of the four parts.
ServerTypeOK == MigTypeOK /\ LimiterTypeOK /\ PipeTypeOK /\ AuthTypeOK

=============================================================================
