---------------------------- MODULE ServerProofs ----------------------------
(***************************************************************************)
(* Proofs about the parts of the server that MCServer puts side by side:   *)
(* Migrations, RateLimiter, Pipeline and AuthService, for any number of    *)
(* servers, addresses, requests, keys, phone numbers and attempts.         *)
(***************************************************************************)
EXTENDS MCServer, FiniteSetTheorems, TLAPS

----------------------------------------------------------------------------
(* Migrations.  The invariant says what a server knows of the database     *)
(* from the version it has come to.                                        *)

\* All versions before the one a server is at are recorded; inside a script,
\* the version is one there is, and its own COMMIT has been run.
Progress ==
    \A s \in Server :
        /\ ~At(s, "down") => Version(s) \in 1..6 /\ 1..(Version(s) - 1) \subseteq recorded
        /\ booting[s].at \in {"apply", "record", "commit"} => Version(s) \in Versions
        /\ booting[s].at \in {"record", "commit"} /\ Version(s) \in EndsTransaction =>
                Version(s) \in applied
        /\ At(s, "serving") => Version(s) = 6

\* Nobody gets past the fourth script.
FourthFails ==
    /\ 4 \notin recorded
    /\ \A s \in Server : booting[s].at \in {"record", "commit"} => Version(s) # 4

MigInv == MigTypeOK /\ RecordedIsApplied /\ Progress /\ FourthFails


\* Where a server is after Step.
LEMMA Stepped ==
    ASSUME MigTypeOK, NEW s \in Server, NEW at \in Boots, NEW v \in 0..6, Step(s, at, v)
    PROVE  /\ booting' \in [Server -> [at : Boots, version : 0..6]]
           /\ booting'[s].at = at /\ booting'[s].version = v
           /\ \A q \in Server \ {s} : booting'[q] = booting[q]
  BY DEF MigTypeOK, Step

\* With the first script applied, the fourth cannot be.
LEMMA AuditLogsTwice == 1 \in applied => Creates[4] \cap Objects # {}
  <1>1. Creates[4] = {"audit_logs"}
    BY DEF Creates
  <1>2. "audit_logs" \in CreatesIfMissing[1]
    BY DEF CreatesIfMissing, Versions
  <1> QED  BY <1>1, <1>2 DEF Objects

\* The initial state satisfies the invariant.
LEMMA InitMigInv == MigInit => MigInv
  BY DEF MigInit, MigInv, MigTypeOK, RecordedIsApplied, Progress, FourthFails,
         At, Version, Boots, Versions

\* Start, CheckVersion and Exit change what one server knows, and nothing of
\* the database.
LEMMA WatchKeeps ==
    ASSUME MigInv, NEW s \in Server, Start(s) \/ CheckVersion(s) \/ Exit(s)
    PROVE  MigInv'
  <1> USE DEF MigInv
  <1>1. UNCHANGED <<applied, recorded>>
    BY DEF Start, CheckVersion, Exit
  <1>2. booting[s].at \in Boots /\ Version(s) \in 0..6
    BY DEF MigTypeOK, Version
  <1>3. PICK at \in {"down", "check", "apply", "serving"}, v \in 0..6 :
            /\ Step(s, at, v)
            /\ at # "down" => v \in 1..6 /\ 1..(v - 1) \subseteq recorded
            /\ at = "apply" => v \in Versions
            /\ at = "serving" => v = 6
    <2>1. CASE Start(s)
      BY <2>1 DEF Start
    <2>2. CASE Exit(s)
      BY <2>2 DEF Exit
    <2>3. CASE CheckVersion(s)
      <3>1. Version(s) \in 1..6 /\ 1..(Version(s) - 1) \subseteq recorded
        BY <2>3 DEF CheckVersion, Progress, At
      <3>2. CASE Version(s) \notin Versions
        BY <2>3, <3>1, <3>2 DEF CheckVersion, MigTypeOK, RecordedIsApplied, Versions
      <3>3. CASE Version(s) \in Versions /\ Version(s) \in recorded
        <4>1. Step(s, "check", Version(s) + 1)
          BY <2>3, <3>3 DEF CheckVersion
        <4>2. 1..Version(s) \subseteq recorded
          BY <1>2, <3>1, <3>3
        <4> QED  BY <1>2, <3>3, <4>1, <4>2 DEF Versions
      <3>4. CASE Version(s) \in Versions /\ Version(s) \notin recorded
        BY <1>2, <2>3, <3>1, <3>4 DEF CheckVersion
      <3> QED  BY <3>2, <3>3, <3>4
    <2> QED  BY <2>1, <2>2, <2>3
  <1>4. /\ booting' \in [Server -> [at : Boots, version : 0..6]]
        /\ booting'[s].at = at /\ booting'[s].version = v
        /\ \A q \in Server \ {s} : booting'[q] = booting[q]
    <2>1. MigTypeOK /\ at \in Boots /\ Step(s, at, v)
      BY <1>3 DEF Boots
    <2> QED  BY <2>1, Stepped
  <1>5. MigTypeOK' /\ RecordedIsApplied'
    BY <1>1, <1>4 DEF MigTypeOK, RecordedIsApplied
  <1>6. Progress'
    BY <1>1, <1>3, <1>4 DEF Progress, At, Version
  <1>7. FourthFails'
    BY <1>1, <1>3, <1>4 DEF FourthFails, Version
  <1> QED  BY <1>5, <1>6, <1>7

\* Apply runs the script; the fourth fails, because the first is recorded.
LEMMA ApplyKeeps ==
    ASSUME MigInv, NEW s \in Server, Apply(s)
    PROVE  MigInv'
  <1> USE DEF MigInv
  <1> DEFINE v == Version(s)
  <1>1. /\ At(s, "apply") /\ Creates[v] \cap Objects = {}
        /\ Step(s, "record", v)
        /\ applied' = IF v \in EndsTransaction THEN applied \cup {v} ELSE applied
        /\ recorded' = recorded
    BY DEF Apply
  <1>2. v \in 1..6 /\ 1..(v - 1) \subseteq recorded /\ v \in Versions
    BY <1>1 DEF Progress, At
  <1>3. v # 4
    <2>1. v = 4 => 1 \in applied
      BY <1>2 DEF RecordedIsApplied
    <2> QED  BY <1>1, <2>1, AuditLogsTwice
  <1>4. /\ booting' \in [Server -> [at : Boots, version : 0..6]]
        /\ booting'[s].at = "record" /\ booting'[s].version = v
        /\ \A q \in Server \ {s} : booting'[q] = booting[q]
    <2>1. MigTypeOK /\ "record" \in Boots /\ v \in 0..6
      BY <1>2 DEF Boots
    <2> QED  BY <1>1, <2>1, Stepped
  <1>5. MigTypeOK' /\ RecordedIsApplied'
    BY <1>1, <1>2, <1>4 DEF MigTypeOK, RecordedIsApplied
  <1>6. Progress'
    BY <1>1, <1>2, <1>4 DEF Progress, At, Version
  <1>7. FourthFails'
    BY <1>1, <1>3, <1>4 DEF FourthFails, Version
  <1> QED  BY <1>5, <1>6, <1>7

\* Record and CommitMigration record a version that has been applied, or is
\* with it.
LEMMA RecordKeeps ==
    ASSUME MigInv, NEW s \in Server, Record(s) \/ CommitMigration(s)
    PROVE  MigInv'
  <1> USE DEF MigInv
  <1> DEFINE v == Version(s)
  <1>1. booting[s].at \in {"record", "commit"}
    BY DEF Record, CommitMigration, At
  <1>2. /\ v \in 1..5 /\ 1..(v - 1) \subseteq recorded /\ v \in Versions /\ v # 4
        /\ v \in EndsTransaction => v \in applied
    BY <1>1 DEF Progress, FourthFails, At, Versions
  <1>3. PICK at \in {"check", "commit"}, w \in {v, v + 1} :
            /\ Step(s, at, w)
            /\ at = "commit" => w = v
            /\ w = v + 1 => v \in recorded'
    <2>1. CASE Record(s)
      <3>1. Step(s, "commit", v)
        BY <2>1 DEF Record
      <3>2. v # v + 1
        BY <1>2
      <3> QED  BY <3>1, <3>2
    <2>2. CASE CommitMigration(s)
      <3>1. Step(s, "check", v + 1) /\ v \in recorded'
        BY <2>2 DEF CommitMigration
      <3> QED  BY <3>1
    <2> QED  BY <2>1, <2>2
  <1>4. /\ recorded' \in {recorded, recorded \cup {v}}
        /\ applied' \in {applied, applied \cup {v}}
        /\ v \in recorded' /\ v \notin recorded => v \in applied'
        /\ v \in applied' /\ v \notin applied => v \in recorded'
    BY <1>2 DEF Record, CommitMigration
  <1>5. /\ booting' \in [Server -> [at : Boots, version : 0..6]]
        /\ booting'[s].at = at /\ booting'[s].version = w
        /\ \A q \in Server \ {s} : booting'[q] = booting[q]
    <2>1. MigTypeOK /\ at \in Boots /\ w \in 0..6
      BY <1>2 DEF Boots
    <2> QED  BY <1>3, <2>1, Stepped
  <1>6. MigTypeOK' /\ RecordedIsApplied'
    BY <1>2, <1>4, <1>5 DEF MigTypeOK, RecordedIsApplied
  <1>7. Progress'
    BY <1>2, <1>3, <1>4, <1>5 DEF Progress, At, Version
  <1>8. FourthFails'
    BY <1>2, <1>3, <1>4, <1>5 DEF FourthFails, Version
  <1> QED  BY <1>6, <1>7, <1>8

\* Every step keeps the invariant.
LEMMA NextMigInv == MigInv /\ [MigNext]_migvars => MigInv'
  <1> SUFFICES ASSUME MigInv, [MigNext]_migvars PROVE MigInv'
    OBVIOUS
  <1>1. ASSUME NEW s \in Server, RunMigrations(s) PROVE MigInv'
    BY <1>1, WatchKeeps, ApplyKeeps, RecordKeeps DEF RunMigrations
  <1>2. CASE UNCHANGED migvars
    BY <1>2 DEF migvars, MigInv, MigTypeOK, RecordedIsApplied, Progress, FourthFails,
                At, Version
  <1> QED  BY <1>1, <1>2 DEF MigNext

\* The invariant holds in every state.
LEMMA MigInvHolds == MigSpec => []MigInv
  BY InitMigInv, NextMigInv, PTL DEF MigSpec

\* The migrations keep their types.
THEOREM MigrationTypes == MigSpec => []MigTypeOK
  BY MigInvHolds, PTL DEF MigInv

\* RunMigrations, db/migrate.go:88: whatever number of servers start and die,
\* and when, a recorded script is applied and an applied one recorded, but for
\* the script that ends the transaction itself.
THEOREM RecordedScriptsAreApplied == MigSpec => []RecordedIsApplied
  BY MigInvHolds, PTL DEF MigInv

\* RunMigrations, db/migrate.go:93: no order of starts and failures gets a
\* server past the fourth script on a database these scripts have made.
THEOREM NobodyServes == MigSpec => []FreshDatabaseIsNotServed
  <1>1. MigInv => FreshDatabaseIsNotServed
    <2> SUFFICES ASSUME MigInv, NEW s \in Server, At(s, "serving") PROVE FALSE
      BY DEF FreshDatabaseIsNotServed
    <2>1. Version(s) = 6 /\ 1..(Version(s) - 1) \subseteq recorded
      BY DEF MigInv, Progress, At
    <2>2. 4 \in 1..(Version(s) - 1)
      BY <2>1
    <2> QED  BY <2>1, <2>2 DEF MigInv, FourthFails
  <1> QED  BY <1>1, MigInvHolds, PTL

----------------------------------------------------------------------------
(* RateLimiter.  A bucket that exists conserves its allotment: what it has *)
(* given since the last pause and what it still has make Rate.             *)

Conserved ==
    \A a \in Address :
        IF tokens[a] = NoBucket THEN served[a] = 0 ELSE tokens[a] + served[a] = Rate

LimiterInv == LimiterTypeOK /\ Conserved


\* A pause shorter than the window earns nothing, a longer one an allotment.
LEMMA WholeWindows ==
    ASSUME NEW t \in Nat
    PROVE  /\ t < Window => Earned(t) = 0
           /\ t >= Window => Earned(t) \in Nat /\ Earned(t) >= Rate
  <1> DEFINE k == t \div Window
  <1>1. Window \in Nat /\ Window > 0 /\ Rate \in Nat /\ Rate > 0
    BY LimiterAssumption
  <1>2. k \in Int /\ Window * k <= t /\ t < Window * (k + 1)
    BY <1>1
  <1>3. ASSUME t < Window PROVE k = 0
    BY <1>1, <1>2, <1>3
  <1>4. ASSUME t >= Window PROVE k >= 1
    BY <1>1, <1>2, <1>4
  <1> HIDE DEF k
  <1>5. ASSUME k >= 1 PROVE k * Rate \in Nat /\ k * Rate >= Rate
    BY <1>1, <1>2, <1>5
  <1>6. Earned(t) = k * Rate
    BY DEF Earned, k
  <1> QED  BY <1>1, <1>3, <1>4, <1>5, <1>6

\* What a call finds in its bucket: a whole allotment after a pause, and
\* otherwise what the last call left.
LEMMA RefilledValue ==
    ASSUME LimiterInv, NEW a \in Address
    PROVE  /\ Paused(a) => Refilled(a) = Rate
           /\ ~Paused(a) => tokens[a] \in 0..Rate /\ Refilled(a) = tokens[a]
  <1>1. /\ Rate \in Nat /\ Rate > 0 /\ Window \in Nat /\ NoBucket = -1
        /\ since[a] \in Nat /\ tokens[a] \in {NoBucket} \cup 0..Rate
    BY LimiterAssumption DEF LimiterInv, LimiterTypeOK, NoBucket
  <1>2. /\ since[a] < Window => Earned(since[a]) = 0
        /\ since[a] >= Window => Earned(since[a]) \in Nat /\ Earned(since[a]) >= Rate
    BY <1>1, WholeWindows
  <1>3. CASE tokens[a] = NoBucket
    BY <1>1, <1>3 DEF Refilled, Paused
  <1>4. CASE tokens[a] # NoBucket /\ since[a] >= Window
    <2>1. tokens[a] + Earned(since[a]) \in Int /\ tokens[a] + Earned(since[a]) >= Rate
      BY <1>1, <1>2, <1>4
    <2> QED  BY <1>1, <1>4, <2>1 DEF Refilled, Paused, Capped
  <1>5. CASE tokens[a] # NoBucket /\ since[a] < Window
    <2>1. tokens[a] + Earned(since[a]) = tokens[a]
      BY <1>1, <1>2, <1>5
    <2> QED  BY <1>1, <1>5, <2>1 DEF Refilled, Paused, Capped
  <1> QED  BY <1>1, <1>3, <1>4, <1>5

\* The initial state satisfies the invariant.
LEMMA InitLimiterInv == LimiterInit => LimiterInv
  BY LimiterAssumption DEF LimiterInit, LimiterInv, LimiterTypeOK, Conserved, NoBucket

\* An admitted call takes a token of its bucket.
LEMMA AdmitKeeps ==
    ASSUME LimiterInv, NEW a \in Address, Admit(a)
    PROVE  LimiterInv'
  <1>1. /\ Rate \in Nat /\ Rate > 0 /\ Horizon \in Nat /\ NoBucket = -1
        /\ tokens[a] \in {NoBucket} \cup 0..Rate /\ served[a] \in Nat
        /\ IF tokens[a] = NoBucket THEN served[a] = 0 ELSE tokens[a] + served[a] = Rate
    BY LimiterAssumption DEF LimiterInv, LimiterTypeOK, Conserved, NoBucket
  <1>2. Refilled(a) \in 1..Rate
    BY <1>1, RefilledValue DEF Admit
  <1>3. /\ tokens' = [tokens EXCEPT ![a] = Refilled(a) - 1]
        /\ since' = [since EXCEPT ![a] = 0]
        /\ served' = [served EXCEPT ![a] = IF Paused(a) THEN 1 ELSE @ + 1]
    BY DEF Admit
  <1>4. LimiterTypeOK'
    BY <1>1, <1>2, <1>3 DEF LimiterInv, LimiterTypeOK
  <1>5. tokens'[a] # NoBucket /\ tokens'[a] + served'[a] = Rate
    <2>1. tokens'[a] = Refilled(a) - 1 /\ served'[a] = IF Paused(a) THEN 1 ELSE served[a] + 1
      BY <1>3 DEF LimiterInv, LimiterTypeOK
    <2>2. CASE Paused(a)
      BY <1>1, <2>1, <2>2, RefilledValue
    <2>3. CASE ~Paused(a)
      BY <1>1, <1>2, <2>1, <2>3, RefilledValue
    <2> QED  BY <2>2, <2>3
  <1>6. Conserved'
    BY <1>3, <1>5 DEF LimiterInv, LimiterTypeOK, Conserved
  <1> QED  BY <1>4, <1>6 DEF LimiterInv

\* A refused call finds its bucket empty and leaves it so.
LEMMA RefuseKeeps ==
    ASSUME LimiterInv, NEW a \in Address, Refuse(a)
    PROVE  LimiterInv'
  <1>1. Rate \in Nat /\ Rate > 0 /\ Horizon \in Nat
    BY LimiterAssumption
  <1>2. Refilled(a) = tokens[a]
    BY <1>1, RefilledValue DEF Refuse
  <1>3. /\ tokens' = tokens
        /\ since' = [since EXCEPT ![a] = 0]
        /\ served' = served
    BY <1>2 DEF Refuse, LimiterInv, LimiterTypeOK
  <1> QED  BY <1>1, <1>3 DEF LimiterInv, LimiterTypeOK, Conserved

\* Every step keeps the invariant.
LEMMA NextLimiterInv == LimiterInv /\ [LimiterNext]_limitvars => LimiterInv'
  <1> SUFFICES ASSUME LimiterInv, [LimiterNext]_limitvars PROVE LimiterInv'
    OBVIOUS
  <1>1. CASE Tick
    <2>1. Horizon \in Nat /\ since \in [Address -> 0..Horizon]
      BY LimiterAssumption DEF LimiterInv, LimiterTypeOK
    <2>2. since' \in [Address -> 0..Horizon]
      BY <1>1, <2>1 DEF Tick
    <2> QED  BY <1>1, <2>2 DEF Tick, LimiterInv, LimiterTypeOK, Conserved
  <1>2. ASSUME NEW a \in Address, Allow(a) PROVE LimiterInv'
    BY <1>2, AdmitKeeps, RefuseKeeps DEF Allow
  <1>3. CASE UNCHANGED limitvars
    BY <1>3 DEF limitvars, LimiterInv, LimiterTypeOK, Conserved
  <1> QED  BY <1>1, <1>2, <1>3 DEF LimiterNext

\* The invariant holds in every state.
LEMMA LimiterInvHolds == LimiterSpec => []LimiterInv
  BY InitLimiterInv, NextLimiterInv, PTL DEF LimiterSpec

\* The limiter keeps its types.
THEOREM LimiterTypes == LimiterSpec => []LimiterTypeOK
  BY LimiterInvHolds, PTL DEF LimiterInv

\* Allow, middleware/auth.go:148: no address is admitted more than Rate times
\* without a pause of a whole window, whatever the rate, the window and the
\* moments of its calls.
THEOREM AllotmentHolds == LimiterSpec => []OneAllotmentPerPause
  <1>1. LimiterInv => OneAllotmentPerPause
    <2> SUFFICES ASSUME LimiterInv, NEW a \in Address PROVE served[a] <= Rate
      BY DEF OneAllotmentPerPause
    <2>1. /\ Rate \in Nat /\ served[a] \in Nat /\ tokens[a] \in {NoBucket} \cup 0..Rate
          /\ IF tokens[a] = NoBucket THEN served[a] = 0 ELSE tokens[a] + served[a] = Rate
      BY LimiterAssumption DEF LimiterInv, LimiterTypeOK, Conserved
    <2> QED  BY <2>1
  <1> QED  BY <1>1, LimiterInvHolds, PTL

\* RateLimit, middleware/auth.go:170: a client that has stayed away for a
\* window is admitted, whatever it was answered before.
THEOREM PauseSuffices == LimiterSpec => PauseIsEnough
  <1>1. ASSUME LimiterInv, [LimiterNext]_limitvars
        PROVE  [\A a \in Address : Paused(a) /\ Allow(a) => Admit(a)]_limitvars
    <2> SUFFICES ASSUME NEW a \in Address, Paused(a), Refuse(a) PROVE FALSE
      BY DEF Allow
    <2>1. Rate \in Nat /\ Rate > 0
      BY LimiterAssumption
    <2> QED  BY <1>1, <2>1, RefilledValue DEF Refuse
  <1> QED  BY <1>1, LimiterInvHolds, PTL DEF LimiterSpec, PauseIsEnough

----------------------------------------------------------------------------
(* Pipeline.                                                               *)

\* What the recording writer of a request holds, by where its threads are.
\* A success comes from a handler that has reported it; a request that was not
\* cut off has nothing but the handler's answer; and only the timer leads to
\* "late".
RecordOK(c) ==
    /\ stage[c] \in {"new", "auth"} =>
            worker[c] = "none" /\ rw[c].body = {} /\ c \notin expired
    /\ stage[c] = "wait" => worker[c] \in {"run", "head", "closed", "dead"} /\ c \notin expired
    /\ stage[c] = "wait" /\ worker[c] \in {"run", "head"} => rw[c].body = {}
    /\ worker[c] = "none" \/ stage[c] \notin {"replayed", "new", "auth"}
    /\ stage[c] = "late" => c \in expired
    /\ stage[c] = "store" /\ c \notin expired =>
            worker[c] = "closed" \/ (worker[c] = "none" /\ ~Success(rw[c].status))
    /\ stage[c] \in Ended /\ c \notin expired => worker[c] \in {"none", "closed"}
    /\ stage[c] \in {"wait", "store"} /\ worker[c] = "closed" /\ c \notin expired =>
            rw[c].body = {"result"}
    /\ worker[c] \in {"head", "closed"} /\ stage[c] # "cut" /\ Success(rw[c].status) =>
            c \in reported
    /\ stage[c] \in {"late", "store"} /\ Success(rw[c].status) => c \in reported

\* An answer that was not forgotten is in the cache.
KeptOK(c) == Answered(c) /\ c \notin forgotten => cache[KeyOf[c]] # NoResponse

PipeInv ==
    /\ PipeTypeOK
    /\ \A c \in Call : RecordOK(c) /\ KeptOK(c)
    /\ CachedWasReported

\* The initial state satisfies the invariant.
LEMMA InitPipeInv == PipeInit => PipeInv
  <1> SUFFICES ASSUME PipeInit PROVE PipeInv
    OBVIOUS
  <1>1. PipeTypeOK
    BY DEF PipeInit, PipeTypeOK, NoResponse, Responses, Stages
  <1>2. \A c \in Call : RecordOK(c) /\ KeptOK(c)
    BY DEF PipeInit, RecordOK, KeptOK, Answered, Ended
  <1>3. CachedWasReported
    BY DEF PipeInit, CachedWasReported
  <1> QED  BY <1>1, <1>2, <1>3 DEF PipeInv

\* A step of one request that leaves the cache and the history alone.
LEMMA OtherRequests ==
    ASSUME PipeInv, NEW c \in Call, PipeTypeOK', RecordOK(c)',
           UNCHANGED <<cache, forgotten>>, reported \subseteq reported', expired \subseteq expired',
           \A q \in Call \ {c} : /\ stage'[q] = stage[q] /\ worker'[q] = worker[q]
                                 /\ rw'[q] = rw[q]
                                 /\ q \in reported' <=> q \in reported
                                 /\ q \in expired' <=> q \in expired,
           Answered(c)' => Answered(c)
    PROVE  PipeInv'
  <1>1. \A q \in Call \ {c} : RecordOK(q)' /\ KeptOK(q)'
    BY DEF PipeInv, RecordOK, KeptOK, Answered
  <1>2. KeptOK(c)'
    BY DEF PipeInv, KeptOK
  <1>3. CachedWasReported'
    BY DEF PipeInv, CachedWasReported
  <1> QED  BY <1>1, <1>2, <1>3 DEF PipeInv

\* The steps before the answer, of the main thread and of the worker.
LEMMA ServeKeeps ==
    ASSUME PipeInv, NEW c \in Call,
           \/ Replay(c) \/ Refuse401(c) \/ StartHandler(c) \/ HandlerDone(c)
           \/ TimeUp(c) \/ WriteTimeout(c) \/ Overdue(c) \/ WriteHead(c) \/ WriteBody(c)
    PROVE  PipeInv'
  <1>1. /\ PipeTypeOK /\ RecordOK(c)
        /\ rw[c] \in Responses /\ rw \in [Call -> Responses]
    BY DEF PipeInv, PipeTypeOK
  <1>2. /\ UNCHANGED <<cache, forgotten, durable>>
        /\ \/ rw' = rw
           \/ \E s \in {200, 401, 500, 504} : rw' = [rw EXCEPT ![c].status = s]
           \/ \E b \in SUBSET {"result", "refusal", "timeout"} : rw' = [rw EXCEPT ![c].body = b]
           \/ rw' = [rw EXCEPT ![c] = [status |-> 401, body |-> {"refusal"}]]
    <2>1. rw[c].body \in SUBSET {"result", "refusal", "timeout"}
      BY <1>1 DEF Responses
    <2> QED  BY <2>1 DEF Replay, Refuse401, StartHandler, HandlerDone, TimeUp, WriteTimeout,
                     Overdue, WriteHead, WriteBody, Appended
  <1>3. rw' \in [Call -> Responses] /\ \A q \in Call \ {c} : rw'[q] = rw[q]
    BY <1>1, <1>2 DEF Responses
  <1>4. /\ \A q \in Call \ {c} : stage'[q] = stage[q] /\ worker'[q] = worker[q]
        /\ reported' \in {reported, reported \cup {c}} /\ expired' \in {expired, expired \cup {c}}
    BY <1>1 DEF PipeTypeOK, Replay, Refuse401, StartHandler, HandlerDone, TimeUp, WriteTimeout,
                Overdue, WriteHead, WriteBody, Goto, WorkerTo
  <1>5. PipeTypeOK'
    BY <1>1, <1>2, <1>3, <1>4
       DEF PipeTypeOK, Replay, Refuse401, StartHandler, HandlerDone, TimeUp, WriteTimeout,
           Overdue, WriteHead, WriteBody, Goto, WorkerTo, Stages, Serving
  <1>6. RecordOK(c)'
    <2>1. CASE Replay(c) \/ StartHandler(c) \/ HandlerDone(c)
      BY <1>1, <2>1 DEF PipeTypeOK, RecordOK, Replay, StartHandler, HandlerDone, Goto, Ended
    <2>2. CASE Refuse401(c)
      BY <1>1, <2>2 DEF PipeTypeOK, RecordOK, Refuse401, Goto, Success
    <2>3. CASE TimeUp(c)
      <3>1. rw'[c].status = 504 /\ stage'[c] = "late" /\ worker' = worker /\ c \in expired'
        BY <1>1, <2>3 DEF PipeTypeOK, TimeUp, Goto, Responses
      <3>2. stage[c] = "wait"
        BY <2>3 DEF TimeUp
      <3> QED  BY <1>1, <3>1, <3>2 DEF RecordOK, Success
    <2>4. CASE WriteTimeout(c)
      <3>1. /\ rw'[c].status = rw[c].status /\ stage[c] = "late" /\ stage'[c] = "store"
            /\ UNCHANGED <<worker, overdue, reported, expired>>
        BY <1>1, <2>4 DEF PipeTypeOK, WriteTimeout, Goto, Responses
      <3> QED  BY <1>1, <3>1 DEF RecordOK
    <2>5. CASE Overdue(c)
      BY <1>1, <2>5 DEF RecordOK, Overdue
    <2>6. CASE WriteHead(c)
      <3>1. /\ rw'[c].body = rw[c].body /\ rw'[c].status \in {200, 500}
            /\ rw'[c].status = 200 => c \in reported'
        BY <1>1, <2>6 DEF WriteHead, Responses
      <3>2. /\ worker[c] = "run" /\ worker'[c] = "head" /\ Observed(c)
            /\ UNCHANGED <<stage, expired>>
        BY <1>1, <2>6 DEF WriteHead, WorkerTo, PipeTypeOK
      <3> QED  BY <1>1, <3>1, <3>2 DEF RecordOK, Success, Observed
    <2>7. CASE WriteBody(c)
      <3>1. /\ rw'[c].status = rw[c].status
            /\ rw[c].body = {} => rw'[c].body = {"result"}
        BY <1>1, <2>7 DEF WriteBody, Responses, Appended
      <3>2. /\ worker[c] = "head" /\ worker'[c] = "closed" /\ Observed(c)
            /\ UNCHANGED <<stage, overdue, reported, expired>>
        BY <1>1, <2>7 DEF WriteBody, WorkerTo, PipeTypeOK
      <3> QED  BY <1>1, <3>1, <3>2 DEF RecordOK, Observed
    <2> QED  BY <2>1, <2>2, <2>3, <2>4, <2>5, <2>6, <2>7
  <1>7. Answered(c)' => Answered(c)
    <2>1. CASE Overdue(c)
      BY <1>1, <2>1 DEF Answered, Overdue
    <2>2. CASE WriteHead(c) \/ WriteBody(c)
      BY <2>2 DEF Answered, WriteHead, WriteBody, Observed, Ended
    <2>3. CASE \/ Replay(c) \/ Refuse401(c) \/ StartHandler(c) \/ HandlerDone(c)
               \/ TimeUp(c) \/ WriteTimeout(c)
      <3>1. stage'[c] \notin Ended
        BY <1>1, <2>3 DEF Ended, PipeTypeOK, Replay, Refuse401, StartHandler, HandlerDone, TimeUp,
                          WriteTimeout, Goto
      <3> QED  BY <3>1 DEF Answered
    <2> QED  BY <2>1, <2>2, <2>3
  <1> QED  BY <1>2, <1>3, <1>4, <1>5, <1>6, <1>7, OtherRequests

\* The lookup of a request that misses.
LEMMA MissKeeps ==
    ASSUME PipeInv, NEW c \in Call, Miss(c)
    PROVE  PipeInv'
  <1>1. PipeTypeOK /\ RecordOK(c)
    BY DEF PipeInv
  <1>2. /\ stage[c] = "new" /\ stage' = [stage EXCEPT ![c] = "auth"]
        /\ UNCHANGED <<durable, cache, worker, rw, overdue, reported, expired>>
        /\ forgotten \subseteq forgotten' /\ forgotten' \subseteq Call
    BY <1>1 DEF Miss, Goto, PipeTypeOK
  <1>3. PipeTypeOK'
    BY <1>1, <1>2 DEF PipeTypeOK, Stages, Serving
  <1>4. ASSUME NEW q \in Call  PROVE RecordOK(q)' /\ KeptOK(q)'
    <2>1. RecordOK(q) /\ KeptOK(q)
      BY DEF PipeInv
    <2>2. CASE q = c
      BY <1>1, <1>2, <2>1, <2>2 DEF RecordOK, KeptOK, Answered, PipeTypeOK, Ended
    <2>3. CASE q # c
      <3>1. stage'[q] = stage[q]
        BY <1>1, <1>2, <2>3 DEF PipeTypeOK
      <3> QED  BY <1>2, <2>1, <3>1 DEF RecordOK, KeptOK, Answered
    <2> QED  BY <2>2, <2>3
  <1>5. CachedWasReported'
    BY <1>2 DEF PipeInv, CachedWasReported
  <1> QED  BY <1>3, <1>4, <1>5 DEF PipeInv

\* Storing the response: what is cached is what a handler has reported.
LEMMA StoreKeeps ==
    ASSUME PipeInv, NEW c \in Call, Store(c)
    PROVE  PipeInv'
  <1>1. PipeTypeOK /\ RecordOK(c)
    BY DEF PipeInv
  <1>2. /\ stage[c] = "store" /\ stage'[c] \in Ended
        /\ stage' \in [Call -> Stages] /\ \A q \in Call \ {c} : stage'[q] = stage[q]
        /\ UNCHANGED <<durable, worker, rw, overdue, reported, expired>>
        /\ forgotten \subseteq forgotten' /\ forgotten' \subseteq Call
    BY <1>1 DEF Store, Goto, PipeTypeOK, Stages, Ended
  <1>3. /\ rw[c] \in Responses /\ KeyOf[c] \in Keys
        /\ Success(rw[c].status) => rw[c] # NoResponse
    BY <1>1 DEF PipeTypeOK, Success, NoResponse, Keys
  <1>4. \/ cache' = cache
        \/ Success(rw[c].status) /\ cache' = [cache EXCEPT ![KeyOf[c]] = rw[c]]
    BY DEF Store
  <1>5. PipeTypeOK'
    BY <1>1, <1>2, <1>3, <1>4 DEF PipeTypeOK
  <1>6. \A k \in Keys : cache[k] # NoResponse => cache'[k] # NoResponse
    BY <1>1, <1>3, <1>4 DEF PipeTypeOK
  <1>7. ASSUME NEW q \in Call  PROVE RecordOK(q)' /\ KeptOK(q)'
    <2>1. RecordOK(q) /\ KeptOK(q) /\ KeyOf[q] \in Keys
      BY DEF PipeInv, Keys
    <2>2. CASE q = c
      <3>1. stage'[c] \in {"done", "lost"}
        BY <1>2 DEF Ended
      <3>2. RecordOK(c)'
        BY <1>1, <1>2, <3>1 DEF RecordOK, Ended
      <3>3. ASSUME Answered(c)', c \notin forgotten'  PROVE cache'[KeyOf[c]] # NoResponse
        <4>1. Success(rw[c].status)
          BY <1>2, <3>3 DEF Answered, Success
        <4>2. cache' = [cache EXCEPT ![KeyOf[c]] = rw[c]]
          BY <3>3, <4>1 DEF Store
        <4> QED  BY <1>1, <1>3, <4>1, <4>2 DEF PipeTypeOK
      <3> QED  BY <2>2, <3>2, <3>3 DEF KeptOK
    <2>3. CASE q # c
      <3>1. stage'[q] = stage[q]
        BY <1>1, <1>2, <2>3 DEF PipeTypeOK
      <3>2. RecordOK(q)'
        BY <1>2, <2>1, <3>1 DEF RecordOK
      <3>3. KeptOK(q)'
        BY <1>2, <1>6, <2>1, <3>1 DEF KeptOK, Answered
      <3> QED  BY <3>2, <3>3
    <2> QED  BY <2>2, <2>3
  <1>8. CachedWasReported'
    <2> SUFFICES ASSUME NEW k \in Keys, cache'[k] # NoResponse
                 PROVE  \E q \in reported' :
                            /\ KeyOf[q] = k
                            /\ q \in expired' \/ cache'[k].body = {"result"}
      BY DEF CachedWasReported, Keys, NoResponse
    <2>1. CASE cache'[k] = cache[k]
      BY <1>2, <2>1 DEF PipeInv, CachedWasReported
    <2>2. CASE cache'[k] # cache[k]
      <3>1. Success(rw[c].status) /\ k = KeyOf[c] /\ cache'[k] = rw[c]
        BY <1>1, <1>4, <2>2 DEF PipeTypeOK
      <3>2. c \in reported
        BY <1>1, <1>2, <3>1 DEF RecordOK
      <3>3. c \in expired \/ rw[c].body = {"result"}
        BY <1>1, <1>2, <3>1 DEF RecordOK
      <3> QED  BY <1>2, <3>1, <3>2, <3>3
    <2> QED  BY <2>1, <2>2
  <1> QED  BY <1>5, <1>7, <1>8 DEF PipeInv

\* A panic ends the process; a cache in memory goes with it.
LEMMA PanicKeeps ==
    ASSUME PipeInv, NEW c \in Call, Panic(c)
    PROVE  PipeInv'
  <1>1. PipeTypeOK
    BY DEF PipeInv
  <1>2. /\ stage' = [q \in Call |-> IF stage[q] \in Serving THEN "cut" ELSE stage[q]]
        /\ worker' = [q \in Call |-> IF worker[q] \in {"run", "head"} THEN "dead" ELSE worker[q]]
        /\ UNCHANGED <<durable, rw, overdue, reported, expired>>
        /\ \/ UNCHANGED <<cache, forgotten>>
           \/ /\ cache' = [k \in Keys |-> NoResponse]
              /\ forgotten' = forgotten \cup {q \in Call : stage[q] \in Ended}
    BY DEF Panic
  <1>3. PipeTypeOK'
    <2>1. NoResponse \in Responses
      BY DEF NoResponse, Responses
    <2> QED  BY <1>1, <1>2, <2>1 DEF PipeTypeOK, Stages
  <1>4. ASSUME NEW q \in Call  PROVE RecordOK(q)' /\ KeptOK(q)'
    <2>1. RecordOK(q) /\ KeptOK(q)
      BY DEF PipeInv
    <2>2. /\ stage'[q] = stage[q] \/ stage'[q] = "cut"
          /\ stage'[q] \notin {"auth", "wait", "late", "store"}
          /\ worker'[q] = worker[q] \/ (worker[q] \in {"run", "head"} /\ worker'[q] = "dead")
      BY <1>2 DEF Serving
    <2>3. RecordOK(q)'
      BY <1>2, <2>1, <2>2 DEF RecordOK, Ended
    <2>4. KeptOK(q)'
      <3>1. stage'[q] \in Ended => stage[q] \in Ended
        BY <2>2 DEF Ended
      <3> QED  BY <1>2, <2>1, <3>1 DEF KeptOK, Answered
    <2> QED  BY <2>3, <2>4
  <1>5. CachedWasReported'
    BY <1>2 DEF PipeInv, CachedWasReported
  <1> QED  BY <1>3, <1>4, <1>5 DEF PipeInv

\* An answer that Redis drops is forgotten by its requests.
LEMMA ExpireKeeps ==
    ASSUME PipeInv, NEW k \in Keys, Expire(k)
    PROVE  PipeInv'
  <1>1. PipeTypeOK /\ NoResponse \in Responses
    BY DEF PipeInv, NoResponse, Responses
  <1>2. /\ cache' = [cache EXCEPT ![k] = NoResponse]
        /\ forgotten' = forgotten \cup {c \in Call : KeyOf[c] = k /\ stage[c] \in Ended}
        /\ UNCHANGED <<durable, stage, worker, rw, overdue, reported, expired>>
    BY DEF Expire
  <1>3. PipeTypeOK'
    BY <1>1, <1>2 DEF PipeTypeOK
  <1>4. ASSUME NEW q \in Call  PROVE RecordOK(q)' /\ KeptOK(q)'
    <2>1. RecordOK(q) /\ KeptOK(q) /\ KeyOf[q] \in Keys
      BY DEF PipeInv, Keys
    <2>2. RecordOK(q)'
      BY <1>2, <2>1 DEF RecordOK
    <2>3. KeptOK(q)'
      BY <1>1, <1>2, <2>1 DEF PipeTypeOK, KeptOK, Answered
    <2> QED  BY <2>2, <2>3
  <1>5. CachedWasReported'
    BY <1>1, <1>2 DEF PipeTypeOK, PipeInv, CachedWasReported
  <1> QED  BY <1>3, <1>4, <1>5 DEF PipeInv

\* Every step of the pipeline keeps the invariant.
LEMMA NextPipeInv == PipeInv /\ [PipeNext]_pipevars => PipeInv'
  <1> SUFFICES ASSUME PipeInv, [PipeNext]_pipevars PROVE PipeInv'
    OBVIOUS
  <1>1. ASSUME NEW c \in Call, MainStep(c) \/ Overdue(c)  PROVE PipeInv'
    BY <1>1, ServeKeeps, MissKeeps, StoreKeeps DEF MainStep
  <1>2. ASSUME NEW c \in Call, WorkerStep(c)  PROVE PipeInv'
    BY <1>2, ServeKeeps, PanicKeeps DEF WorkerStep
  <1>3. CASE UNCHANGED pipevars
    BY <1>3 DEF pipevars, PipeInv, PipeTypeOK, RecordOK, KeptOK, Answered, CachedWasReported
  <1> QED  BY <1>1, <1>2, <1>3, ExpireKeeps DEF PipeNext

\* The inductive invariant of the pipeline.
THEOREM PipeInvAlways == PipeSpec => []PipeInv
  BY InitPipeInv, NextPipeInv, PTL DEF PipeSpec

\* A cached response is a success that a handler of its key has reported, true
\* or not, and is its answer alone unless the timer cut the request off:
\* middleware/idempotency.go:55 with security.go:46, for any number of requests.
THEOREM CachedWasReportedAlways == PipeSpec => []CachedWasReported
  BY PipeInvAlways, PTL DEF PipeInv

\* A request of a key that was answered with success in time is not handled
\* again, unless the store failed, was lost or has dropped the answer after its
\* time: middleware/idempotency.go:44.
THEOREM AnsweredIsNotRepeatedAlways == PipeSpec => AnsweredIsNotRepeated
  <1>1. PipeInv /\ [PipeNext]_pipevars =>
            [\A c, q \in Call :
                /\ KeyOf[c] = KeyOf[q]
                /\ Answered(q) /\ q \notin forgotten
                /\ stage[c] = "new" /\ stage'[c] = "auth"
                => c \in forgotten']_pipevars
    <2> SUFFICES ASSUME PipeInv, PipeNext, NEW c \in Call, NEW q \in Call,
                        KeyOf[c] = KeyOf[q], Answered(q), q \notin forgotten,
                        stage[c] = "new", stage'[c] = "auth"
                 PROVE  c \in forgotten'
      OBVIOUS
    <2>1. PipeTypeOK /\ KeptOK(q)
      BY DEF PipeInv
    <2>2. cache[KeyOf[c]] # NoResponse
      BY <2>1 DEF KeptOK
    <2>3. \/ \E r \in Call : MainStep(r) \/ Overdue(r) \/ WorkerStep(r)
          \/ \E k \in Keys : Expire(k)
      BY DEF PipeNext
    <2>4. ASSUME NEW r \in Call, Miss(r)  PROVE c \in forgotten'
      <3>1. r = c
        BY <2>1, <2>4 DEF Miss, Goto, PipeTypeOK
      <3> QED  BY <2>2, <2>4, <3>1 DEF Miss
    <2>5. ASSUME NEW r \in Call, MainStep(r) \/ Overdue(r) \/ WorkerStep(r), ~Miss(r)
          PROVE  FALSE
      <3>1. stage'[c] # "auth"
        BY <2>1, <2>5
           DEF PipeTypeOK, MainStep, WorkerStep, Replay, Refuse401, StartHandler, HandlerDone,
               TimeUp, WriteTimeout, Store, Overdue, WriteHead, WriteBody, Panic, Goto
      <3> QED  BY <3>1
    <2>6. ASSUME NEW k \in Keys, Expire(k)  PROVE FALSE
      BY <2>6 DEF Expire
    <2> QED  BY <2>3, <2>4, <2>5, <2>6
  <1> QED  BY <1>1, PipeInvAlways, PTL DEF PipeSpec, AnsweredIsNotRepeated

\* The stages the main thread of a request has still to pass.
StagesLeft(at) ==
    CASE at = "new" -> 5
      [] at = "auth" -> 4
      [] at = "wait" -> 3
      [] at = "late" -> 2
      [] at = "store" -> 1
      [] at \in {"replayed", "done", "lost", "cut"} -> 0

\* The safety half of ServedEnds, Timeout, middleware/security.go:46: a
\* request goes from stage to stage to its end, and no step of its handler, of
\* another request or of the store ever takes it back.
THEOREM ServingIsBounded ==
    PipeSpec =>
        [][\A c \in Call : \/ stage'[c] = stage[c]
                           \/ StagesLeft(stage'[c]) < StagesLeft(stage[c])]_pipevars
  <1>1. ASSUME PipeTypeOK, PipeNext, NEW c \in Call
        PROVE  stage'[c] = stage[c] \/ StagesLeft(stage'[c]) < StagesLeft(stage[c])
    <2>1. \/ \E q \in Call : MainStep(q) \/ Overdue(q) \/ WorkerStep(q)
          \/ \E k \in Keys : Expire(k)
      BY <1>1 DEF PipeNext
    <2>2. stage \in [Call -> Stages] /\ stage[c] \in Stages
      BY <1>1 DEF PipeTypeOK
    <2>3. ASSUME NEW q \in Call, MainStep(q)
          PROVE  stage'[c] = stage[c] \/ StagesLeft(stage'[c]) < StagesLeft(stage[c])
      <3>1. \A d \in Call \ {q} : stage'[d] = stage[d]
        BY <2>2, <2>3 DEF MainStep, Replay, Miss, Refuse401, StartHandler, HandlerDone, TimeUp,
           WriteTimeout, Store, Goto
      <3>2. \/ stage[q] = "new" /\ stage'[q] \in {"replayed", "auth"}
            \/ stage[q] = "auth" /\ stage'[q] \in {"wait", "store"}
            \/ stage[q] = "wait" /\ stage'[q] \in {"late", "store"}
            \/ stage[q] = "late" /\ stage'[q] = "store"
            \/ stage[q] = "store" /\ stage'[q] \in {"done", "lost"}
        BY <2>2, <2>3 DEF MainStep, Replay, Miss, Refuse401, StartHandler, HandlerDone, TimeUp,
           WriteTimeout, Store, Goto
      <3>3. StagesLeft(stage'[q]) < StagesLeft(stage[q])
        BY <3>2 DEF StagesLeft
      <3> QED  BY <3>1, <3>3
    <2>4. ASSUME NEW q \in Call, Panic(q)
          PROVE  stage'[c] = stage[c] \/ StagesLeft(stage'[c]) < StagesLeft(stage[c])
      <3>1. stage'[c] = IF stage[c] \in Serving THEN "cut" ELSE stage[c]
        BY <2>4 DEF Panic
      <3> QED  BY <3>1 DEF Serving, StagesLeft
    <2>5. ASSUME NEW q \in Call, Overdue(q) \/ WriteHead(q) \/ WriteBody(q)
          PROVE  stage'[c] = stage[c]
      BY <2>5 DEF Overdue, WriteHead, WriteBody
    <2>6. ASSUME NEW k \in Keys, Expire(k)  PROVE stage'[c] = stage[c]
      BY <2>6 DEF Expire
    <2> QED  BY <2>1, <2>3, <2>4, <2>5, <2>6 DEF WorkerStep
  <1>2. PipeSpec => []PipeTypeOK
    BY PipeInvAlways, PTL DEF PipeInv
  <1>3. PipeTypeOK /\ [PipeNext]_pipevars =>
            [\A c \in Call : \/ stage'[c] = stage[c]
                             \/ StagesLeft(stage'[c]) < StagesLeft(stage[c])]_pipevars
    BY <1>1
  <1> QED  BY <1>2, <1>3, PTL DEF PipeSpec

----------------------------------------------------------------------------
(* AuthService: registration.                                              *)

\* The transaction of r has a user row that no other transaction can insert.
Holding(r) == signup[r] \in {"wallet", "commit"} /\ r \notin broken

\* How far a registration is, and what that says of its rows and its answer.
AccountOK(r) ==
    /\ Holding(r) => ~Taken(r)
    /\ r \in users => signup[r] = "end"
    /\ r \in broken => signup[r] \in {"commit", "end"}
    /\ told[r] = "session" =>
        /\ signup[r] \in {"commit", "end"}
        /\ signup[r] = "commit" => r \notin broken
        /\ signup[r] = "end" => r \in users \cup lostCommit

HoldersDiffer ==
    \A r, q \in Signup : Holding(r) /\ Holding(q) /\ PhoneOf[r] = PhoneOf[q] => r = q

SignupInv ==
    /\ AuthTypeOK
    /\ AccountsAreWhole
    /\ HoldersDiffer
    /\ \A r \in Signup : AccountOK(r)

\* The types hold in every step.
LEMMA AuthTypes == AuthTypeOK /\ [AuthNext]_authvars => AuthTypeOK'
  <1> SUFFICES ASSUME AuthTypeOK, [AuthNext]_authvars PROVE AuthTypeOK'
    OBVIOUS
  <1>1. ASSUME NEW r \in Signup, Register(r)  PROVE AuthTypeOK'
    BY <1>1 DEF AuthTypeOK, Register, CheckPhone, InsertUser, InsertWallet, StatementFails, Commit,
                CommitFails, Proceed, Tell, SignupStages, InTransaction, pinvars
  <1>2. ASSUME NEW r \in Signup, Age(r)  PROVE AuthTypeOK'
    <2>1. recent' \in [Signup -> Nat]
      BY <1>2 DEF AuthTypeOK, Age
    <2> QED  BY <1>2, <2>1 DEF AuthTypeOK, Age, signupvars
  <1>3. ASSUME NEW h \in Handler, EnterPIN(h)  PROVE AuthTypeOK'
    <2>1. CASE \E u \in Signup, right \in BOOLEAN : CountAttempts(h, u, right)
      <3>1. PICK u \in Signup, right \in BOOLEAN : CountAttempts(h, u, right)
        BY <2>1
      <3>2. [at |-> "compare", user |-> u, right |-> right]
                \in [at : {"compare"}, user : Signup, right : BOOLEAN]
        OBVIOUS
      <3> QED  BY <3>1, <3>2 DEF AuthTypeOK, CountAttempts, signupvars
    <2>2. CASE RecordFailure(h)
      <3>1. entry[h].user \in Signup
        BY <2>2 DEF AuthTypeOK, RecordFailure
      <3>2. recent' \in [Signup -> Nat]
        BY <2>2, <3>1 DEF AuthTypeOK, RecordFailure
      <3> QED  BY <2>2, <3>2 DEF AuthTypeOK, RecordFailure, signupvars
    <2>3. CASE RecordSuccess(h)
      BY <2>3 DEF AuthTypeOK, RecordSuccess, signupvars
    <2> QED  BY <1>3, <2>1, <2>2, <2>3 DEF EnterPIN
  <1>4. CASE UNCHANGED authvars
    BY <1>4 DEF AuthTypeOK, authvars, signupvars, pinvars
  <1> QED  BY <1>1, <1>2, <1>3, <1>4 DEF AuthNext

\* A step of one registration that stores no row.
LEMMA NothingStored ==
    ASSUME SignupInv, AuthTypeOK', NEW r \in Signup,
           UNCHANGED <<users, wallets>>, AccountOK(r)',
           Holding(r)' => Holding(r) \/ PhoneFree(r),
           \A q \in Signup \ {r} : /\ signup'[q] = signup[q]
                                   /\ told'[q] = told[q]
                                   /\ q \in broken' <=> q \in broken
                                   /\ q \in lostCommit' <=> q \in lostCommit
    PROVE  SignupInv'
  <1>1. AccountsAreWhole'
    BY DEF SignupInv, AccountsAreWhole
  <1>2. \A q \in Signup \ {r} : Holding(q)' <=> Holding(q)
    BY DEF Holding
  <1>3. \A q \in Signup : AccountOK(q)'
    BY <1>2 DEF SignupInv, AccountOK, Taken
  <1>4. HoldersDiffer'
    BY <1>2 DEF SignupInv, HoldersDiffer, PhoneFree, Holding
  <1> QED  BY <1>1, <1>3, <1>4 DEF SignupInv

\* Everything but the successful commit.
LEMMA RegisterKeeps ==
    ASSUME SignupInv, AuthTypeOK', NEW r \in Signup,
           CheckPhone(r) \/ InsertUser(r) \/ InsertWallet(r) \/ CommitFails(r)
    PROVE  SignupInv'
  <1>1. AuthTypeOK /\ AccountOK(r)
    BY DEF SignupInv
  <1>2. \A q \in Signup \ {r} : /\ signup'[q] = signup[q]
                                /\ told'[q] = told[q]
                                /\ q \in broken' <=> q \in broken
                                /\ q \in lostCommit' <=> q \in lostCommit
    BY <1>1 DEF AuthTypeOK, CheckPhone, InsertUser, InsertWallet, CommitFails, StatementFails,
                Proceed, Tell
  <1>3. UNCHANGED <<users, wallets>>
    BY DEF CheckPhone, InsertUser, InsertWallet, CommitFails
  <1>4. AccountOK(r)' /\ (Holding(r)' => Holding(r) \/ PhoneFree(r))
    <2>1. CASE CheckPhone(r)
      BY <1>1, <2>1 DEF AuthTypeOK, AccountOK, Holding, Taken, CheckPhone, Proceed, Tell
    <2>2. CASE InsertUser(r)
      BY <1>1, <2>2 DEF AuthTypeOK, AccountOK, Holding, Taken, InsertUser, StatementFails,
                        Proceed, Tell
    <2>3. CASE InsertWallet(r)
      BY <1>1, <2>3 DEF AuthTypeOK, AccountOK, Holding, Taken, InsertWallet, StatementFails,
                        Proceed, Tell
    <2>4. CASE CommitFails(r)
      BY <1>1, <2>4 DEF AuthTypeOK, AccountOK, Holding, Taken, CommitFails, Proceed
    <2> QED  BY <2>1, <2>2, <2>3, <2>4
  <1> QED  BY <1>2, <1>3, <1>4, NothingStored

\* The commit stores user and wallet together, and nobody else's number.
LEMMA CommitKeeps ==
    ASSUME SignupInv, AuthTypeOK', NEW r \in Signup, Commit(r)
    PROVE  SignupInv'
  <1>1. AuthTypeOK /\ AccountOK(r) /\ AccountsAreWhole /\ HoldersDiffer
    BY DEF SignupInv
  <1>2. /\ signup[r] = "commit" /\ signup'[r] = "end"
        /\ \A q \in Signup \ {r} : signup'[q] = signup[q]
        /\ users' = (IF r \in broken THEN users ELSE users \cup {r})
        /\ wallets' = (IF r \in broken THEN wallets ELSE wallets \cup {r})
        /\ UNCHANGED <<broken, told, lostCommit>>
    BY <1>1 DEF AuthTypeOK, Commit, Proceed
  <1>3. AccountsAreWhole'
    BY <1>1, <1>2 DEF AccountsAreWhole, AccountOK, Holding, Taken
  <1>4. \A q \in Signup : Holding(q)' => Holding(q) /\ q # r
    BY <1>2 DEF Holding
  <1>5. HoldersDiffer'
    BY <1>1, <1>4 DEF HoldersDiffer
  <1>6. ASSUME NEW q \in Signup  PROVE AccountOK(q)'
    <2>1. AccountOK(q)
      BY DEF SignupInv
    <2>2. Holding(q)' => ~Taken(q)'
      <3> SUFFICES ASSUME Holding(q)' PROVE ~Taken(q)'
        OBVIOUS
      <3>1. Holding(q) /\ q # r /\ ~Taken(q)
        BY <1>4, <2>1 DEF AccountOK
      <3>2. r \in broken \/ PhoneOf[r] # PhoneOf[q]
        BY <1>1, <1>2, <3>1 DEF HoldersDiffer, Holding
      <3> QED  BY <1>2, <3>1, <3>2 DEF Taken
    <2>3. CASE q = r
      BY <1>1, <1>2, <2>2, <2>3 DEF AccountOK
    <2>4. CASE q # r
      BY <1>2, <2>1, <2>2, <2>4 DEF AccountOK
    <2> QED  BY <2>3, <2>4
  <1> QED  BY <1>3, <1>5, <1>6 DEF SignupInv

\* Every step of the service keeps the invariant.
LEMMA NextSignupInv == SignupInv /\ [AuthNext]_authvars => SignupInv'
  <1> SUFFICES ASSUME SignupInv, [AuthNext]_authvars PROVE SignupInv'
    OBVIOUS
  <1>1. AuthTypeOK'
    BY AuthTypes DEF SignupInv
  <1>2. ASSUME NEW r \in Signup, Register(r)  PROVE SignupInv'
    BY <1>1, <1>2, RegisterKeeps, CommitKeeps DEF Register
  <1>3. CASE UNCHANGED signupvars
    <2>1. UNCHANGED <<signup, broken, users, wallets, told, lostCommit>>
      BY <1>3 DEF signupvars
    <2> QED  BY <1>1, <2>1 DEF SignupInv, AccountsAreWhole, HoldersDiffer, AccountOK, Holding, Taken
  <1>4. ASSUME NEW h \in Handler, EnterPIN(h)  PROVE UNCHANGED signupvars
    BY <1>4 DEF EnterPIN, CountAttempts, RecordFailure, RecordSuccess
  <1>5. ASSUME NEW r \in Signup, Age(r)  PROVE UNCHANGED signupvars
    BY <1>5 DEF Age
  <1> QED  BY <1>2, <1>3, <1>4, <1>5 DEF AuthNext, authvars

\* The inductive invariant of registration.
THEOREM SignupInvAlways == AuthSpec => []SignupInv
  <1>1. AuthInit => SignupInv
    <2> SUFFICES ASSUME AuthInit PROVE SignupInv
      OBVIOUS
    <2>1. AuthTypeOK
      BY DEF AuthInit, AuthTypeOK, SignupStages
    <2> QED  BY <2>1 DEF AuthInit, SignupInv, AccountsAreWhole, HoldersDiffer, AccountOK, Holding
  <1> QED  BY <1>1, NextSignupInv, PTL DEF AuthSpec

\* Register, service/auth_service.go:75: every user has a wallet and no number
\* two users, for any number of registrations and whatever fails.
THEOREM AccountsAreWholeAlways == AuthSpec => []AccountsAreWhole
  BY SignupInvAlways, PTL DEF SignupInv

\* Register, service/auth_service.go:90: a session is for a stored user, unless
\* the error of Commit was lost.
THEOREM SessionHasUserAlways == AuthSpec => []SessionHasUser
  <1>1. SignupInv => SessionHasUser
    BY DEF SignupInv, AccountOK, SessionHasUser
  <1> QED  BY <1>1, SignupInvAlways, PTL

\* Registration and PIN entry keep their types.
THEOREM AuthTypeCorrect == AuthSpec => []AuthTypeOK
  BY SignupInvAlways, PTL DEF SignupInv

----------------------------------------------------------------------------
(* AuthService: the lockout.                                               *)

\* A set of handlers is no larger than all of them.
LEMMA GuessingIsFinite ==
    ASSUME NEW u
    PROVE  /\ IsFiniteSet(Guessing(u))
           /\ Cardinality(Guessing(u)) \in Nat /\ Cardinality(Handler) \in Nat
           /\ Cardinality(Guessing(u)) <= Cardinality(Handler)
  <1>1. Guessing(u) \subseteq Handler
    BY DEF Guessing
  <1> QED  BY <1>1, AuthAssumption, FS_Subset, FS_CardinalityType DEF AuthAssumption

GuessInv == AuthTypeOK /\ GuessesBounded

\* A step leaves the wrong guesses at a PIN as they are; or one begins, which
\* only a count below the limit allows; or one of them ends and is recorded.
LEMMA GuessStep ==
    ASSUME AuthTypeOK, AuthTypeOK', [AuthNext]_authvars, NEW u \in Signup
    PROVE  \/ Guessing(u)' = Guessing(u) /\ recent'[u] <= recent[u]
           \/ ~Locked(u) /\ recent'[u] = recent[u]
           \/ /\ \E h \in Guessing(u) : Guessing(u)' = Guessing(u) \ {h}
              /\ recent'[u] <= recent[u] + 1
  <1>1. recent[u] \in Nat /\ recent'[u] \in Nat
    BY DEF AuthTypeOK
  <1>2. ASSUME NEW r \in Signup, Register(r)
        PROVE  Guessing(u)' = Guessing(u) /\ recent'[u] <= recent[u]
    <2>1. UNCHANGED <<entry, recent>>
      BY <1>2 DEF Register, CheckPhone, InsertUser, InsertWallet, Commit, CommitFails, pinvars
    <2> QED  BY <1>1, <2>1 DEF Guessing
  <1>3. ASSUME NEW r \in Signup, Age(r)
        PROVE  Guessing(u)' = Guessing(u) /\ recent'[u] <= recent[u]
    <2>1. entry' = entry /\ recent[r] > 0 /\ recent' = [recent EXCEPT ![r] = @ - 1]
      BY <1>3 DEF Age
    <2>2. recent'[u] = recent[u] \/ recent'[u] = recent[u] - 1
      BY <1>1, <2>1 DEF AuthTypeOK
    <2> QED  BY <1>1, <2>1, <2>2 DEF Guessing
  <1>4. ASSUME NEW h \in Handler, NEW v \in Signup, NEW right \in BOOLEAN,
               CountAttempts(h, v, right)
        PROVE  \/ Guessing(u)' = Guessing(u) /\ recent'[u] <= recent[u]
               \/ ~Locked(u) /\ recent'[u] = recent[u]
    <2>1. CASE u = v
      BY <1>1, <1>4, <2>1 DEF CountAttempts
    <2>2. CASE u # v
      <3>1. entry[h] = Idle /\ recent' = recent
        BY <1>4 DEF CountAttempts
      <3>2. entry'[h].user = v /\ \A g \in Handler \ {h} : entry'[g] = entry[g]
        BY <1>4 DEF CountAttempts, AuthTypeOK
      <3> QED  BY <1>1, <2>2, <3>1, <3>2 DEF Guessing
    <2> QED  BY <2>1, <2>2
  <1>5. ASSUME NEW h \in Handler, RecordFailure(h)
        PROVE  \/ Guessing(u)' = Guessing(u) /\ recent'[u] <= recent[u]
               \/ /\ h \in Guessing(u) /\ Guessing(u)' = Guessing(u) \ {h}
                  /\ recent'[u] <= recent[u] + 1
    <2>1. /\ entry[h] # Idle /\ ~entry[h].right /\ entry[h].user \in Signup
          /\ entry'[h] = Idle /\ \A g \in Handler \ {h} : entry'[g] = entry[g]
      BY <1>5 DEF RecordFailure, AuthTypeOK
    <2>2. /\ recent'[u] <= recent[u] + 1
          /\ u # entry[h].user => recent'[u] = recent[u]
      BY <1>1, <1>5, <2>1 DEF RecordFailure, AuthTypeOK
    <2>3. CASE u = entry[h].user
      BY <2>1, <2>2, <2>3 DEF Guessing
    <2>4. CASE u # entry[h].user
      BY <1>1, <2>1, <2>2, <2>4 DEF Guessing
    <2> QED  BY <2>3, <2>4
  <1>6. ASSUME NEW h \in Handler, RecordSuccess(h)
        PROVE  Guessing(u)' = Guessing(u) /\ recent'[u] <= recent[u]
    <2>1. /\ entry[h] # Idle /\ entry[h].right /\ recent' = recent
          /\ entry'[h] = Idle /\ \A g \in Handler \ {h} : entry'[g] = entry[g]
      BY <1>6 DEF RecordSuccess, AuthTypeOK
    <2> QED  BY <1>1, <2>1 DEF Guessing
  <1>7. CASE UNCHANGED authvars
    <2>1. entry' = entry /\ recent' = recent
      BY <1>7 DEF authvars, pinvars
    <2> QED  BY <1>1, <2>1 DEF Guessing
  <1>8. CASE \E h \in Handler : EnterPIN(h)
    BY <1>4, <1>5, <1>6, <1>8 DEF EnterPIN
  <1> QED  BY <1>2, <1>3, <1>7, <1>8 DEF AuthNext

\* Who ends a guess gives up the handler it took.
LEMMA FewerGuesses ==
    ASSUME NEW u, NEW h \in Guessing(u)
    PROVE  Cardinality(Guessing(u) \ {h}) = Cardinality(Guessing(u)) - 1
  BY GuessingIsFinite, FS_RemoveElement

\* Only a count below the limit lets an attempt begin, and each attempt that
\* begins takes a handler.
LEMMA NextGuessInv == GuessInv /\ [AuthNext]_authvars => GuessInv'
  <1> SUFFICES ASSUME GuessInv, [AuthNext]_authvars PROVE GuessInv'
    OBVIOUS
  <1>1. AuthTypeOK /\ AuthTypeOK' /\ MaxPINAttempts \in Nat \ {0}
    BY AuthTypes, AuthAssumption DEF GuessInv, AuthAssumption
  <1> SUFFICES ASSUME NEW u \in Signup
               PROVE  recent'[u] + Cardinality(Guessing(u)')
                            <= MaxPINAttempts - 1 + Cardinality(Handler)
    BY <1>1 DEF GuessInv, GuessesBounded
  <1>2. /\ recent[u] \in Nat /\ recent'[u] \in Nat
        /\ recent[u] + Cardinality(Guessing(u)) <= MaxPINAttempts - 1 + Cardinality(Handler)
    BY <1>1 DEF GuessInv, GuessesBounded, AuthTypeOK
  <1>3. Cardinality(Guessing(u)) \in Nat /\ Cardinality(Handler) \in Nat
    BY GuessingIsFinite
  <1>4. Cardinality(Guessing(u)') \in Nat /\ Cardinality(Guessing(u)') <= Cardinality(Handler)
    <2>1. Guessing(u)' \subseteq Handler
      BY DEF Guessing
    <2> QED  BY <2>1, AuthAssumption, FS_Subset, FS_CardinalityType DEF AuthAssumption
  <1>5. CASE Guessing(u)' = Guessing(u) /\ recent'[u] <= recent[u]
    BY <1>1, <1>2, <1>3, <1>5
  <1>6. CASE ~Locked(u) /\ recent'[u] = recent[u]
    <2>1. recent'[u] <= MaxPINAttempts - 1
      BY <1>1, <1>2, <1>6 DEF Locked
    <2> QED  BY <1>1, <1>2, <1>3, <1>4, <2>1
  <1>7. ASSUME NEW h \in Guessing(u), Guessing(u)' = Guessing(u) \ {h},
               recent'[u] <= recent[u] + 1
        PROVE  recent'[u] + Cardinality(Guessing(u)')
                            <= MaxPINAttempts - 1 + Cardinality(Handler)
    <2>1. Cardinality(Guessing(u)') = Cardinality(Guessing(u)) - 1
      BY <1>7, FewerGuesses
    <2> QED  BY <1>1, <1>2, <1>3, <1>7, <2>1
  <1> QED  BY <1>1, <1>5, <1>6, <1>7, GuessStep

\* Login and VerifyPIN, service/auth_service.go:136 and 178: wrong PINs within a
\* window stay below the limit and one for each handler, for any number of
\* handlers, users and attempts.
THEOREM GuessesBoundedAlways == AuthSpec => []GuessesBounded
  <1>1. AuthInit => GuessInv
    <2> SUFFICES ASSUME AuthInit PROVE GuessInv
      OBVIOUS
    <2>1. AuthTypeOK
      BY DEF AuthInit, AuthTypeOK, SignupStages
    <2>2. \A u \in Signup : recent[u] = 0 /\ Guessing(u) = {}
      BY DEF AuthInit, Guessing
    <2>3. Cardinality({}) = 0 /\ Cardinality(Handler) \in Nat /\ MaxPINAttempts \in Nat \ {0}
      BY AuthAssumption, FS_EmptySet, FS_CardinalityType DEF AuthAssumption
    <2>4. GuessesBounded
      <3> SUFFICES ASSUME NEW u \in Signup
                   PROVE  recent[u] + Cardinality(Guessing(u))
                                <= MaxPINAttempts - 1 + Cardinality(Handler)
        BY DEF GuessesBounded
      <3>1. recent[u] = 0 /\ Cardinality(Guessing(u)) = 0
        BY <2>2, <2>3
      <3> QED  BY <2>3, <3>1
    <2> QED  BY <2>1, <2>4 DEF GuessInv
  <1>2. GuessInv => GuessesBounded
    BY DEF GuessInv
  <1> QED  BY <1>1, <1>2, NextGuessInv, PTL DEF AuthSpec


\* The safety half of LockoutEnds, Login, service/auth_service.go:140: while a
\* user is locked, nobody begins another guess, and the failures that are still
\* recorded are those of guesses that had begun; so a lockout is prolonged by
\* one failure for each handler at the most, however long others go on trying.
THEOREM LockoutIsNotProlonged ==
    AuthSpec =>
        [][\A u \in Signup : Locked(u) =>
            /\ Guessing(u)' \subseteq Guessing(u)
            /\ recent'[u] + Cardinality(Guessing(u)')
                    <= recent[u] + Cardinality(Guessing(u))]_authvars
  <1>1. ASSUME AuthTypeOK, AuthTypeOK', [AuthNext]_authvars, NEW u \in Signup, Locked(u)
        PROVE  /\ Guessing(u)' \subseteq Guessing(u)
               /\ recent'[u] + Cardinality(Guessing(u)')
                        <= recent[u] + Cardinality(Guessing(u))
    <2>1. /\ recent[u] \in Nat /\ recent'[u] \in Nat
          /\ Cardinality(Guessing(u)) \in Nat
      BY <1>1, GuessingIsFinite DEF AuthTypeOK
    <2>2. CASE Guessing(u)' = Guessing(u) /\ recent'[u] <= recent[u]
      BY <2>1, <2>2
    <2>3. ASSUME NEW h \in Guessing(u), Guessing(u)' = Guessing(u) \ {h},
                 recent'[u] <= recent[u] + 1
          PROVE  /\ Guessing(u)' \subseteq Guessing(u)
                 /\ recent'[u] + Cardinality(Guessing(u)')
                        <= recent[u] + Cardinality(Guessing(u))
      <3>1. Cardinality(Guessing(u)') = Cardinality(Guessing(u)) - 1
        BY <2>3, FewerGuesses
      <3> QED  BY <2>1, <2>3, <3>1
    <2> QED  BY <1>1, <2>2, <2>3, GuessStep
  <1>2. AuthTypeOK /\ AuthTypeOK' /\ [AuthNext]_authvars =>
            [\A u \in Signup : Locked(u) =>
                /\ Guessing(u)' \subseteq Guessing(u)
                /\ recent'[u] + Cardinality(Guessing(u)')
                        <= recent[u] + Cardinality(Guessing(u))]_authvars
    BY <1>1
  <1> QED  BY <1>2, AuthTypeCorrect, PTL DEF AuthSpec

----------------------------------------------------------------------------
(* The server: the four parts side by side.                                *)

\* MCServer follows one part at a time, so each of its behaviours is a
\* behaviour of every part: what the theorems above say of a part for every
\* value of its constants, the runs check on the same specification.
THEOREM ServerIsItsParts == MCSpec => MigSpec /\ LimiterSpec /\ PipeSpec /\ AuthSpec
  <1>1. MCInit => MigInit /\ LimiterInit /\ PipeInit /\ AuthInit
    BY DEF MCInit
  <1>2. [MCNext]_MCvars =>
            /\ [MigNext]_migvars /\ [LimiterNext]_limitvars
            /\ [PipeNext]_pipevars /\ [AuthNext]_authvars
    BY DEF MCNext, MCvars, MigrationsMove, LimiterMoves, PipelineMoves, AuthMoves
  <1> QED  BY <1>1, <1>2, PTL DEF MCSpec, MigSpec, LimiterSpec, PipeSpec, AuthSpec

\* The server keeps its types: migrations, buckets, requests and accounts.
THEOREM ServerTypeCorrect == MCSpec => []ServerTypeOK
  <1>1. MigSpec => []MigTypeOK
    BY MigrationTypes
  <1>2. LimiterSpec => []LimiterTypeOK
    BY LimiterTypes
  <1>3. PipeSpec => []PipeTypeOK
    BY PipeInvAlways, PTL DEF PipeInv
  <1>4. AuthSpec => []AuthTypeOK
    BY AuthTypeCorrect
  <1>5. MigTypeOK /\ LimiterTypeOK /\ PipeTypeOK /\ AuthTypeOK => ServerTypeOK
    BY DEF ServerTypeOK
  <1> QED  BY <1>1, <1>2, <1>3, <1>4, <1>5, ServerIsItsParts, PTL

=============================================================================
