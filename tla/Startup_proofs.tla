--------------------------- MODULE Startup_proofs ---------------------------
(***************************************************************************)
(* What starting the server promises, for any files, any answers of the    *)
(* driver, any numbers of models, devices, routes and connections: what    *)
(* validation accepts starts, nothing is served before all is ready, and   *)
(* on a public interface nothing is open that should not be.               *)
(***************************************************************************)
EXTENDS Startup, FiniteSetTheorems, NaturalsInduction, WellFoundedInduction, SequenceTheorems, TLAPS

(***************************************************************************)
(* Facts about numbers, lists of checks and counted megabytes.             *)
(***************************************************************************)

\* Dividing a natural number.
LEMMA Division ==
  ASSUME NEW a \in Nat, NEW n \in Nat \ {0}
  PROVE  /\ a \div n \in Nat
         /\ a - (a \div n) * (n - 1) \in Nat
<1>1. a \div n \in Nat /\ a - (a \div n) * n \in Nat
  OBVIOUS
<1>2. (a \div n) * (n - 1) = (a \div n) * n - (a \div n)
  OBVIOUS
<1>3. QED
  BY <1>1, <1>2

\* A set of natural numbers that is not empty has a least element.
LEMMA LeastOne ==
  ASSUME NEW S \in SUBSET Nat, S # {}
  PROVE  Min(S) \in S
<1> DEFINE below == {ss \in Nat \X Nat : ss[1] < ss[2]}
<1>1. IsWellFoundedOn(below, Nat)
  BY NatLessThanWellFounded DEF OpToRel
<1>2. \E n \in S : \A k \in S : ~(<<k, n>> \in below)
  <2> HIDE DEF below
  <2>1. QED
    BY <1>1, WFMin
<1>3. PICK n \in S : \A k \in S : ~(<<k, n>> \in below)
  BY <1>2
<1>4. \A k \in S : ~(k < n)
  BY <1>3
<1>5. \A k \in S : n <= k
  BY <1>4
<1>6. QED
  BY <1>5 DEF Min

\* FirstFault is "ok" if every check is, and otherwise what one of them says.
LEMMA FaultsOf ==
  ASSUME NEW checks, DOMAIN checks \subseteq Nat
  PROVE  /\ FirstFault(checks) = "ok" => \A i \in DOMAIN checks : checks[i] = "ok"
         /\ FirstFault(checks) = "ok" \/ \E i \in DOMAIN checks : checks[i] = FirstFault(checks)
<1> DEFINE faults == {i \in DOMAIN checks : checks[i] # "ok"}
<1>1. CASE faults = {}
  BY <1>1 DEF FirstFault
<1>2. CASE faults # {}
  <2>1. Min(faults) \in faults
    BY <1>2, LeastOne
  <2>2. FirstFault(checks) = checks[Min(faults)]
    BY <1>2 DEF FirstFault
  <2>3. QED
    BY <2>1, <2>2
<1>3. QED
  BY <1>1, <1>2

\* The numbers up to any one are finitely many.
LEMMA FiniteInterval == \A n \in Nat : IsFiniteSet(1 .. n)
<1>1. TAKE n \in Nat
<1>2. QED
  BY FS_Interval

\* The megabytes of one model are as many as they say, and add at most as many.
LEMMA CountedMegabytes ==
  ASSUME NEW id, NEW mb \in Nat
  PROVE  IsFiniteSet(Megabytes(id, mb)) /\ Cardinality(Megabytes(id, mb)) = mb
<1>1. IsFiniteSet({id}) /\ Cardinality({id}) = 1
  BY FS_Singleton
<1>2. IsFiniteSet(1 .. mb) /\ Cardinality(1 .. mb) = mb
  BY FS_Interval
<1>3. IsFiniteSet({id} \X (1 .. mb)) /\ Cardinality({id} \X (1 .. mb)) = Cardinality({id}) * Cardinality(1 .. mb)
  BY <1>1, <1>2, FS_Product
<1>4. QED
  BY <1>1, <1>2, <1>3 DEF Megabytes

LEMMA MegabytesMore ==
  ASSUME NEW U, IsFiniteSet(U), NEW id, NEW mb \in Nat
  PROVE  /\ IsFiniteSet(U \cup Megabytes(id, mb))
         /\ Cardinality(U) \in Nat /\ Cardinality(U \cup Megabytes(id, mb)) \in Nat
         /\ Cardinality(U \cup Megabytes(id, mb)) <= Cardinality(U) + mb
         /\ U \cap Megabytes(id, mb) = {} => Cardinality(U \cup Megabytes(id, mb)) = Cardinality(U) + mb
<1> DEFINE M == Megabytes(id, mb)
<1>1. IsFiniteSet(M) /\ Cardinality(M) = mb
  BY CountedMegabytes
<1> HIDE DEF M
<1>2. /\ IsFiniteSet(U \cup M)
      /\ Cardinality(U \cup M) = Cardinality(U) + Cardinality(M) - Cardinality(U \cap M)
  BY <1>1, FS_Union
<1>3. IsFiniteSet(U \cap M) /\ Cardinality(U \cap M) \in Nat
  <2>1. U \cap M \in SUBSET M
    OBVIOUS
  <2>2. QED
    BY <1>1, <2>1, FS_Subset, FS_CardinalityType
<1>4. Cardinality(U) \in Nat /\ Cardinality(U \cup M) \in Nat
  BY <1>2, FS_CardinalityType
<1>5. U \cap M = {} => Cardinality(U \cap M) = 0
  BY FS_EmptySet
<1>6. QED
  BY <1>1, <1>2, <1>3, <1>4, <1>5 DEF M

(***************************************************************************)
(* What is known of a configuration, whatever was read or replaced in it.  *)
(***************************************************************************)

IsModel(m) ==
  /\ m.backend \in BackendTypes
  /\ m.lazy \in BOOLEAN /\ m.pin \in BOOLEAN
  /\ m.vram \subseteq Nat /\ m.size \in Nat
  /\ m.gpus \in Seq(0 .. (U32 - 1))
  /\ Len(m.adapters) \in Nat /\ DOMAIN m.adapters = 1 .. Len(m.adapters)

IsRule(rule) == Len(rule.targets) \in Nat /\ DOMAIN rule.targets = 1 .. Len(rule.targets)

IsRoute(r) ==
  /\ Len(r.rules) \in Nat /\ DOMAIN r.rules = 1 .. Len(r.rules)
  /\ \A j \in DOMAIN r.rules : IsRule(r.rules[j])

Shaped(c) ==
  /\ DOMAIN c = DOMAIN DefaultConfig
  /\ c.allowOpen \in BOOLEAN
  /\ c.budget.auto \in BOOLEAN /\ c.budget.mb \in Nat /\ c.headroom \in Nat
  /\ c.overrides \in [DOMAIN c.overrides -> Nat]
  /\ Len(c.keys) \in Nat /\ DOMAIN c.keys = 1 .. Len(c.keys)
  /\ Len(c.origins) \in Nat /\ DOMAIN c.origins = 1 .. Len(c.origins)
  /\ Len(c.models) \in Nat /\ DOMAIN c.models = 1 .. Len(c.models)
  /\ Len(c.routes) \in Nat /\ DOMAIN c.routes = 1 .. Len(c.routes)
  /\ \A i \in DOMAIN c.models : IsModel(c.models[i])
  /\ \A k \in DOMAIN c.routes : IsRoute(c.routes[k])

LEMMA TypedModel ==
  ASSUME NEW m \in ModelType
  PROVE  IsModel(m) /\ DOMAIN m = DOMAIN DefaultModel
<1>1. m.backend \in BackendTypes /\ m.lazy \in BOOLEAN /\ m.pin \in BOOLEAN /\ m.size \in Nat /\ m.vram \in SUBSET Nat
      /\ m.gpus \in Seq(0 .. (U32 - 1)) /\ m.adapters \in Seq([path : SUBSET STRING, repo : SUBSET STRING])
  BY DEF ModelType
<1>2. DOMAIN m = DOMAIN DefaultModel
  BY DEF ModelType, DefaultModel
<1>3. QED
  BY <1>1, <1>2 DEF IsModel

LEMMA TypedRoute ==
  ASSUME NEW r \in RouteType
  PROVE  IsRoute(r)
<1>1. r.rules \in Seq([matchers : SUBSET STRING, targets : Seq(STRING)])
  BY DEF RouteType
<1>2. ASSUME NEW j \in DOMAIN r.rules
      PROVE  IsRule(r.rules[j])
  <2> DEFINE rules == [matchers : SUBSET STRING, targets : Seq(STRING)]
  <2>1. r.rules[j] \in rules
    <3>1. r.rules \in Seq(rules)
      BY <1>1
    <3> HIDE DEF rules
    <3>2. QED
      BY <1>2, <3>1
  <2>2. r.rules[j].targets \in Seq(STRING)
    BY <2>1
  <2>3. QED
    BY <2>2 DEF IsRule
<1>3. QED
  BY <1>1, <1>2 DEF IsRoute

LEMMA TypedConfig ==
  ASSUME NEW c, IsConfig(c)
  PROVE  Shaped(c)
<1>1. /\ DOMAIN c = DOMAIN DefaultConfig
      /\ c.keys \in Seq(Texts) /\ c.origins \in Seq(STRING)
      /\ c.budget \in [auto : BOOLEAN, mb : Nat] /\ c.headroom \in Nat /\ c.allowOpen \in BOOLEAN
      /\ c.overrides \in [DOMAIN c.overrides -> Nat]
      /\ c.models \in Seq(ModelType) /\ c.routes \in Seq(RouteType)
  BY DEF IsConfig
<1>2. c.budget.auto \in BOOLEAN /\ c.budget.mb \in Nat
  BY <1>1
<1>3. ASSUME NEW i \in DOMAIN c.models
      PROVE  IsModel(c.models[i])
  BY <1>1, TypedModel
<1>4. ASSUME NEW k \in DOMAIN c.routes
      PROVE  IsRoute(c.routes[k])
  BY <1>1, TypedRoute
<1>5. QED
  BY <1>1, <1>2, <1>3, <1>4 DEF Shaped

\* Interpolation replaces the keys, and the key of each model.
LEMMA InterpolatedConfig ==
  ASSUME NEW c, IsConfig(c), NEW env
  PROVE  Shaped(Interpolate(c, env))
<1> DEFINE d == Interpolate(c, env)
           M == c.models
           N == [i \in DOMAIN M |-> [M[i] EXCEPT !.key = {Expand(t, env) : t \in M[i].key}]]
           K == [i \in DOMAIN c.keys |-> Expand(c.keys[i], env)]
<1>1. /\ DOMAIN d = DOMAIN c
      /\ d.models = N /\ d.keys = K
      /\ d.allowOpen = c.allowOpen /\ d.budget = c.budget /\ d.headroom = c.headroom
      /\ d.overrides = c.overrides /\ d.origins = c.origins /\ d.routes = c.routes
  <2>1. DOMAIN c = DOMAIN DefaultConfig
    BY DEF IsConfig
  <2>2. d = [c EXCEPT !.keys = K, !.models = N]
    BY DEF Interpolate
  <2>3. d = [[c EXCEPT !.keys = K] EXCEPT !.models = N]
    BY <2>2
  <2> HIDE DEF d, K, N
  <2>4. QED
    BY <2>1, <2>3 DEF DefaultConfig
<1>2. Shaped(c)
  BY TypedConfig
<1>3. Len(N) = Len(M) /\ DOMAIN N = DOMAIN M
  <2>1. DOMAIN N = DOMAIN M /\ DOMAIN M = 1 .. Len(M) /\ Len(M) \in Nat
    BY <1>2 DEF Shaped
  <2>2. \A i \in 1 .. Len(M) : N[i] \in {N[k] : k \in 1 .. Len(M)}
    OBVIOUS
  <2>3. N \in Seq({N[k] : k \in 1 .. Len(M)})
    <3>1. N \in [1 .. Len(M) -> {N[k] : k \in 1 .. Len(M)}]
      BY <2>1
    <3> HIDE DEF N, M
    <3>2. QED
      BY <2>1, <3>1
  <2> HIDE DEF N, M
  <2>4. QED
    BY <2>1, <2>3
<1>4. Len(K) = Len(c.keys) /\ DOMAIN K = DOMAIN c.keys
  <2>1. DOMAIN K = DOMAIN c.keys /\ DOMAIN c.keys = 1 .. Len(c.keys) /\ Len(c.keys) \in Nat
    BY <1>2 DEF Shaped
  <2>2. K \in [1 .. Len(c.keys) -> {K[k] : k \in 1 .. Len(c.keys)}]
    BY <2>1
  <2> HIDE DEF K
  <2>3. K \in Seq({K[k] : k \in 1 .. Len(c.keys)})
    BY <2>1, <2>2
  <2>4. QED
    BY <2>1, <2>3
<1>5. ASSUME NEW i \in DOMAIN N
      PROVE  IsModel(N[i])
  <2>1. i \in DOMAIN M /\ M \in Seq(ModelType)
    BY <1>5 DEF IsConfig
  <2>2. M[i] \in ModelType
    <3> HIDE DEF M
    <3>1. QED
      BY <2>1
  <2>3. IsModel(M[i]) /\ DOMAIN M[i] = DOMAIN DefaultModel
    BY <2>2, TypedModel
  <2>4. /\ N[i].backend = M[i].backend /\ N[i].lazy = M[i].lazy /\ N[i].pin = M[i].pin
        /\ N[i].vram = M[i].vram /\ N[i].size = M[i].size /\ N[i].gpus = M[i].gpus
        /\ N[i].adapters = M[i].adapters
    BY <1>5, <2>1, <2>3 DEF DefaultModel
  <2> HIDE DEF N, M
  <2>5. QED
    BY <2>3, <2>4 DEF IsModel
<1> HIDE DEF d, N, M, K
<1>6. QED
  BY <1>1, <1>2, <1>3, <1>4, <1>5 DEF Shaped, d, M

LEMMA OverriddenConfig ==
  ASSUME NEW c, Shaped(c), NEW host
  PROVE  Shaped(Override(c, host))
<1>1. CASE host = {}
  BY <1>1 DEF Override
<1>2. CASE host # {}
  <2> DEFINE d == [c EXCEPT !.host = The(host)]
  <2>1. /\ DOMAIN d = DOMAIN c
        /\ d.models = c.models /\ d.keys = c.keys /\ d.allowOpen = c.allowOpen /\ d.budget = c.budget
        /\ d.headroom = c.headroom /\ d.overrides = c.overrides /\ d.origins = c.origins /\ d.routes = c.routes
    BY DEF Shaped, DefaultConfig
  <2> HIDE DEF d
  <2>2. Shaped(d)
    BY <2>1 DEF Shaped
  <2>3. QED
    BY <1>2, <2>2 DEF Override, d
<1>3. QED
  BY <1>1, <1>2

\* Clamping changes the grace period only.
LEMMA ClampedConfig ==
  ASSUME NEW c, Shaped(c)
  PROVE  /\ Shaped(Clamped(c))
         /\ Clamped(c).host = c.host /\ Clamped(c).keys = c.keys /\ Clamped(c).allowOpen = c.allowOpen
         /\ Clamped(c).plaintext = c.plaintext /\ Clamped(c).metrics = c.metrics
         /\ Clamped(c).models = c.models /\ Clamped(c).routes = c.routes /\ Clamped(c).budget = c.budget
         /\ Clamped(c).headroom = c.headroom /\ Clamped(c).overrides = c.overrides
         /\ Clamped(c).origins = c.origins
<1> DEFINE d == Clamped(c)
<1>1. /\ DOMAIN d = DOMAIN c
      /\ d.host = c.host /\ d.keys = c.keys /\ d.allowOpen = c.allowOpen /\ d.plaintext = c.plaintext
      /\ d.metrics = c.metrics /\ d.models = c.models /\ d.routes = c.routes /\ d.budget = c.budget
      /\ d.headroom = c.headroom /\ d.overrides = c.overrides /\ d.origins = c.origins
  BY DEF Shaped, DefaultConfig, Clamped
<1> HIDE DEF d
<1>2. Shaped(d)
  BY <1>1 DEF Shaped
<1>3. QED
  BY <1>1, <1>2 DEF d

(***************************************************************************)
(* Who is admitted.                                                        *)
(***************************************************************************)

Early == {"read", "check", "budget", "load", "listen"}

Phases == Early \cup {"serving", "draining", "over"}

\* How the phases follow one another.
Forward ==
  phase' \in {phase, "over"}
  \/ <<phase, phase'>> \in {<<"budget", "load">>, <<"load", "listen">>, <<"listen", "serving">>,
                            <<"serving", "draining">>}

IsConn(k) ==
  /\ conn[k] = [state |-> conn[k].state, path |-> conn[k].path, keyed |-> conn[k].keyed, id |-> conn[k].id]
  /\ conn[k].keyed \in BOOLEAN

TypesInv ==
  /\ Shaped(config)
  /\ phase = "read" => IsConfig(config)
  /\ phase \in Phases
  /\ conn = [j \in Clients |-> conn[j]]
  /\ \A k \in Clients : IsConn(k)

\* Nobody is connected before the listeners are bound, and to nothing that the
\* posture forbids; while connections come the metrics are where they belong.
AccessInv ==
  /\ phase \in Early => \A k \in Clients : conn[k].state = "none"
  /\ phase \notin {"read", "check", "over"} => PostureFault(config) = "ok"
  /\ \A k \in Clients : conn[k].state # "none" => PostureFault(config) = "ok"
  /\ phase = "serving" /\ OwnMetricsListener => "metrics" \in listening
  /\ PublicNeedsKey

LEMMA AccessQuiet ==
  ASSUME TypesInv, AccessInv, UNCHANGED <<config, conn>>, listening \subseteq listening', Forward,
         phase # "serving" /\ phase' = "serving" /\ OwnMetricsListener => "metrics" \in listening'
  PROVE  TypesInv' /\ AccessInv'
<1>1. TypesInv'
  <2>1. phase' \in Phases /\ (phase' = "read" => phase = "read")
    BY DEF TypesInv, Forward, Phases, Early
  <2>2. \A k \in Clients : IsConn(k)'
    BY DEF TypesInv, IsConn
  <2>3. QED
    BY <2>1, <2>2 DEF TypesInv
<1>2. phase' \in Early => phase \in Early
  BY DEF TypesInv, Forward, Phases, Early
<1>3. phase' \notin {"read", "check", "over"} => phase \notin {"read", "check", "over"}
  BY DEF TypesInv, Forward, Phases, Early
<1>4. OwnMetricsListener' <=> OwnMetricsListener
  BY DEF OwnMetricsListener
<1>5. PublicNeedsKey'
  BY DEF AccessInv, PublicNeedsKey
<1>6. phase' = "serving" /\ OwnMetricsListener => "metrics" \in listening'
  BY DEF AccessInv
<1>7. QED
  BY <1>1, <1>2, <1>3, <1>4, <1>5, <1>6 DEF AccessInv

\* A fault ends the process, and otherwise it goes on.
LEMMA Passing ==
  ASSUME NEW from, NEW to, NEW fault, Pass(from, to, fault)
  PROVE  /\ phase = from
         /\ fault = "ok" => phase' = to /\ exit' = exit
         /\ fault # "ok" => phase' = "over" /\ exit' = fault
  BY DEF Pass, Phase, Abort

LEMMA ReadConfigAccess ==
  ASSUME TypesInv, AccessInv, ReadConfig
  PROVE  TypesInv' /\ AccessInv'
<1>1. PICK env \in Envs, host \in HostFlags :
        /\ Pass("read", "check", LoadFault(config, env))
        /\ config' = IF LoadFault(config, env) = "ok" THEN Override(Interpolate(config, env), host) ELSE config
  BY DEF ReadConfig
<1>2. phase = "read" /\ IsConfig(config) /\ conn' = conn
  BY <1>1, Passing DEF TypesInv, ReadConfig, serving
<1>3. phase' \in {"check", "over"}
  BY <1>1, Passing
<1>4. Shaped(config')
  <2>1. CASE LoadFault(config, env) = "ok"
    BY <1>1, <1>2, <2>1, InterpolatedConfig, OverriddenConfig
  <2>2. CASE LoadFault(config, env) # "ok"
    BY <1>1, <2>2 DEF TypesInv
  <2>3. QED
    BY <2>1, <2>2
<1>5. \A k \in Clients : IsConn(k)' /\ conn'[k].state = "none"
  BY <1>2 DEF TypesInv, AccessInv, IsConn, Early
<1>6. QED
  BY <1>2, <1>3, <1>4, <1>5 DEF TypesInv, AccessInv, PublicNeedsKey, Phases, Early

LEMMA CheckAccess ==
  ASSUME TypesInv, AccessInv, Check
  PROVE  TypesInv' /\ AccessInv'
<1>1. PICK answer \in Asked, installed \in Exporters :
        Pass("check", "budget",
             FirstFault(<<ValidateFault(config, answer), PostureFault(config), Unless(installed, "InstallFailed")>>))
  BY DEF Check
<1>2. phase = "check" /\ config' = Clamped(config) /\ conn' = conn
  BY <1>1, Passing DEF Check, serving
<1>3. phase' \in {"budget", "over"}
  BY <1>1, Passing
<1>4. Shaped(config')
  BY <1>2, ClampedConfig DEF TypesInv
<1>5. phase' = "budget" => PostureFault(config') = "ok"
  <2> DEFINE checks ==
        <<ValidateFault(config, answer), PostureFault(config), Unless(installed, "InstallFailed")>>
  <2>1. DOMAIN checks = {1, 2, 3} /\ checks[2] = PostureFault(config)
    OBVIOUS
  <2> HIDE DEF checks
  <2>2. FirstFault(checks) = "ok" => PostureFault(config) = "ok"
    BY <2>1, FaultsOf
  <2>3. PostureFault(config') = PostureFault(config)
    BY <1>2, ClampedConfig DEF TypesInv, PostureFault, BindsLoopback
  <2>4. QED
    BY <1>1, <2>2, <2>3, Passing DEF checks
<1>6. \A k \in Clients : IsConn(k)' /\ conn'[k].state = "none"
  BY <1>2 DEF TypesInv, AccessInv, IsConn, Early
<1>7. QED
  BY <1>2, <1>3, <1>4, <1>5, <1>6 DEF TypesInv, AccessInv, PublicNeedsKey, Phases, Early

LEMMA ListenAccess ==
  ASSUME TypesInv, AccessInv, Listen
  PROVE  TypesInv' /\ AccessInv'
<1>1. UNCHANGED <<config, conn>> /\ listening \subseteq listening' /\ phase = "listen"
  BY DEF Listen, serving, Abort, Phase
<1>2. Forward
  BY DEF Listen, Abort, Phase, Forward
<1>3. phase' = "serving" /\ OwnMetricsListener => "metrics" \in listening'
  BY <1>1 DEF Listen, Abort, Phase
<1>4. QED
  BY <1>1, <1>2, <1>3, AccessQuiet

\* A connection that changes keeps its path and its key, or is a new one that
\* has been admitted or refused.
LEMMA ConnectionAccess ==
  ASSUME TypesInv, AccessInv, NEW k \in Clients, NEW c, conn' = [conn EXCEPT ![k] = c],
         c = [state |-> c.state, path |-> c.path, keyed |-> c.keyed, id |-> c.id], c.keyed \in BOOLEAN,
         UNCHANGED <<config, phase, listening>>, phase \notin Early, PostureFault(config) = "ok",
         config.host = "public" /\ c.state \notin {"none", "refused"} /\ ~c.keyed =>
           config.allowOpen \/ c.path = "/health" \/ (c.path = "/metrics" /\ "metrics" \in listening)
  PROVE  TypesInv' /\ AccessInv'
<1>1. conn' = [j \in Clients |-> conn'[j]] /\ conn'[k] = c /\ \A j \in Clients \ {k} : conn'[j] = conn[j]
  BY DEF TypesInv
<1>2. ASSUME NEW j \in Clients
      PROVE  IsConn(j)'
  <2>1. CASE j = k
    BY <1>1, <2>1 DEF IsConn
  <2>2. CASE j # k
    BY <1>1, <2>2 DEF IsConn, TypesInv
  <2>3. QED
    BY <2>1, <2>2
<1>3. TypesInv'
  BY <1>1, <1>2 DEF TypesInv
<1>4. PublicNeedsKey'
  <2>1. ASSUME NEW j \in Clients, config.host = "public", conn'[j].state \notin {"none", "refused"}, ~conn'[j].keyed
        PROVE  config.allowOpen \/ conn'[j].path = "/health" \/ (conn'[j].path = "/metrics" /\ "metrics" \in listening)
    <3>1. CASE j = k
      BY <1>1, <2>1, <3>1
    <3>2. CASE j # k
      BY <1>1, <2>1, <3>2 DEF AccessInv, PublicNeedsKey
    <3>3. QED
      BY <3>1, <3>2
  <2>2. QED
    BY <2>1 DEF PublicNeedsKey
<1>5. QED
  BY <1>3, <1>4 DEF AccessInv, OwnMetricsListener

LEMMA ConnectAccess ==
  ASSUME TypesInv, AccessInv, NEW k \in Clients, Connect(k)
  PROVE  TypesInv' /\ AccessInv'
<1>1. phase = "serving" /\ UNCHANGED <<config, phase, listening>> /\ PostureFault(config) = "ok"
  BY DEF Connect, fixed, AccessInv
<1>2. PICK path \in Paths, keyed \in BOOLEAN :
        IF path = "chat" /\ Admitted(path, keyed)
        THEN \E id \in Locals :
               conn' = [conn EXCEPT ![k] = [state |-> "waiting", path |-> path, keyed |-> keyed, id |-> id]]
        ELSE conn' = [conn EXCEPT ![k] =
                        [state |-> IF ~Admitted(path, keyed) THEN "refused" ELSE IF path = "feed" THEN "open" ELSE "served",
                         path |-> path, keyed |-> keyed, id |-> ""]]
  BY DEF Connect
<1>3. \E state \in {"waiting", "refused", "open", "served"} : \E id :
        /\ conn' = [conn EXCEPT ![k] = [state |-> state, path |-> path, keyed |-> keyed, id |-> id]]
        /\ state # "refused" => Admitted(path, keyed)
  <2>1. CASE path = "chat" /\ Admitted(path, keyed)
    BY <1>2, <2>1
  <2>2. CASE ~(path = "chat" /\ Admitted(path, keyed))
    <3>1. CASE ~Admitted(path, keyed)
      BY <1>2, <2>2, <3>1
    <3>2. CASE Admitted(path, keyed) /\ path = "feed"
      BY <1>2, <2>2, <3>2
    <3>3. CASE Admitted(path, keyed) /\ path # "feed"
      BY <1>2, <2>2, <3>3
    <3>4. QED
      BY <3>1, <3>2, <3>3
  <2>3. QED
    BY <2>1, <2>2
<1>4. config.host = "public" /\ Admitted(path, keyed) /\ ~keyed =>
        config.allowOpen \/ path = "/health" \/ (path = "/metrics" /\ "metrics" \in listening)
  <2>1. config.host = "public" => config.keys # <<>> \/ config.allowOpen
    BY <1>1 DEF PostureFault, Unless, BindsLoopback
  <2>2. Admitted(path, keyed) /\ ~keyed => config.keys = <<>> \/ path = "/health" \/ (path = "/metrics" /\ OwnMetricsListener)
    BY DEF Admitted
  <2>3. OwnMetricsListener => "metrics" \in listening
    BY <1>1 DEF AccessInv
  <2>4. QED
    BY <2>1, <2>2, <2>3
<1>5. PICK state \in {"waiting", "refused", "open", "served"} : \E id :
        /\ conn' = [conn EXCEPT ![k] = [state |-> state, path |-> path, keyed |-> keyed, id |-> id]]
        /\ state # "refused" => Admitted(path, keyed)
  BY <1>3
<1>6. PICK id :
        /\ conn' = [conn EXCEPT ![k] = [state |-> state, path |-> path, keyed |-> keyed, id |-> id]]
        /\ state # "refused" => Admitted(path, keyed)
  BY <1>5
<1>7. PICK c : c = [state |-> state, path |-> path, keyed |-> keyed, id |-> id]
  OBVIOUS
<1>8. /\ c = [state |-> c.state, path |-> c.path, keyed |-> c.keyed, id |-> c.id]
      /\ c.state = state /\ c.path = path /\ c.keyed = keyed /\ c.keyed \in BOOLEAN
      /\ conn' = [conn EXCEPT ![k] = c]
  BY <1>6, <1>7
<1>9. phase \notin Early
  BY <1>1 DEF Early
<1>10. config.host = "public" /\ c.state \notin {"none", "refused"} /\ ~c.keyed =>
         config.allowOpen \/ c.path = "/health" \/ (c.path = "/metrics" /\ "metrics" \in listening)
  BY <1>4, <1>6, <1>8
<1>11. QED
  BY <1>1, <1>8, <1>9, <1>10, ConnectionAccess

\* A connection that waited or was open ends.
LEMMA EndAccess ==
  ASSUME TypesInv, AccessInv, NEW k \in Clients, NEW s \in {"served", "left"},
         conn[k].state \in {"waiting", "open"}, conn' = [conn EXCEPT ![k].state = s],
         UNCHANGED <<config, phase, listening>>
  PROVE  TypesInv' /\ AccessInv'
<1>1. PICK c : c = [conn[k] EXCEPT !.state = s]
  OBVIOUS
<1>2. PICK old : old = conn[k]
  OBVIOUS
<1>3. old = [state |-> old.state, path |-> old.path, keyed |-> old.keyed, id |-> old.id] /\ old.keyed \in BOOLEAN
  BY <1>2 DEF TypesInv, IsConn
<1>4. c = [old EXCEPT !.state = s]
  BY <1>1, <1>2
<1>5. /\ c = [state |-> c.state, path |-> c.path, keyed |-> c.keyed, id |-> c.id]
      /\ c.path = old.path /\ c.keyed = old.keyed
  BY <1>3, <1>4
<1>6. conn' = [conn EXCEPT ![k] = c]
  BY <1>1
<1>7. phase \notin Early /\ PostureFault(config) = "ok"
  BY DEF AccessInv
<1>8. config.host = "public" /\ ~c.keyed =>
        config.allowOpen \/ c.path = "/health" \/ (c.path = "/metrics" /\ "metrics" \in listening)
  BY <1>2, <1>5 DEF AccessInv, PublicNeedsKey
<1>9. QED
  BY <1>3, <1>5, <1>6, <1>7, <1>8, ConnectionAccess

LEMMA GenerationEndsAccess ==
  ASSUME TypesInv, AccessInv, NEW k \in Clients, GenerationEnds(k)
  PROVE  TypesInv' /\ AccessInv'
<1>1. /\ conn' = [conn EXCEPT ![k].state = IF conn[k].state = "waiting" THEN "served" ELSE conn[k].state]
      /\ UNCHANGED <<config, phase, listening>>
  BY DEF GenerationEnds, fixed
<1>2. CASE conn[k].state = "waiting"
  <2>1. conn' = [conn EXCEPT ![k].state = "served"]
    BY <1>1, <1>2
  <2>2. QED
    BY <1>1, <1>2, <2>1, EndAccess
<1>3. CASE conn[k].state # "waiting"
  <2>1. conn' = conn
    <3>1. PICK old : old = conn[k]
      OBVIOUS
    <3>2. old = [state |-> old.state, path |-> old.path, keyed |-> old.keyed, id |-> old.id]
      BY <3>1 DEF TypesInv, IsConn
    <3>3. [old EXCEPT !.state = old.state] = old
      BY <3>2
    <3>4. conn' = [conn EXCEPT ![k] = old]
      BY <1>1, <1>3, <3>1, <3>3
    <3>5. QED
      BY <1>1, <1>3, <3>1, <3>3, <3>4 DEF TypesInv
  <2>2. Forward
    BY <1>1 DEF Forward
  <2>3. QED
    BY <1>1, <2>1, <2>2, AccessQuiet
<1>4. QED
  BY <1>2, <1>3

LEMMA LeaveAccess ==
  ASSUME TypesInv, AccessInv, NEW k \in Clients, Leave(k)
  PROVE  TypesInv' /\ AccessInv'
  BY EndAccess DEF Leave, fixed

LEMMA QuietAccess ==
  ASSUME TypesInv, AccessInv,
         \/ ResolveBudgets \/ LoadModel \/ CompileRoute \/ BindEvictor \/ Signal \/ ConnectionsDone
         \/ (\E id \in Ids : Drain(id)) \/ Exit \/ UNCHANGED startupVars
  PROVE  TypesInv' /\ AccessInv'
<1>1. CASE ResolveBudgets
  BY <1>1, AccessQuiet, Passing DEF ResolveBudgets, Pass, Phase, Abort, Forward, serving
<1>2. CASE LoadModel
  BY <1>2, AccessQuiet DEF LoadModel, LoadBackend, Abort, Forward, serving
<1>3. CASE CompileRoute
  BY <1>3, AccessQuiet DEF CompileRoute, Abort, Forward, serving
<1>4. CASE BindEvictor
  BY <1>4, AccessQuiet DEF BindEvictor, Phase, Forward, serving
<1>5. CASE Signal
  BY <1>5, AccessQuiet DEF Signal, Forward, fixed
<1>6. CASE ConnectionsDone
  BY <1>6, AccessQuiet DEF ConnectionsDone, Phase, Forward, fixed, serving
<1>7. CASE \E id \in Ids : Drain(id)
  BY <1>7, AccessQuiet DEF Drain, Forward, fixed
<1>8. CASE Exit
  BY <1>8, AccessQuiet DEF Exit, Abort, Forward, fixed, serving
<1>9. CASE UNCHANGED startupVars
  BY <1>9, AccessQuiet DEF Forward, startupVars
<1>10. QED
  BY <1>1, <1>2, <1>3, <1>4, <1>5, <1>6, <1>7, <1>8, <1>9

LEMMA AccessStep ==
  ASSUME TypesInv, AccessInv, [StartupNext]_startupVars
  PROVE  TypesInv' /\ AccessInv'
<1>1. CASE ReadConfig
  BY <1>1, ReadConfigAccess
<1>2. CASE Check
  BY <1>2, CheckAccess
<1>3. CASE Listen
  BY <1>3, ListenAccess
<1>4. ASSUME NEW k \in Clients, ClientStep(k)
      PROVE  TypesInv' /\ AccessInv'
  BY <1>4, ConnectAccess, GenerationEndsAccess, LeaveAccess DEF ClientStep
<1>5. QED
  BY <1>1, <1>2, <1>3, <1>4, QuietAccess DEF StartupNext, StartupStep, DrainStep

LEMMA AccessStart == StartupInit => TypesInv /\ AccessInv
<1> SUFFICES ASSUME StartupInit
             PROVE  TypesInv /\ AccessInv
  OBVIOUS
<1>1. /\ IsConfig(config) /\ phase = "read"
      /\ conn = [k \in Clients |-> NoConn]
  BY StartupAssumption DEF StartupInit
<1>2. \A k \in Clients : IsConn(k) /\ conn[k].state = "none"
  BY <1>1 DEF IsConn, NoConn
<1>3. TypesInv
  BY <1>1, <1>2, TypedConfig DEF TypesInv, Phases, Early
<1>4. QED
  BY <1>1, <1>2, <1>3 DEF AccessInv, PublicNeedsKey

\* On a public interface a request without a key reaches a handler only where the
\* operator allowed it: auth_middleware and validate_security_posture together
\* leave nothing open.
THEOREM NothingOpenInPublic == StartupSpec => []PublicNeedsKey
<1>1. TypesInv /\ AccessInv /\ [StartupNext]_startupVars => (TypesInv /\ AccessInv)'
  BY AccessStep
<1>2. TypesInv /\ AccessInv => PublicNeedsKey
  BY DEF AccessInv
<1>3. QED
  BY AccessStart, <1>1, <1>2, PTL DEF StartupSpec

(***************************************************************************)
(* What validation establishes.                                            *)
(***************************************************************************)

\* Ids name one model or one route, and routes lead to models.
Valid(c) ==
  /\ \A i, j \in DOMAIN c.models : c.models[i].id = c.models[j].id => i = j
  /\ \A k, l \in DOMAIN c.routes : c.routes[k].id = c.routes[l].id => k = l
  /\ \A k \in DOMAIN c.routes : c.routes[k].id \notin ModelIds(c)
  /\ \A k \in DOMAIN c.routes : \A j \in DOMAIN c.routes[k].rules :
       LET rule == c.routes[k].rules[j] IN
       /\ "bad_regex" \notin rule.matchers
       /\ \A t \in DOMAIN rule.targets : rule.targets[t] \in ModelIds(c)

\* As many ids as models: no id is given twice.
LEMMA IdsAreDistinct ==
  ASSUME NEW c, Shaped(c), Cardinality(ModelIds(c)) = Len(c.models),
         NEW i \in DOMAIN c.models, NEW j \in DOMAIN c.models, c.models[i].id = c.models[j].id
  PROVE  i = j
<1> DEFINE n == Len(c.models)
           f == [k \in 1 .. n |-> c.models[k].id]
<1>1. n \in Nat /\ DOMAIN c.models = 1 .. n
  BY DEF Shaped
<1>2. IsFiniteSet(1 .. n) /\ Cardinality(1 .. n) = n
  BY <1>1, FS_Interval
<1>3. f \in Surjection(1 .. n, ModelIds(c))
  <2>1. ModelIds(c) = {c.models[k].id : k \in 1 .. n}
    BY <1>1 DEF ModelIds
  <2>2. f \in [1 .. n -> ModelIds(c)]
    BY <2>1
  <2>3. \A x \in ModelIds(c) : \E k \in 1 .. n : f[k] = x
    BY <2>1
  <2> HIDE DEF f, n
  <2>4. QED
    BY <2>2, <2>3 DEF Surjection
<1>4. f \in Injection(1 .. n, ModelIds(c))
  <2> HIDE DEF f
  <2>1. Cardinality(ModelIds(c)) = n
    OBVIOUS
  <2> HIDE DEF n
  <2>2. QED
    BY <1>2, <1>3, <2>1, FS_Surjection
<1>5. f[i] = f[j]
  BY <1>1
<1>6. i \in 1 .. n /\ j \in 1 .. n
  BY <1>1
<1>7. QED
  <2> HIDE DEF f, n
  <2>1. QED
    BY <1>4, <1>5, <1>6 DEF Injection, IsInjective

LEMMA RuleIsValid ==
  ASSUME NEW c, NEW rule, IsRule(rule), RuleFault(c, rule) = "ok"
  PROVE  /\ "bad_regex" \notin rule.matchers
         /\ \A t \in DOMAIN rule.targets : rule.targets[t] \in ModelIds(c)
<1> DEFINE targetFault(t) == FirstFault(<<Unless(t \notin RouteIds(c), "RouteTargetsRoute"),
                                          Unless(t \in ModelIds(c), "RouteTargetUnknown")>>)
           targets == [t \in DOMAIN rule.targets |-> targetFault(rule.targets[t])]
           checks == <<Unless(rule.targets # <<>>, "RuleNoTargets"), FirstFault(targets),
                       Unless("bad_regex" \notin rule.matchers, "InvalidRegex")>>
<1>1. FirstFault(checks) = "ok"
  BY DEF RuleFault
<1>2. /\ DOMAIN checks = {1, 2, 3}
      /\ checks[2] = FirstFault(targets)
      /\ checks[3] = Unless("bad_regex" \notin rule.matchers, "InvalidRegex")
  OBVIOUS
<1>3. FirstFault(targets) = "ok" /\ Unless("bad_regex" \notin rule.matchers, "InvalidRegex") = "ok"
  <2> HIDE DEF checks, targets
  <2>1. QED
    BY <1>1, <1>2, FaultsOf
<1>4. "bad_regex" \notin rule.matchers
  BY <1>3 DEF Unless
<1>5. ASSUME NEW t \in DOMAIN rule.targets
      PROVE  rule.targets[t] \in ModelIds(c)
  <2>1. DOMAIN targets = DOMAIN rule.targets /\ targets[t] = targetFault(rule.targets[t])
    BY <1>5
  <2>2. DOMAIN rule.targets \subseteq Nat
    BY DEF IsRule
  <2>3. targets[t] = "ok"
    <3> HIDE DEF targets
    <3>1. QED
      BY <1>3, <1>5, <2>1, <2>2, FaultsOf
  <2> DEFINE both == <<Unless(rule.targets[t] \notin RouteIds(c), "RouteTargetsRoute"),
                       Unless(rule.targets[t] \in ModelIds(c), "RouteTargetUnknown")>>
  <2>4. DOMAIN both = {1, 2} /\ both[2] = Unless(rule.targets[t] \in ModelIds(c), "RouteTargetUnknown")
    OBVIOUS
  <2>5. FirstFault(both) = "ok"
    BY <2>1, <2>3
  <2>6. both[2] = "ok"
    <3> HIDE DEF both
    <3>1. QED
      BY <2>4, <2>5, FaultsOf
  <2>7. QED
    BY <2>4, <2>6 DEF Unless
<1>6. QED
  BY <1>4, <1>5

LEMMA RouteIsValid ==
  ASSUME NEW c, NEW k \in DOMAIN c.routes, IsRoute(c.routes[k]), RouteFault(c, k) = "ok"
  PROVE  /\ \A j \in 1 .. (k - 1) : c.routes[j].id # c.routes[k].id
         /\ c.routes[k].id \notin ModelIds(c)
         /\ \A j \in DOMAIN c.routes[k].rules : RuleFault(c, c.routes[k].rules[j]) = "ok"
<1> DEFINE r == c.routes[k]
           rules == [j \in DOMAIN r.rules |-> RuleFault(c, r.rules[j])]
           checks == <<Unless(r.id # "", "RouteEmptyId"),
                       Unless(\A j \in 1 .. (k - 1) : c.routes[j].id # r.id, "DuplicateRouteId"),
                       Unless(r.id \notin ModelIds(c), "RouteIdCollision"),
                       Unless(r.rules # <<>>, "RouteNoRules"),
                       FirstFault(rules),
                       Unless(\E j \in DOMAIN r.rules : MatchesAll(r.rules[j]), "RouteNoCatchAll")>>
<1>1. FirstFault(checks) = "ok"
  BY DEF RouteFault
<1>2. /\ DOMAIN checks = {1, 2, 3, 4, 5, 6}
      /\ checks[2] = Unless(\A j \in 1 .. (k - 1) : c.routes[j].id # r.id, "DuplicateRouteId")
      /\ checks[3] = Unless(r.id \notin ModelIds(c), "RouteIdCollision")
      /\ checks[5] = FirstFault(rules)
  OBVIOUS
<1>3. checks[2] = "ok" /\ checks[3] = "ok" /\ checks[5] = "ok"
  <2>1. DOMAIN checks = {1, 2, 3, 4, 5, 6}
    BY <1>2
  <2> HIDE DEF checks
  <2>2. \A i \in DOMAIN checks : checks[i] = "ok"
    BY <1>1, <2>1, FaultsOf
  <2>3. QED
    BY <2>1, <2>2
<1>4. ASSUME NEW j \in DOMAIN r.rules
      PROVE  RuleFault(c, r.rules[j]) = "ok"
  <2>1. DOMAIN rules = DOMAIN r.rules /\ rules[j] = RuleFault(c, r.rules[j])
    BY <1>4
  <2>2. DOMAIN r.rules \subseteq Nat
    BY DEF IsRoute
  <2>3. FirstFault(rules) = "ok"
    BY <1>2, <1>3
  <2> HIDE DEF rules, r
  <2>4. QED
    BY <1>4, <2>1, <2>2, <2>3, FaultsOf
<1>5. /\ Unless(\A j \in 1 .. (k - 1) : c.routes[j].id # r.id, "DuplicateRouteId") = "ok"
      /\ Unless(r.id \notin ModelIds(c), "RouteIdCollision") = "ok"
  <2> HIDE DEF checks
  <2>1. QED
    BY <1>2, <1>3
<1> HIDE DEF checks, rules
<1>6. QED
  BY <1>4, <1>5 DEF Unless

LEMMA StaticIsValid ==
  ASSUME NEW c, Shaped(c), StaticFault(c) = "ok"
  PROVE  Valid(c)
<1> DEFINE M == c.models
           routes == [k \in DOMAIN c.routes |-> RouteFault(c, k)]
           checks == <<Unless(M # <<>>, "NoModelsConfigured"),
                       Unless("" \notin ModelIds(c), "EmptyModelId"),
                       Unless(Cardinality(ModelIds(c)) = Len(M), "DuplicateModelId"),
                       FirstFault([i \in DOMAIN M |-> BackendFault(M[i], c.plaintext)]),
                       FirstFault(routes),
                       ServerFault(c),
                       FirstFault([i \in DOMAIN M |-> PlacementFault(M[i])])>>
<1>1. FirstFault(checks) = "ok"
  BY DEF StaticFault
<1>2. /\ DOMAIN checks = {1, 2, 3, 4, 5, 6, 7}
      /\ checks[3] = Unless(Cardinality(ModelIds(c)) = Len(M), "DuplicateModelId")
      /\ checks[5] = FirstFault(routes)
  OBVIOUS
<1>3. Unless(Cardinality(ModelIds(c)) = Len(M), "DuplicateModelId") = "ok" /\ FirstFault(routes) = "ok"
  <2> HIDE DEF checks, routes, M
  <2>1. QED
    BY <1>1, <1>2, FaultsOf
<1>4. Cardinality(ModelIds(c)) = Len(c.models)
  BY <1>3 DEF Unless
<1>5. \A i, j \in DOMAIN c.models : c.models[i].id = c.models[j].id => i = j
  BY <1>4, IdsAreDistinct
<1>6. ASSUME NEW k \in DOMAIN c.routes
      PROVE  RouteFault(c, k) = "ok"
  <2>1. DOMAIN routes = DOMAIN c.routes /\ routes[k] = RouteFault(c, k)
    BY <1>6
  <2>2. DOMAIN c.routes \subseteq Nat
    BY DEF Shaped
  <2> HIDE DEF routes
  <2>3. QED
    BY <1>3, <1>6, <2>1, <2>2, FaultsOf
<1>7. ASSUME NEW k \in DOMAIN c.routes
      PROVE  /\ \A j \in 1 .. (k - 1) : c.routes[j].id # c.routes[k].id
             /\ c.routes[k].id \notin ModelIds(c)
             /\ \A j \in DOMAIN c.routes[k].rules : RuleFault(c, c.routes[k].rules[j]) = "ok"
  BY <1>6, <1>7, RouteIsValid DEF Shaped
<1>8. ASSUME NEW k \in DOMAIN c.routes, NEW l \in DOMAIN c.routes, c.routes[k].id = c.routes[l].id
      PROVE  k = l
  <2>1. DOMAIN c.routes = 1 .. Len(c.routes) /\ Len(c.routes) \in Nat
    BY DEF Shaped
  <2>2. ~(k < l) /\ ~(l < k)
    BY <1>7, <1>8, <2>1
  <2>3. QED
    BY <2>1, <2>2
<1>9. ASSUME NEW k \in DOMAIN c.routes, NEW j \in DOMAIN c.routes[k].rules
      PROVE  LET rule == c.routes[k].rules[j] IN
             /\ "bad_regex" \notin rule.matchers
             /\ \A t \in DOMAIN rule.targets : rule.targets[t] \in ModelIds(c)
  <2>1. IsRule(c.routes[k].rules[j])
    BY <1>9 DEF Shaped, IsRoute
  <2>2. QED
    BY <1>7, <1>9, <2>1, RuleIsValid
<1>10. QED
  BY <1>5, <1>7, <1>8, <1>9 DEF Valid

\* A bounded set of natural numbers that is not empty has a greatest element.
LEMMA GreatestOne ==
  ASSUME NEW S \in SUBSET Nat, S # {}, NEW b \in Nat, \A k \in S : k <= b
  PROVE  Max(S) \in S
<1> DEFINE gaps == {b - k : k \in S}
<1>1. gaps \in SUBSET Nat /\ gaps # {}
  <2>1. \A k \in S : b - k \in Nat
    OBVIOUS
  <2>2. QED
    BY <2>1
<1>2. IsWellFoundedOn({ss \in Nat \X Nat : ss[1] < ss[2]}, Nat)
  BY NatLessThanWellFounded DEF OpToRel
<1>3. PICK d \in gaps : \A e \in gaps : ~(<<e, d>> \in {ss \in Nat \X Nat : ss[1] < ss[2]})
  <2> HIDE DEF gaps
  <2> DEFINE below == {ss \in Nat \X Nat : ss[1] < ss[2]}
  <2>1. IsWellFoundedOn(below, Nat)
    BY <1>2
  <2> HIDE DEF below
  <2>2. \E d \in gaps : \A e \in gaps : ~(<<e, d>> \in below)
    BY <1>1, <2>1, WFMin
  <2>3. QED
    BY <2>2 DEF below
<1>4. PICK n \in S : d = b - n
  OBVIOUS
<1>5. \A k \in S : ~(b - k < b - n)
  <2>1. \A e \in gaps : ~(e < d)
    <3> HIDE DEF gaps
    <3>1. d \in Nat /\ \A e \in gaps : e \in Nat
      BY <1>1
    <3>2. QED
      BY <1>3, <3>1
  <2>2. QED
    BY <1>4, <2>1
<1>6. \A k \in S : n >= k
  BY <1>5
<1>7. QED
  BY <1>6 DEF Max

LEMMA DeclaredAreNat ==
  ASSUME NEW c, Shaped(c)
  PROVE  DeclaredDevices(c) \in Nat
<1> DEFINE named == UNION {Range(c.models[i].gpus) : i \in DOMAIN c.models}
<1>1. U32 \in Nat \ {0}
  BY ConfigAssumption
<1>2. ASSUME NEW g \in named
      PROVE  g \in Nat /\ g <= U32
  <2>1. PICK i \in DOMAIN c.models : g \in Range(c.models[i].gpus)
    BY <1>2
  <2>2. c.models[i].gpus \in Seq(0 .. (U32 - 1))
    BY DEF Shaped, IsModel
  <2>3. g \in 0 .. (U32 - 1)
    <3>1. PICK s : s = c.models[i].gpus
      OBVIOUS
    <3>2. PICK k \in DOMAIN s : g = s[k]
      BY <2>1, <3>1 DEF Range
    <3>3. s \in Seq(0 .. (U32 - 1))
      BY <2>2, <3>1
    <3> DEFINE D == 0 .. (U32 - 1)
    <3>4. s \in Seq(D)
      BY <3>3
    <3>5. \A j \in DOMAIN s : s[j] \in D
      <4> HIDE DEF D
      <4>1. QED
        BY <3>4
    <3>6. QED
      BY <3>2, <3>5
  <2>4. QED
    BY <1>1, <2>3
<1>3. CASE named = {}
  BY <1>3 DEF DeclaredDevices
<1>4. CASE named # {}
  <2>1. DeclaredDevices(c) = (Max(named) + 1) % U32
    BY <1>4 DEF DeclaredDevices
  <2>2. Max(named) \in named
    <3>1. named \in SUBSET Nat /\ \A g \in named : g <= U32
      BY <1>2
    <3> HIDE DEF named
    <3>2. QED
      BY <1>1, <1>4, <3>1, GreatestOne
  <2>3. Max(named) \in Nat
    <3> HIDE DEF named
    <3>1. QED
      BY <1>2, <2>2
  <2>4. PICK n \in Nat : n = Max(named)
    BY <2>3
  <2>5. (n + 1) % U32 \in Nat
    BY <1>1
  <2>6. QED
    BY <2>1, <2>4, <2>5
<1>5. QED
  BY <1>3, <1>4

\* Budgets are natural numbers, one for each device.
LEMMA BudgetsAreNat ==
  ASSUME NEW c, Shaped(c), NEW f \in Seq(Nat), BudgetsFault(c, f) = "ok"
  PROVE  Budgets(c, f) \in Seq(Nat)
<1> DEFINE start == IF c.budget.auto THEN [i \in DOMAIN f |-> f[i] - c.headroom]
                                     ELSE [i \in 1 .. DeclaredDevices(c) |-> c.budget.mb]
           B == Budgets(c, f)
<1>1. \E n \in Nat : DOMAIN start = 1 .. n /\ \A i \in 1 .. n : start[i] \in Nat
  <2>1. CASE c.budget.auto
    <3> DEFINE count == IF c.budget.auto THEN Len(f) ELSE DeclaredDevices(c)
               checks == <<Unless(c.budget.auto => f # <<>>, "VramAutoDetectFailed"),
                           Unless(c.budget.auto => \A n \in Range(f) : n > c.headroom, "VramAutoDetectInsufficient"),
                           Unless(\A g \in DOMAIN c.overrides : g < count, "VramOverrideUnknownGpu")>>
    <3>1. FirstFault(checks) = "ok"
      BY DEF BudgetsFault
    <3>2. /\ DOMAIN checks = {1, 2, 3}
          /\ checks[2] = Unless(c.budget.auto => \A n \in Range(f) : n > c.headroom, "VramAutoDetectInsufficient")
      OBVIOUS
    <3>3. checks[2] = "ok"
      <4>1. DOMAIN checks = {1, 2, 3}
        BY <3>2
      <4> HIDE DEF checks
      <4>2. \A i \in DOMAIN checks : checks[i] = "ok"
        BY <3>1, <4>1, FaultsOf
      <4>3. QED
        BY <4>1, <4>2
    <3> HIDE DEF checks, start
    <3>4. \A n \in Range(f) : n > c.headroom
      BY <2>1, <3>2, <3>3 DEF Unless
    <3>5. DOMAIN f = 1 .. Len(f) /\ Len(f) \in Nat /\ c.headroom \in Nat
      BY DEF Shaped
    <3>6. \A i \in DOMAIN f : f[i] \in Nat /\ f[i] > c.headroom
      BY <3>4 DEF Range
    <3>7. \A i \in DOMAIN f : f[i] - c.headroom \in Nat
      BY <3>5, <3>6
    <3>8. start = [i \in DOMAIN f |-> f[i] - c.headroom]
      BY <2>1 DEF start
    <3>9. QED
      BY <3>5, <3>7, <3>8
  <2>2. CASE ~c.budget.auto
    <3>1. DeclaredDevices(c) \in Nat /\ c.budget.mb \in Nat
      BY DeclaredAreNat DEF Shaped
    <3>2. QED
      BY <2>2, <3>1
  <2>3. QED
    BY <2>1, <2>2
<1>2. PICK n \in Nat : DOMAIN start = 1 .. n /\ \A i \in 1 .. n : start[i] \in Nat
  BY <1>1
<1>3. B = [i \in DOMAIN start |-> IF (i - 1) \in DOMAIN c.overrides THEN c.overrides[i - 1] ELSE start[i]]
  BY DEF Budgets
<1> HIDE DEF start, B
<1>4. DOMAIN B = 1 .. n /\ B \in [1 .. n -> Nat]
  <2>1. \A g \in DOMAIN c.overrides : c.overrides[g] \in Nat
    BY DEF Shaped
  <2>2. \A i \in 1 .. n : (IF (i - 1) \in DOMAIN c.overrides THEN c.overrides[i - 1] ELSE start[i]) \in Nat
    BY <1>2, <2>1
  <2>3. QED
    BY <1>2, <1>3, <2>2
<1>5. B \in Seq(Nat)
  BY <1>4
<1>6. QED
  BY <1>5 DEF B

LEMMA CostIsNat ==
  ASSUME NEW m, IsModel(m)
  PROVE  Estimate(m) \in Nat /\ \A g : CostOn(m, g) \in Nat
<1>1. Estimate(m) \in Nat
  <2>1. CASE m.vram # {}
    BY <2>1 DEF Estimate, The, IsModel
  <2>2. CASE m.vram = {}
    <3>1. PICK s \in Nat : s = m.size
      BY DEF IsModel
    <3>2. s * 6 \in Nat
      OBVIOUS
    <3>3. (s * 6) \div 5 \in Nat
      BY <3>2, Division
    <3>4. QED
      BY <2>2, <3>1, <3>3 DEF Estimate
  <2>3. QED
    BY <2>1, <2>2
<1>2. ASSUME NEW g
      PROVE  CostOn(m, g) \in Nat
  <2>1. CASE g \notin Range(m.gpus)
    BY <2>1 DEF CostOn
  <2>2. CASE g \in Range(m.gpus)
    <3>1. PICK n \in Nat : n = Len(m.gpus)
      BY DEF IsModel
    <3>2. n # 0
      <4>1. m.gpus \in Seq(0 .. (U32 - 1)) /\ DOMAIN m.gpus # {}
        BY <2>2 DEF IsModel, Range
      <4>2. QED
        BY <3>1, <4>1
    <3>3. PICK e \in Nat : e = Estimate(m)
      BY <1>1
    <3>4. e \div n \in Nat /\ e - (e \div n) * (n - 1) \in Nat
      BY <3>2, Division
    <3>5. CostOn(m, g) = IF g = m.gpus[1] THEN e - (e \div n) * (n - 1) ELSE e \div n
      BY <2>2, <3>1, <3>3 DEF CostOn
    <3>6. QED
      BY <3>4, <3>5
  <2>3. QED
    BY <2>1, <2>2
<1>3. QED
  BY <1>1, <1>2

\* The eager models fit together, each on devices that exist.
Fitting(c, budgets) ==
  /\ \A i \in DOMAIN c.models : \A g \in Range(c.models[i].gpus) : g < Len(budgets)
  /\ \A i \in DOMAIN budgets : budgets[i] > 0 => ~(Need(c, EagerOnes(c), i - 1) > budgets[i])

LEMMA FitMeans ==
  ASSUME NEW c, NEW budgets, FitFault(c, budgets) = "ok"
  PROVE  Fitting(c, budgets)
<1> DEFINE known == \A i \in DOMAIN c.models : \A g \in Range(c.models[i].gpus) : g < Len(budgets)
           checks == <<Unless(known, "GpuIdExceedsDetected"),
                       Unless(~Overflow(c, budgets, EagerOnes(c)), "EagerLoadsExceedBudget"),
                       Unless(~Overflow(c, budgets, PinnedOnes(c)), "PinnedExceedsBudget")>>
<1>1. FirstFault(checks) = "ok"
  BY DEF FitFault
<1>2. /\ DOMAIN checks = {1, 2, 3}
      /\ checks[1] = Unless(known, "GpuIdExceedsDetected")
      /\ checks[2] = Unless(~Overflow(c, budgets, EagerOnes(c)), "EagerLoadsExceedBudget")
  <2> HIDE DEF known
  <2>1. QED
    OBVIOUS
<1>3. checks[1] = "ok" /\ checks[2] = "ok"
  <2>1. DOMAIN checks = {1, 2, 3}
    BY <1>2
  <2> HIDE DEF checks
  <2>2. \A i \in DOMAIN checks : checks[i] = "ok"
    BY <1>1, <2>1, FaultsOf
  <2>3. QED
    BY <2>1, <2>2
<1>4. known /\ ~Overflow(c, budgets, EagerOnes(c))
  <2> HIDE DEF checks, known
  <2>1. QED
    BY <1>2, <1>3 DEF Unless
<1>5. QED
  BY <1>4 DEF Fitting, Overflow

\* The grace period does not matter for what fits, nor for what is valid.
LEMMA ClampedFits ==
  ASSUME NEW c, Shaped(c), NEW f
  PROVE  /\ Valid(c) => Valid(Clamped(c))
         /\ Budgets(Clamped(c), f) = Budgets(c, f)
         /\ \A budgets : Fitting(c, budgets) => Fitting(Clamped(c), budgets)
<1>1. PICK d : d = Clamped(c)
  OBVIOUS
<1>2. /\ d.models = c.models /\ d.routes = c.routes /\ d.budget = c.budget
      /\ d.headroom = c.headroom /\ d.overrides = c.overrides
  BY <1>1, ClampedConfig
<1>3. Valid(c) => Valid(d)
  BY <1>2 DEF Valid, ModelIds
<1>4. DeclaredDevices(d) = DeclaredDevices(c)
  BY <1>2 DEF DeclaredDevices
<1>5. Budgets(d, f) = Budgets(c, f)
  BY <1>2, <1>4 DEF Budgets
<1>6. EagerOnes(d) = EagerOnes(c)
  BY <1>2 DEF EagerOnes
<1>7. \A g : Need(d, EagerOnes(d), g) = Need(c, EagerOnes(c), g)
  BY <1>2, <1>6 DEF Need
<1>8. \A budgets : Fitting(c, budgets) => Fitting(d, budgets)
  BY <1>2, <1>7 DEF Fitting
<1>9. QED
  BY <1>1, <1>3, <1>5, <1>8

(***************************************************************************)
(* Loading: the registry holds what has been loaded so far, in the order   *)
(* of the file, and the reservations are those of its eager models.        *)
(***************************************************************************)

Name(k) ==
  IF k <= Len(config.models) THEN config.models[k].id ELSE config.routes[k - Len(config.models)].id

All == Len(config.models) + Len(config.routes)

RegistryInv ==
  /\ IsFiniteSet(DOMAIN registry)
  /\ Loaded <= All
  /\ DOMAIN registry = {Name(k) : k \in 1 .. Loaded}
  /\ \A i \in DOMAIN config.models : i <= Loaded =>
       /\ registry[config.models[i].id] # "route"
       /\ Eager(config.models[i]) => registry[config.models[i].id] = "loaded"

\* The megabytes reserved on device g.
Bytes(g) == UNION {Megabytes(r[2], r[3]) : r \in {x \in reserved : x[1] = g}}

\* r is the reservation of a model that has been loaded.
OfLoaded(r) ==
  \E i \in DOMAIN config.models :
    /\ i <= Loaded
    /\ Eager(config.models[i])
    /\ r[2] = config.models[i].id
    /\ r[3] \in Nat
    /\ config.models[i].gpus # <<>> => r[1] \in Nat /\ r[3] = CostOn(config.models[i], r[1])

ReservedInv ==
  /\ \A r \in reserved : OfLoaded(r)
  /\ \A g : IsFiniteSet(Bytes(g))
  /\ \A g \in Devices : BudgetOf[g + 1] > 0 => Used(g) <= BudgetOf[g + 1]

LEMMA Counts ==
  ASSUME Shaped(config), RegistryInv
  PROVE  /\ Loaded \in Nat /\ All \in Nat /\ Len(config.models) \in Nat /\ Len(config.routes) \in Nat
         /\ All = Len(config.models) + Len(config.routes)
         /\ DOMAIN config.models = 1 .. Len(config.models) /\ DOMAIN config.routes = 1 .. Len(config.routes)
<1>1. Loaded \in Nat
  BY FS_CardinalityType DEF RegistryInv, Loaded
<1>2. /\ Len(config.models) \in Nat /\ Len(config.routes) \in Nat
      /\ DOMAIN config.models = 1 .. Len(config.models) /\ DOMAIN config.routes = 1 .. Len(config.routes)
  BY DEF Shaped
<1>3. All \in Nat /\ All = Len(config.models) + Len(config.routes)
  <2>1. PICK n \in Nat, k \in Nat : n = Len(config.models) /\ k = Len(config.routes)
    BY <1>2
  <2>2. n + k \in Nat
    OBVIOUS
  <2>3. QED
    BY <2>1, <2>2 DEF All
<1>4. QED
  BY <1>1, <1>2, <1>3

LEMMA NamesAreDistinct ==
  ASSUME Shaped(config), Valid(config), NEW j \in 1 .. All, NEW k \in 1 .. All, Name(j) = Name(k)
  PROVE  j = k
<1> DEFINE N == Len(config.models)
<1>1. /\ N \in Nat /\ Len(config.routes) \in Nat /\ All = N + Len(config.routes)
      /\ DOMAIN config.models = 1 .. N /\ DOMAIN config.routes = 1 .. Len(config.routes)
  BY DEF Shaped, All
<1> HIDE DEF N
<1>2. ASSUME NEW i \in 1 .. All, i <= N
      PROVE  Name(i) = config.models[i].id /\ i \in DOMAIN config.models /\ Name(i) \in ModelIds(config)
  BY <1>1, <1>2 DEF Name, N, ModelIds
<1>3. ASSUME NEW i \in 1 .. All, ~(i <= N)
      PROVE  /\ Name(i) = config.routes[i - N].id /\ i - N \in DOMAIN config.routes
             /\ Name(i) \notin ModelIds(config)
  <2>1. Name(i) = config.routes[i - N].id
    BY <1>3 DEF Name, N
  <2>2. i - N \in DOMAIN config.routes
    BY <1>1, <1>3
  <2>3. QED
    BY <2>1, <2>2 DEF Valid
<1>4. CASE j <= N /\ k <= N
  BY <1>2, <1>4 DEF Valid
<1>5. CASE ~(j <= N) /\ ~(k <= N)
  <2>1. config.routes[j - N].id = config.routes[k - N].id /\ j - N \in DOMAIN config.routes /\ k - N \in DOMAIN config.routes
    BY <1>3, <1>5
  <2>2. j - N = k - N
    BY <2>1 DEF Valid
  <2>3. QED
    BY <1>1, <2>2
<1>6. QED
  BY <1>2, <1>3, <1>4, <1>5

\* One more entry in the registry.
LEMMA Registering ==
  ASSUME Shaped(config), Valid(config), RegistryInv, Loaded < All, NEW kind, Register(Name(Loaded + 1), kind),
         Loaded + 1 \in DOMAIN config.models =>
           kind # "route" /\ (Eager(config.models[Loaded + 1]) => kind = "loaded"),
         config' = config
  PROVE  RegistryInv' /\ Loaded' = Loaded + 1
<1> DEFINE id == Name(Loaded + 1)
<1>1. /\ Loaded \in Nat /\ All \in Nat /\ Len(config.models) \in Nat
      /\ DOMAIN config.models = 1 .. Len(config.models) /\ All = Len(config.models) + Len(config.routes)
      /\ Len(config.routes) \in Nat
  BY Counts
<1>2. id \notin DOMAIN registry
  <2>1. ASSUME NEW k \in 1 .. Loaded
        PROVE  Name(k) # id
    <3>1. Loaded \in Nat /\ All \in Nat
      BY <1>1
    <3>2. k \in 1 .. All /\ Loaded + 1 \in 1 .. All /\ k # Loaded + 1
      BY <3>1
    <3>3. QED
      BY <3>2, NamesAreDistinct
  <2>2. QED
    BY <2>1 DEF RegistryInv
<1>3. registry' = [x \in DOMAIN registry \cup {id} |-> IF x = id THEN kind ELSE registry[x]]
  BY DEF Register
<1>4. DOMAIN registry' = DOMAIN registry \cup {id}
  BY <1>3
<1>5. IsFiniteSet(DOMAIN registry') /\ Cardinality(DOMAIN registry') = Cardinality(DOMAIN registry) + 1
  <2> HIDE DEF id
  <2>1. QED
    BY <1>2, <1>4, FS_AddElement DEF RegistryInv
<1>6. Loaded' = Loaded + 1
  BY <1>5 DEF Loaded
<1>7. \A k : Name(k)' = Name(k)
  BY DEF Name
<1>8. DOMAIN registry' = {Name(k)' : k \in 1 .. Loaded + 1}
  <2>1. {Name(k)' : k \in 1 .. Loaded + 1} = {Name(k) : k \in 1 .. Loaded + 1}
    BY <1>7
  <2>2. 1 .. Loaded + 1 = (1 .. Loaded) \cup {Loaded + 1}
    BY <1>1
  <2>3. {Name(k) : k \in 1 .. Loaded + 1} = {Name(k) : k \in 1 .. Loaded} \cup {id}
    BY <2>2
  <2>4. QED
    BY <1>4, <2>1, <2>3 DEF RegistryInv
<1>9. ASSUME NEW i \in DOMAIN config.models, i <= Loaded + 1
      PROVE  /\ registry'[config.models[i].id] # "route"
             /\ Eager(config.models[i]) => registry'[config.models[i].id] = "loaded"
  <2>1. i \in 1 .. Len(config.models)
    BY <1>1
  <2>2. Name(i) = config.models[i].id
    BY <2>1 DEF Name
  <2>3. CASE i = Loaded + 1
    <3>1. registry'[Name(i)] = kind
      BY <1>3, <2>3
    <3>2. QED
      BY <2>2, <2>3, <3>1
  <2>4. CASE i # Loaded + 1
    <3>1. i \in 1 .. Loaded
      BY <1>1, <1>9, <2>1, <2>4
    <3>2. Name(i) \in DOMAIN registry
      BY <3>1 DEF RegistryInv
    <3>3. registry'[Name(i)] = registry[Name(i)]
      BY <1>2, <1>3, <3>2
    <3>4. QED
      BY <2>2, <3>1, <3>3 DEF RegistryInv
  <2>5. QED
    BY <2>3, <2>4
<1>10. Loaded' <= All'
  <2>1. All' = All
    BY DEF All
  <2>2. Loaded \in Nat /\ All \in Nat
    BY <1>1
  <2>3. QED
    BY <1>6, <2>1, <2>2
<1> HIDE DEF id
<1>11. QED
  BY <1>5, <1>6, <1>8, <1>9, <1>10 DEF RegistryInv

\* What a model claims: one number of megabytes of each of its devices.
LEMMA ClaimOf ==
  ASSUME NEW m, IsModel(m), NEW claim \in Claims(m)
  PROVE  /\ claim[2] = m.id /\ claim[3] \in Nat
         /\ m.gpus # <<>> => claim[1] \in Range(m.gpus) /\ claim[1] \in Nat /\ claim[3] = CostOn(m, claim[1])
         /\ \A other \in Claims(m) : other[1] = claim[1] => other = claim
<1>1. CASE m.gpus = <<>>
  <2>1. Claims(m) = {<<MostFree, m.id, Estimate(m)>>}
    BY <1>1 DEF Claims
  <2>2. claim = <<MostFree, m.id, Estimate(m)>>
    BY <2>1
  <2>3. Estimate(m) \in Nat
    BY CostIsNat
  <2>4. QED
    BY <1>1, <2>1, <2>2, <2>3
<1>2. CASE m.gpus # <<>>
  <2>1. Claims(m) = {<<g, m.id, CostOn(m, g)>> : g \in Range(m.gpus)}
    BY <1>2 DEF Claims
  <2>2. PICK g \in Range(m.gpus) : claim = <<g, m.id, CostOn(m, g)>>
    BY <2>1
  <2>3. CostOn(m, g) \in Nat
    BY CostIsNat
  <2>4. g \in Nat
    <3>1. PICK s : s = m.gpus
      OBVIOUS
    <3>2. PICK k \in DOMAIN s : g = s[k]
      BY <2>2, <3>1 DEF Range
    <3> DEFINE D == 0 .. (U32 - 1)
    <3>3. s \in Seq(D)
      BY <3>1 DEF IsModel
    <3>4. g \in D
      <4> HIDE DEF D
      <4>1. QED
        BY <3>2, <3>3
    <3>5. QED
      BY <3>4
  <2>5. ASSUME NEW other \in Claims(m), other[1] = claim[1]
        PROVE  other = claim
    <3>1. PICK h \in Range(m.gpus) : other = <<h, m.id, CostOn(m, h)>>
      BY <2>1, <2>5
    <3>2. h = g
      BY <2>2, <2>5, <3>1
    <3>3. QED
      BY <2>2, <3>1, <3>2
  <2>6. QED
    BY <1>2, <2>2, <2>3, <2>4, <2>5
<1>3. QED
  BY <1>1, <1>2

LEMMA ReservedMeans ==
  ASSUME NEW m, ReserveFault(m) = "ok", NEW claim \in Claims(m)
  PROVE  claim[1] \in Devices /\ Fits(claim)
<1> DEFINE inside == \A x \in Claims(m) : x[1] \in Devices
           fit == \A x \in Claims(m) : x[1] \in Devices => Fits(x)
           checks == <<Unless(inside, "InferenceFailed"), Unless(fit, "ModelUnavailable")>>
<1>1. FirstFault(checks) = "ok"
  BY DEF ReserveFault
<1>2. DOMAIN checks = {1, 2} /\ checks[1] = Unless(inside, "InferenceFailed") /\ checks[2] = Unless(fit, "ModelUnavailable")
  <2> HIDE DEF inside, fit
  <2>1. QED
    OBVIOUS
<1>3. checks[1] = "ok" /\ checks[2] = "ok"
  <2>1. DOMAIN checks = {1, 2}
    BY <1>2
  <2> HIDE DEF checks
  <2>2. \A i \in DOMAIN checks : checks[i] = "ok"
    BY <1>1, <2>1, FaultsOf
  <2>3. QED
    BY <2>1, <2>2
<1>4. inside /\ fit
  <2> HIDE DEF checks, inside, fit
  <2>1. QED
    BY <1>2, <1>3 DEF Unless
<1>5. QED
  BY <1>4

\* The reservations of one more eager model, each of which has been found to fit.
LEMMA Reserving ==
  ASSUME Shaped(config), RegistryInv, ReservedInv, BudgetOf \in Seq(Nat), Loaded + 1 \in DOMAIN config.models,
         NEW m, m = config.models[Loaded + 1], Eager(m), ReserveFault(m) = "ok",
         reserved' = reserved \cup Recorded(Claims(m)), Loaded' = Loaded + 1, UNCHANGED <<config, found>>
  PROVE  ReservedInv'
<1>1. IsModel(m) /\ Loaded \in Nat
  BY Counts DEF Shaped
<1>2. BudgetOf' = BudgetOf /\ Devices' = Devices
  BY DEF BudgetOf, Devices
<1>3. \A r : OfLoaded(r) => OfLoaded(r)'
  <2>1. \A i \in DOMAIN config.models : i \in Nat
    BY DEF Shaped
  <2>2. \A i \in DOMAIN config.models : i <= Loaded => i <= Loaded'
    BY <1>1, <2>1
  <2>3. QED
    BY <2>2 DEF OfLoaded
<1>4. ASSUME NEW claim \in Claims(m)
      PROVE  OfLoaded(claim)'
  <2>1. /\ claim[2] = m.id /\ claim[3] \in Nat
        /\ m.gpus # <<>> => claim[1] \in Nat /\ claim[3] = CostOn(m, claim[1])
    BY <1>1, ClaimOf
  <2>2. Loaded + 1 <= Loaded'
    BY <1>1
  <2>3. QED
    BY <2>1, <2>2 DEF OfLoaded
<1>5. ASSUME NEW g
      PROVE  \/ Bytes(g)' = Bytes(g)
             \/ \E claim \in Claims(m) :
                  /\ claim[1] = g /\ BudgetOf[g + 1] > 0
                  /\ Bytes(g)' = Bytes(g) \cup Megabytes(claim[2], claim[3])
  <2> DEFINE old == {x \in reserved : x[1] = g}
             new == {x \in Recorded(Claims(m)) : x[1] = g}
  <2>1. {x \in reserved' : x[1] = g} = old \cup new
    OBVIOUS
  <2>2. Bytes(g)' = UNION {Megabytes(r[2], r[3]) : r \in old \cup new}
    BY <2>1 DEF Bytes
  <2>3. Bytes(g) = UNION {Megabytes(r[2], r[3]) : r \in old}
    BY DEF Bytes
  <2>4. CASE new = {}
    BY <2>2, <2>3, <2>4
  <2>5. CASE new # {}
    <3>1. PICK claim \in new : TRUE
      BY <2>5
    <3>2. claim \in Claims(m) /\ claim[1] = g /\ BudgetOf[g + 1] > 0
      BY <3>1 DEF Recorded
    <3>3. new = {claim}
      <4>1. \A x \in new : x \in Claims(m) /\ x[1] = g
        BY DEF Recorded
      <4>2. \A x \in new : x = claim
        BY <1>1, <3>2, <4>1, ClaimOf
      <4> HIDE DEF new
      <4>3. QED
        BY <3>1, <4>2
    <3> HIDE DEF old, new
    <3>4. Bytes(g)' = Bytes(g) \cup Megabytes(claim[2], claim[3])
      BY <2>2, <2>3, <3>3
    <3>5. QED
      BY <3>2, <3>4
  <2>6. QED
    BY <2>4, <2>5
<1>6. ASSUME NEW g
      PROVE  IsFiniteSet(Bytes(g))'
  <2>1. CASE Bytes(g)' = Bytes(g)
    BY <2>1 DEF ReservedInv
  <2>2. ASSUME NEW claim \in Claims(m), Bytes(g)' = Bytes(g) \cup Megabytes(claim[2], claim[3])
        PROVE  IsFiniteSet(Bytes(g)')
    <3>1. claim[3] \in Nat /\ IsFiniteSet(Bytes(g))
      BY <1>1, ClaimOf DEF ReservedInv
    <3>2. PICK U, id, mb : U = Bytes(g) /\ id = claim[2] /\ mb = claim[3]
      BY <3>1
    <3>3. IsFiniteSet(U \cup Megabytes(id, mb))
      BY <3>1, <3>2, MegabytesMore
    <3>4. QED
      BY <2>2, <3>2, <3>3
  <2>3. QED
    BY <1>5, <2>1, <2>2
<1>7. ASSUME NEW g \in Devices, BudgetOf[g + 1] > 0
      PROVE  Used(g)' <= BudgetOf[g + 1]
  <2>1. Used(g) = Cardinality(Bytes(g)) /\ Used(g)' = Cardinality(Bytes(g)')
    BY DEF Used, Bytes
  <2>2. CASE Bytes(g)' = Bytes(g)
    BY <1>7, <2>1, <2>2 DEF ReservedInv
  <2>3. ASSUME NEW claim \in Claims(m), claim[1] = g, Bytes(g)' = Bytes(g) \cup Megabytes(claim[2], claim[3])
        PROVE  Used(g)' <= BudgetOf[g + 1]
    <3>1. claim[3] \in Nat /\ IsFiniteSet(Bytes(g))
      BY <1>1, ClaimOf DEF ReservedInv
    <3>2. /\ Cardinality(Bytes(g)) \in Nat /\ Cardinality(Bytes(g)') \in Nat
          /\ Cardinality(Bytes(g)') <= Cardinality(Bytes(g)) + claim[3]
      <4>1. PICK U, id, mb : U = Bytes(g) /\ id = claim[2] /\ mb = claim[3]
        BY <3>1
      <4>2. /\ Cardinality(U) \in Nat /\ Cardinality(U \cup Megabytes(id, mb)) \in Nat
            /\ Cardinality(U \cup Megabytes(id, mb)) <= Cardinality(U) + mb
        BY <3>1, <4>1, MegabytesMore
      <4>3. QED
        BY <2>3, <4>1, <4>2
    <3>3. BudgetOf[g + 1] = 0 \/ Used(g) + claim[3] <= BudgetOf[g + 1]
      BY <2>3, ReservedMeans DEF Fits
    <3>4. BudgetOf[g + 1] \in Nat
      <4>1. PICK b \in Seq(Nat) : b = BudgetOf
        OBVIOUS
      <4>2. g + 1 \in 1 .. Len(b)
        BY <1>7, <4>1 DEF Devices
      <4>3. QED
        BY <4>1, <4>2
    <3>5. PICK b \in Nat, u \in Nat, v \in Nat, c \in Nat :
            b = BudgetOf[g + 1] /\ u = Used(g) /\ v = Used(g)' /\ c = claim[3]
      BY <2>1, <3>1, <3>2, <3>4
    <3>6. v <= u + c /\ (b = 0 \/ u + c <= b) /\ b > 0
      BY <1>7, <2>1, <3>2, <3>3, <3>5
    <3>7. v <= b
      BY <3>6
    <3>8. QED
      BY <3>5, <3>7
  <2>4. QED
    BY <1>5, <2>2, <2>3
<1>8. ASSUME NEW r \in reserved'
      PROVE  OfLoaded(r)'
  <2>1. r \in reserved \/ r \in Claims(m)
    BY <1>8 DEF Recorded
  <2>2. QED
    BY <1>3, <1>4, <2>1 DEF ReservedInv
<1>9. QED
  BY <1>2, <1>6, <1>7, <1>8 DEF ReservedInv

(***************************************************************************)
(* The faults that loading and validation report are none of those that    *)
(* only the startup after them can have.                                   *)
(***************************************************************************)

Benign(fault) == fault \notin {"RouteCompileFailed", "ModelUnavailable", "InferenceFailed"}

LEMMA BenignFirst ==
  ASSUME NEW checks, DOMAIN checks \subseteq Nat, \A i \in DOMAIN checks : Benign(checks[i])
  PROVE  Benign(FirstFault(checks))
<1>1. CASE FirstFault(checks) = "ok"
  BY <1>1 DEF Benign
<1>2. CASE FirstFault(checks) # "ok"
  BY <1>2, FaultsOf
<1>3. QED
  BY <1>1, <1>2

LEMMA BenignTwo ==
  ASSUME NEW a, NEW b, Benign(a), Benign(b)
  PROVE  Benign(FirstFault(<<a, b>>))
<1> DEFINE checks == <<a, b>>
<1>1. DOMAIN checks \subseteq Nat /\ \A i \in DOMAIN checks : Benign(checks[i])
  OBVIOUS
<1> HIDE DEF checks
<1>2. Benign(FirstFault(checks))
  BY <1>1, BenignFirst
<1>3. QED
  BY <1>2 DEF checks

LEMMA BenignThree ==
  ASSUME NEW a, NEW b, NEW c, Benign(a), Benign(b), Benign(c)
  PROVE  Benign(FirstFault(<<a, b, c>>))
<1> DEFINE checks == <<a, b, c>>
<1>1. DOMAIN checks \subseteq Nat /\ \A i \in DOMAIN checks : Benign(checks[i])
  OBVIOUS
<1> HIDE DEF checks
<1>2. Benign(FirstFault(checks))
  BY <1>1, BenignFirst
<1>3. QED
  BY <1>2 DEF checks

LEMMA BenignFour ==
  ASSUME NEW a, NEW b, NEW c, NEW d, Benign(a), Benign(b), Benign(c), Benign(d)
  PROVE  Benign(FirstFault(<<a, b, c, d>>))
<1> DEFINE checks == <<a, b, c, d>>
<1>1. DOMAIN checks \subseteq Nat /\ \A i \in DOMAIN checks : Benign(checks[i])
  OBVIOUS
<1> HIDE DEF checks
<1>2. Benign(FirstFault(checks))
  BY <1>1, BenignFirst
<1>3. QED
  BY <1>2 DEF checks

\* Reading the file and expanding references.
LEMMA LoadIsBenign ==
  ASSUME NEW c, IsConfig(c), NEW env
  PROVE  Benign(LoadFault(c, env))
<1> DEFINE ofOption(o)  == FirstFault([k \in DOMAIN o |-> ExpandFault(o[k], env)])
           asTuple(o)   == IF o = {} THEN <<>> ELSE <<The(o)>>
           urlText(m)   == {u.text : u \in m.url}
           ofModel(m)   == ofOption(asTuple(m.key) \o asTuple(urlText(m)))
           models == [i \in DOMAIN c.models |-> ofModel(c.models[i])]
<1>1. \A text : Benign(ExpandFault(text, env))
  <2>1. \A text : ExpandFault(text, env) \in {"MalformedEnvRef", "MissingEnvVar", "ok"}
    BY DEF ExpandFault
  <2>2. QED
    BY <2>1 DEF Benign
<1>2. ASSUME NEW o, DOMAIN o \subseteq Nat
      PROVE  Benign(ofOption(o))
  <2> DEFINE checks == [k \in DOMAIN o |-> ExpandFault(o[k], env)]
  <2>1. DOMAIN checks \subseteq Nat /\ \A i \in DOMAIN checks : Benign(checks[i])
    BY <1>1, <1>2
  <2> HIDE DEF checks
  <2>2. Benign(FirstFault(checks))
    BY <2>1, BenignFirst
  <2>3. QED
    BY <2>2 DEF checks
<1>3. ASSUME NEW m
      PROVE  Benign(ofModel(m))
  <2>1. PICK a, b, S : /\ a = asTuple(m.key) /\ b = asTuple(urlText(m))
                       /\ S = {The(m.key), The(urlText(m))}
    OBVIOUS
  <2>2. a \in Seq(S) /\ b \in Seq(S)
    <3>1. \A o, T : The(o) \in T => asTuple(o) \in Seq(T)
      <4>1. \A T : <<>> \in Seq(T)
        OBVIOUS
      <4>2. \A T : \A x \in T : <<x>> \in Seq(T)
        OBVIOUS
      <4>3. QED
        BY <4>1, <4>2
    <3> HIDE DEF asTuple, urlText
    <3>2. QED
      BY <2>1, <3>1
  <2>3. a \o b \in Seq(S)
    BY <2>2
  <2>4. DOMAIN (a \o b) \subseteq Nat
    BY <2>3
  <2> HIDE DEF ofOption, asTuple, urlText
  <2>5. QED
    BY <1>2, <2>1, <2>4
<1>4. Benign(ofOption(c.keys)) /\ Benign(FirstFault(models))
  <2>1. DOMAIN c.keys \subseteq Nat /\ DOMAIN c.models \subseteq Nat
    BY TypedConfig DEF Shaped
  <2>2. Benign(ofOption(c.keys))
    <3> HIDE DEF ofOption
    <3>1. QED
      BY <1>2, <2>1
  <2>3. DOMAIN models \subseteq Nat /\ \A i \in DOMAIN models : Benign(models[i])
    <3> HIDE DEF ofModel
    <3>1. QED
      BY <1>3, <2>1
  <2> HIDE DEF models
  <2>4. QED
    BY <2>2, <2>3, BenignFirst
<1>5. Benign(InterpolateFault(c, env))
  <2>1. InterpolateFault(c, env) = FirstFault(<<ofOption(c.keys), FirstFault(models)>>)
    BY DEF InterpolateFault
  <2> HIDE DEF ofOption, models
  <2>2. QED
    BY <1>4, <2>1, BenignTwo
<1>6. /\ Benign(Unless(c.file # "missing", "ReadFailed"))
      /\ Benign(Unless(c.file # "garbled", "ParseFailed"))
  BY DEF Unless, Benign
<1>7. QED
  BY <1>5, <1>6, BenignThree DEF LoadFault

LEMMA BudgetsAreBenign ==
  ASSUME NEW c, NEW f
  PROVE  Benign(BudgetsFault(c, f))
<1> DEFINE count == IF c.budget.auto THEN Len(f) ELSE DeclaredDevices(c)
           a == Unless(c.budget.auto => f # <<>>, "VramAutoDetectFailed")
           b == Unless(c.budget.auto => \A n \in Range(f) : n > c.headroom, "VramAutoDetectInsufficient")
           d == Unless(\A g \in DOMAIN c.overrides : g < count, "VramOverrideUnknownGpu")
<1>1. Benign(a) /\ Benign(b) /\ Benign(d)
  BY DEF Unless, Benign
<1>2. BudgetsFault(c, f) = FirstFault(<<a, b, d>>)
  BY DEF BudgetsFault
<1> HIDE DEF a, b, d
<1>3. QED
  BY <1>1, <1>2, BenignThree

LEMMA FitIsBenign ==
  ASSUME NEW c, NEW budgets
  PROVE  Benign(FitFault(c, budgets))
<1> DEFINE a == Unless(\A i \in DOMAIN c.models : \A g \in Range(c.models[i].gpus) : g < Len(budgets), "GpuIdExceedsDetected")
           b == Unless(~Overflow(c, budgets, EagerOnes(c)), "EagerLoadsExceedBudget")
           d == Unless(~Overflow(c, budgets, PinnedOnes(c)), "PinnedExceedsBudget")
<1>1. Benign(a) /\ Benign(b) /\ Benign(d)
  BY DEF Unless, Benign
<1>2. FitFault(c, budgets) = FirstFault(<<a, b, d>>)
  BY DEF FitFault
<1> HIDE DEF a, b, d
<1>3. QED
  BY <1>1, <1>2, BenignThree

LEMMA OneIsBenign ==
  ASSUME NEW path, NEW repo, NEW both, NEW neither, Benign(both), Benign(neither)
  PROVE  Benign(ExactlyOne(path, repo, both, neither))
<1>1. \A h : Benign(Unless(h, both)) /\ Benign(Unless(h, neither))
  BY DEF Unless, Benign
<1>2. QED
  BY <1>1, BenignTwo DEF ExactlyOne

LEMMA BackendIsBenign ==
  ASSUME NEW m, IsModel(m), NEW plaintext
  PROVE  Benign(BackendFault(m, plaintext))
<1>1. Benign(HfFieldsFault(m))
  BY DEF HfFieldsFault, Unless, Benign
<1>2. CASE m.backend = "local"
  <2> DEFINE a == Unless(m.path # {}, "LocalBackendNeedsPath")
             b == Unless(m.path = {"file"}, "ModelPathMissing")
  <2>1. Benign(a) /\ Benign(b)
    BY DEF Unless, Benign
  <2>2. BackendFault(m, plaintext) = FirstFault(<<HfFieldsFault(m), a, b>>)
    BY <1>2 DEF BackendFault, CloudKinds
  <2> HIDE DEF a, b
  <2>3. QED
    BY <1>1, <2>1, <2>2, BenignThree
<1>3. CASE m.backend \in CloudKinds
  <2> DEFINE a == Unless(m.path = {}, "PathOnCloudBackend")
             b == Unless(m.key \notin {{}, {"blank"}}, "CloudBackendNeedsApiKey")
             u == UpstreamUrl(m)
             p == Unless(u.scheme \in {"http", "https"}, "InvalidBaseUrl")
             q == Unless(u.scheme = "https" \/ plaintext, "PlaintextUpstreamForbidden")
             r == Unless(u.host # "none", "InvalidBaseUrl")
             s == Unless(u.host # "private" \/ plaintext, "PlaintextUpstreamForbidden")
  <2>1. Benign(a) /\ Benign(b)
    BY DEF Unless, Benign
  <2>2. Benign(UpstreamFault(m, plaintext))
    <3>1. Benign(p) /\ Benign(q) /\ Benign(r) /\ Benign(s)
      BY DEF Unless, Benign
    <3>2. UpstreamFault(m, plaintext) = FirstFault(<<p, q, r, s>>)
      BY DEF UpstreamFault
    <3> HIDE DEF p, q, r, s
    <3>3. QED
      BY <3>1, <3>2, BenignFour
  <2>3. BackendFault(m, plaintext) = FirstFault(<<HfFieldsFault(m), a, b, UpstreamFault(m, plaintext)>>)
    BY <1>3 DEF BackendFault, CloudKinds
  <2> HIDE DEF a, b, u
  <2>4. QED
    BY <1>1, <2>1, <2>2, <2>3, BenignFour
<1>4. CASE m.backend = "hf"
  <2> DEFINE first == ExactlyOne(m.path, m.repo, "HfBackendPathAndRepoExclusive", "HfBackendNeedsPathOrRepo")
             rest == [i \in DOMAIN m.adapters |->
                        ExactlyOne(m.adapters[i].path, m.adapters[i].repo,
                                   "HfAdapterPathAndRepoExclusive", "HfAdapterNeedsPathOrRepo")]
  <2>1. BackendFault(m, plaintext) = FirstFault(<<first>> \o rest)
    BY <1>4 DEF BackendFault, CloudKinds
  <2>2. Benign(first)
    BY OneIsBenign DEF Benign
  <2>3. PICK n \in Nat : DOMAIN m.adapters = 1 .. n
    BY DEF IsModel
  <2>4. \A i \in 1 .. n : Benign(rest[i])
    <3>1. \A path, repo : Benign(ExactlyOne(path, repo, "HfAdapterPathAndRepoExclusive", "HfAdapterNeedsPathOrRepo"))
      BY OneIsBenign DEF Benign
    <3>2. QED
      BY <2>3, <3>1
  <2>5. rest = [i \in 1 .. n |-> rest[i]]
    BY <2>3
  <2> HIDE DEF first, rest
  <2> DEFINE S == {first} \cup {rest[i] : i \in 1 .. n}
             checks == <<first>> \o rest
  <2>6. <<first>> \in Seq(S) /\ rest \in Seq(S)
    <3>1. rest \in [1 .. n -> S]
      BY <2>5
    <3>2. rest \in Seq(S)
      <4> HIDE DEF S
      <4>1. QED
        BY <3>1
    <3>3. QED
      BY <3>2
  <2>7. checks \in Seq(S)
    <3> HIDE DEF S
    <3>1. QED
      BY <2>6
  <2>8. \A x \in S : Benign(x)
    BY <2>2, <2>4
  <2>9. DOMAIN checks \subseteq Nat /\ \A i \in DOMAIN checks : Benign(checks[i])
    <3> HIDE DEF S, checks
    <3>1. QED
      BY <2>7, <2>8
  <2> HIDE DEF S, checks
  <2>10. Benign(FirstFault(checks))
    BY <2>9, BenignFirst
  <2>11. QED
    BY <2>1, <2>10 DEF checks
<1>5. QED
  BY <1>2, <1>3, <1>4 DEF IsModel, BackendTypes

LEMMA RuleIsBenign ==
  ASSUME NEW c, NEW rule, IsRule(rule)
  PROVE  Benign(RuleFault(c, rule))
<1> DEFINE targetFault(t) == FirstFault(<<Unless(t \notin RouteIds(c), "RouteTargetsRoute"),
                                          Unless(t \in ModelIds(c), "RouteTargetUnknown")>>)
           targets == [t \in DOMAIN rule.targets |-> targetFault(rule.targets[t])]
           a == Unless(rule.targets # <<>>, "RuleNoTargets")
           b == Unless("bad_regex" \notin rule.matchers, "InvalidRegex")
<1>1. Benign(a) /\ Benign(b)
  BY DEF Unless, Benign
<1>2. ASSUME NEW t
      PROVE  Benign(targetFault(t))
  <2>1. Benign(Unless(t \notin RouteIds(c), "RouteTargetsRoute")) /\ Benign(Unless(t \in ModelIds(c), "RouteTargetUnknown"))
    BY DEF Unless, Benign
  <2>2. QED
    BY <2>1, BenignTwo
<1>3. Benign(FirstFault(targets))
  <2>1. DOMAIN targets \subseteq Nat /\ \A t \in DOMAIN targets : Benign(targets[t])
    <3> HIDE DEF targetFault
    <3>1. QED
      BY <1>2 DEF IsRule
  <2> HIDE DEF targets
  <2>2. QED
    BY <2>1, BenignFirst
<1>4. RuleFault(c, rule) = FirstFault(<<a, FirstFault(targets), b>>)
  BY DEF RuleFault
<1> HIDE DEF a, b, targets
<1>5. QED
  BY <1>1, <1>3, <1>4, BenignThree

LEMMA RouteIsBenign ==
  ASSUME NEW c, NEW k \in DOMAIN c.routes, IsRoute(c.routes[k])
  PROVE  Benign(RouteFault(c, k))
<1> DEFINE r == c.routes[k]
           rules == [j \in DOMAIN r.rules |-> RuleFault(c, r.rules[j])]
           a == Unless(r.id # "", "RouteEmptyId")
           b == Unless(\A j \in 1 .. (k - 1) : c.routes[j].id # r.id, "DuplicateRouteId")
           d == Unless(r.id \notin ModelIds(c), "RouteIdCollision")
           e == Unless(r.rules # <<>>, "RouteNoRules")
           g == Unless(\E j \in DOMAIN r.rules : MatchesAll(r.rules[j]), "RouteNoCatchAll")
<1>1. Benign(FirstFault(rules))
  <2>1. DOMAIN rules \subseteq Nat /\ \A j \in DOMAIN rules : Benign(rules[j])
    BY RuleIsBenign DEF IsRoute
  <2> HIDE DEF rules
  <2>2. QED
    BY <2>1, BenignFirst
<1>2. Benign(a) /\ Benign(b) /\ Benign(d) /\ Benign(e) /\ Benign(g)
  BY DEF Unless, Benign
<1>3. RouteFault(c, k) = FirstFault(<<a, b, d, e, FirstFault(rules), g>>)
  BY DEF RouteFault
<1> HIDE DEF a, b, d, e, g, rules
<1> DEFINE checks == <<a, b, d, e, FirstFault(rules), g>>
<1>4. DOMAIN checks \subseteq Nat /\ \A i \in DOMAIN checks : Benign(checks[i])
  BY <1>1, <1>2
<1> HIDE DEF checks
<1>5. Benign(FirstFault(checks))
  BY <1>4, BenignFirst
<1>6. QED
  BY <1>3, <1>5 DEF checks

LEMMA ServerIsBenign ==
  ASSUME NEW c, Shaped(c)
  PROVE  Benign(ServerFault(c))
<1> DEFINE origins == [i \in DOMAIN c.origins |-> Unless(c.origins[i] = "url", "InvalidCorsOrigin")]
           a == Unless(c.metrics.bind # {"garbled"}, "InvalidMetricsBind")
<1>1. Benign(a)
  BY DEF Unless, Benign
<1>2. Benign(FirstFault(origins))
  <2>1. DOMAIN origins \subseteq Nat
    BY DEF Shaped
  <2>2. \A i \in DOMAIN origins : Benign(origins[i])
    BY DEF Unless, Benign
  <2> HIDE DEF origins
  <2>3. QED
    BY <2>1, <2>2, BenignFirst
<1>3. ServerFault(c) = FirstFault(<<FirstFault(origins), a>>)
  BY DEF ServerFault
<1> HIDE DEF origins, a
<1>4. QED
  BY <1>1, <1>2, <1>3, BenignTwo

LEMMA PlacementIsBenign ==
  ASSUME NEW m
  PROVE  Benign(PlacementFault(m))
<1> DEFINE local == m.backend = "local"
           checks == <<Unless(m.lazy => local, "LazyOnlyForLocal"),
                       Unless(m.vram # {} => local, "VramMbOnlyForLocal"),
                       Unless(m.pin => local, "PinOnlyForLocal"),
                       Unless(m.gpus # <<>> => local, "GpuIdOnCloudBackend"),
                       Unless(IsInjective(m.gpus), "GpuIdDuplicated")>>
<1>1. DOMAIN checks \subseteq Nat /\ \A i \in DOMAIN checks : Benign(checks[i])
  <2>1. \A h : /\ Benign(Unless(h, "LazyOnlyForLocal")) /\ Benign(Unless(h, "VramMbOnlyForLocal"))
               /\ Benign(Unless(h, "PinOnlyForLocal")) /\ Benign(Unless(h, "GpuIdOnCloudBackend"))
               /\ Benign(Unless(h, "GpuIdDuplicated"))
    BY DEF Unless, Benign
  <2> HIDE DEF local
  <2>2. QED
    BY <2>1
<1>2. PlacementFault(m) = FirstFault(checks)
  BY DEF PlacementFault
<1> HIDE DEF checks
<1>3. QED
  BY <1>1, <1>2, BenignFirst

LEMMA ValidationIsBenign ==
  ASSUME NEW c, Shaped(c), NEW f
  PROVE  Benign(ValidateFault(c, f)) /\ Benign(PostureFault(c))
<1> DEFINE M == c.models
           backends == [i \in DOMAIN M |-> BackendFault(M[i], c.plaintext)]
           routes == [k \in DOMAIN c.routes |-> RouteFault(c, k)]
           placements == [i \in DOMAIN M |-> PlacementFault(M[i])]
           a == Unless(M # <<>>, "NoModelsConfigured")
           b == Unless("" \notin ModelIds(c), "EmptyModelId")
           d == Unless(Cardinality(ModelIds(c)) = Len(M), "DuplicateModelId")
<1>1. DOMAIN M \subseteq Nat /\ DOMAIN c.routes \subseteq Nat
  BY DEF Shaped
<1>2. Benign(FirstFault(backends))
  <2>1. DOMAIN backends \subseteq Nat /\ \A i \in DOMAIN backends : Benign(backends[i])
    BY <1>1, BackendIsBenign DEF Shaped
  <2> HIDE DEF backends
  <2>2. QED
    BY <2>1, BenignFirst
<1>3. Benign(FirstFault(routes))
  <2>1. DOMAIN routes \subseteq Nat /\ \A k \in DOMAIN routes : Benign(routes[k])
    BY <1>1, RouteIsBenign DEF Shaped
  <2> HIDE DEF routes
  <2>2. QED
    BY <2>1, BenignFirst
<1>4. Benign(FirstFault(placements))
  <2>1. DOMAIN placements \subseteq Nat /\ \A i \in DOMAIN placements : Benign(placements[i])
    BY <1>1, PlacementIsBenign
  <2> HIDE DEF placements
  <2>2. QED
    BY <2>1, BenignFirst
<1>5. Benign(a) /\ Benign(b) /\ Benign(d) /\ Benign(ServerFault(c))
  BY ServerIsBenign DEF Unless, Benign
<1>6. StaticFault(c) = FirstFault(<<a, b, d, FirstFault(backends), FirstFault(routes), ServerFault(c), FirstFault(placements)>>)
  BY DEF StaticFault
<1> HIDE DEF a, b, d, backends, routes, placements
<1> DEFINE checks == <<a, b, d, FirstFault(backends), FirstFault(routes), ServerFault(c), FirstFault(placements)>>
<1>7. DOMAIN checks \subseteq Nat /\ \A i \in DOMAIN checks : Benign(checks[i])
  BY <1>2, <1>3, <1>4, <1>5
<1> HIDE DEF checks
<1>8. Benign(StaticFault(c))
  BY <1>6, <1>7, BenignFirst DEF checks
<1>9. Benign(PostureFault(c))
  BY DEF PostureFault, Unless, Benign
<1>10. QED
  BY <1>8, <1>9, BudgetsAreBenign, FitIsBenign DEF ValidateFault

(***************************************************************************)
(* Startup as a whole.                                                     *)
(***************************************************************************)

LoadInv ==
  /\ phase \in {"read", "check", "budget"} => registry = <<>> /\ reserved = {}
  /\ phase \in {"read", "check", "budget", "load"} => listening = {}
  /\ phase = "budget" => \E f : found = <<f>>
  /\ phase \in {"budget", "load"} => Valid(config) /\ Fitting(config, Budgets(config, found[1]))
  /\ phase = "load" => RegistryInv /\ ReservedInv /\ BudgetOf \in Seq(Nat)
  /\ phase \in {"listen", "serving", "draining"} \/ listening # {} => Ready
  /\ phase # "over" => exit = "none"
  /\ ValidatedConfigStarts

LEMMA BenignStarts ==
  ASSUME Benign(exit)'
  PROVE  ValidatedConfigStarts'
  BY DEF Benign, ValidatedConfigStarts

\* A startup step that fails with a benign fault.
LEMMA Failing ==
  ASSUME LoadInv, phase' = "over", ValidatedConfigStarts', listening' = {}
  PROVE  LoadInv'
  BY DEF LoadInv

LEMMA ReadConfigLoads ==
  ASSUME TypesInv, LoadInv, ReadConfig
  PROVE  LoadInv'
<1>1. PICK env \in Envs, host \in HostFlags : Pass("read", "check", LoadFault(config, env))
  BY DEF ReadConfig
<1>2. phase = "read" /\ phase' \in {"check", "over"} /\ UNCHANGED <<found, reserved, registry, bound, listening>>
  BY <1>1, Passing DEF ReadConfig
<1>3. Benign(LoadFault(config, env))
  BY <1>2, LoadIsBenign DEF TypesInv
<1>4. Benign(exit') /\ (phase' = "check" => exit' = exit)
  BY <1>1, <1>2, <1>3, Passing DEF LoadInv, Benign
<1>5. ValidatedConfigStarts'
  BY <1>4, BenignStarts
<1>6. QED
  BY <1>2, <1>4, <1>5 DEF LoadInv

LEMMA CheckLoads ==
  ASSUME TypesInv, LoadInv, Check
  PROVE  LoadInv'
<1>1. PICK answer \in Asked, installed \in Exporters :
        /\ Pass("check", "budget",
                FirstFault(<<ValidateFault(config, answer), PostureFault(config), Unless(installed, "InstallFailed")>>))
        /\ found' = <<answer>>
  BY DEF Check
<1> DEFINE fault ==
      FirstFault(<<ValidateFault(config, answer), PostureFault(config), Unless(installed, "InstallFailed")>>)
<1>2. /\ phase = "check" /\ phase' \in {"budget", "over"} /\ UNCHANGED <<reserved, registry, bound, listening>>
      /\ config' = Clamped(config) /\ Shaped(config)
  BY <1>1, Passing DEF Check, TypesInv
<1>3. Benign(fault)
  <2>1. Benign(Unless(installed, "InstallFailed"))
    BY DEF Unless, Benign
  <2>2. QED
    BY <1>2, <2>1, ValidationIsBenign, BenignThree
<1>4. Benign(exit') /\ (phase' = "budget" => exit' = exit /\ fault = "ok")
  <2> HIDE DEF fault
  <2>1. Pass("check", "budget", fault)
    BY <1>1 DEF fault
  <2>2. QED
    BY <1>2, <1>3, <2>1, Passing DEF LoadInv, Benign
<1>5. ValidatedConfigStarts'
  BY <1>4, BenignStarts
<1>6. ASSUME phase' = "budget"
      PROVE  Valid(config') /\ Fitting(config', Budgets(config', found'[1]))
  <2>1. ValidateFault(config, answer) = "ok"
    <3> DEFINE checks ==
          <<ValidateFault(config, answer), PostureFault(config), Unless(installed, "InstallFailed")>>
    <3>1. FirstFault(checks) = "ok"
      BY <1>4, <1>6
    <3>2. DOMAIN checks = {1, 2, 3} /\ checks[1] = ValidateFault(config, answer)
      OBVIOUS
    <3> HIDE DEF checks
    <3>3. QED
      BY <3>1, <3>2, FaultsOf
  <2>2. StaticFault(config) = "ok" /\ FitFault(config, Budgets(config, answer)) = "ok"
    BY <2>1 DEF ValidateFault
  <2>3. Valid(config) /\ Fitting(config, Budgets(config, answer))
    BY <1>2, <2>2, StaticIsValid, FitMeans
  <2>4. found'[1] = answer
    BY <1>1
  <2>5. QED
    BY <1>2, <2>3, <2>4, ClampedFits
<1>7. phase' = "budget" => \E f : found' = <<f>>
  BY <1>1
<1>8. QED
  BY <1>2, <1>4, <1>5, <1>6, <1>7 DEF LoadInv

LEMMA ResolveBudgetsLoads ==
  ASSUME TypesInv, LoadInv, ResolveBudgets
  PROVE  LoadInv'
<1>1. PICK answer \in Asked :
        /\ Pass("budget", "load", BudgetsFault(config, answer))
        /\ found' = Append(found, answer)
  BY DEF ResolveBudgets
<1>2. /\ phase = "budget" /\ phase' \in {"load", "over"} /\ UNCHANGED <<config, reserved, registry, bound, listening>>
      /\ Shaped(config)
  BY <1>1, Passing DEF ResolveBudgets, TypesInv
<1>3. Benign(exit') /\ (phase' = "load" => exit' = exit /\ BudgetsFault(config, answer) = "ok")
  BY <1>1, <1>2, BudgetsAreBenign, Passing DEF LoadInv, Benign
<1>4. ValidatedConfigStarts'
  BY <1>3, BenignStarts
<1>5. found'[1] = found[1] /\ found'[2] = answer
  <2>1. PICK f : found = <<f>>
    BY <1>2 DEF LoadInv
  <2> DEFINE S == {f, answer}
  <2>2. <<f>> \in Seq(S) /\ answer \in S /\ Len(<<f>>) = 1
    OBVIOUS
  <2> HIDE DEF S
  <2>3. Append(<<f>>, answer)[1] = <<f>>[1] /\ Append(<<f>>, answer)[2] = answer
    BY <2>2, AppendProperties
  <2>4. QED
    BY <1>1, <2>1, <2>3
<1>6. registry' = <<>> /\ reserved' = {}
  BY <1>2 DEF LoadInv
<1>7. ASSUME phase' = "load"
      PROVE  BudgetOf' \in Seq(Nat)
  <2>1. answer \in Seq(Nat)
    <3>1. Detections \subseteq Seq(Nat)
      BY StartupAssumption
    <3>2. <<>> \in Seq(Nat)
      OBVIOUS
    <3>3. answer \in Detections \/ answer = <<>>
      BY <1>1 DEF Asked
    <3>4. QED
      BY <3>1, <3>2, <3>3
  <2>2. Budgets(config, answer) \in Seq(Nat)
    BY <1>2, <1>3, <1>7, <2>1, BudgetsAreNat
  <2>3. QED
    BY <1>2, <1>5, <2>2 DEF BudgetOf
<1>8. RegistryInv'
  <2>1. DOMAIN registry' = {} /\ Loaded' = 0
    BY <1>6, FS_EmptySet DEF Loaded
  <2>2. 1 .. Loaded' = {} /\ IsFiniteSet({})
    BY <2>1, FS_EmptySet
  <2>3. Loaded' <= All'
    <3>1. PICK n \in Nat, k \in Nat : n = Len(config.models) /\ k = Len(config.routes)
      BY <1>2 DEF Shaped
    <3>2. All' = n + k
      BY <1>2, <3>1 DEF All
    <3>3. QED
      BY <2>1, <3>2
  <2>4. \A i \in DOMAIN config'.models : ~(i <= Loaded')
    BY <1>2, <2>1 DEF Shaped
  <2>5. QED
    BY <2>1, <2>2, <2>3, <2>4 DEF RegistryInv
<1>9. ASSUME phase' = "load"
      PROVE  ReservedInv'
  <2>1. \A g : Bytes(g)' = {}
    BY <1>6 DEF Bytes
  <2>2. \A g : Used(g)' = 0
    <3>1. \A g : Used(g) = Cardinality(Bytes(g))
      BY DEF Used, Bytes
    <3>2. \A g : Used(g)' = Cardinality(Bytes(g)')
      BY DEF Used, Bytes
    <3>3. QED
      BY <2>1, <3>2, FS_EmptySet
  <2>3. \A g \in Devices' : BudgetOf'[g + 1] > 0 => 0 <= BudgetOf'[g + 1]
    <3>1. PICK b \in Seq(Nat) : b = BudgetOf'
      BY <1>7, <1>9
    <3>2. ASSUME NEW g \in Devices'
          PROVE  b[g + 1] \in Nat
      <4>1. g + 1 \in 1 .. Len(b)
        BY <3>1, <3>2 DEF Devices
      <4>2. QED
        BY <4>1
    <3>3. QED
      BY <3>1, <3>2
  <2>4. QED
    BY <1>6, <2>1, <2>2, <2>3, FS_EmptySet DEF ReservedInv
<1>10. QED
  BY <1>2, <1>3, <1>4, <1>5, <1>6, <1>7, <1>8, <1>9 DEF LoadInv

\* Eager models with devices of their own, which validation has found to fit
\* together, fit when they are loaded one after another.
LEMMA NeverExceeds ==
  ASSUME Shaped(config), Valid(config), RegistryInv, ReservedInv, BudgetOf \in Seq(Nat), Fitting(config, BudgetOf),
         \A i \in DOMAIN config.models : Eager(config.models[i]) => config.models[i].gpus # <<>>,
         Loaded + 1 \in DOMAIN config.models, NEW m, m = config.models[Loaded + 1], Eager(m)
  PROVE  ReserveFault(m) = "ok"
<1>1. IsModel(m) /\ m.gpus # <<>> /\ Loaded \in Nat
  BY Counts DEF Shaped
<1>2. ASSUME NEW claim \in Claims(m)
      PROVE  claim[1] \in Devices /\ Fits(claim)
  <2>1. PICK g \in Nat : g = claim[1] /\ g \in Range(m.gpus) /\ claim[3] = CostOn(m, g)
    BY <1>1, ClaimOf
  <2>2. PICK B \in Seq(Nat) : B = BudgetOf
    OBVIOUS
  <2>3. g < Len(B)
    BY <2>1, <2>2 DEF Fitting
  <2>4. g \in Devices /\ g + 1 \in DOMAIN B /\ (g + 1) - 1 = g
    BY <2>2, <2>3 DEF Devices
  <2> DEFINE piece(k) == Megabytes(config.models[k].id, CostOn(config.models[k], g))
             pieces == {piece(k) : k \in EagerOnes(config)}
             N == UNION pieces
  <2>5. Need(config, EagerOnes(config), g) = Cardinality(N)
    BY DEF Need
  <2>6. IsFiniteSet(N)
    <3>1. IsFiniteSet(EagerOnes(config))
      <4>1. EagerOnes(config) \in SUBSET (1 .. Len(config.models)) /\ Len(config.models) \in Nat
        BY DEF Shaped, EagerOnes
      <4>2. IsFiniteSet(1 .. Len(config.models))
        BY <4>1, FiniteInterval
      <4>3. QED
        BY <4>1, <4>2, FS_Subset
    <3>2. IsFiniteSet(pieces)
      <4> DEFINE f == [k \in EagerOnes(config) |-> piece(k)]
      <4>1. f \in [EagerOnes(config) -> pieces] /\ \A x \in pieces : \E k \in EagerOnes(config) : f[k] = x
        <5> HIDE DEF piece
        <5>1. QED
          OBVIOUS
      <4> HIDE DEF f, pieces
      <4>2. f \in Surjection(EagerOnes(config), pieces)
        BY <4>1 DEF Surjection
      <4>3. QED
        BY <3>1, <4>2, FS_Surjection
    <3>3. \A x \in pieces : IsFiniteSet(x)
      <4>1. \A k \in EagerOnes(config) : IsFiniteSet(piece(k))
        BY CountedMegabytes, CostIsNat DEF EagerOnes, Shaped
      <4> HIDE DEF piece
      <4>2. QED
        BY <4>1
    <3> HIDE DEF pieces
    <3>4. QED
      BY <3>2, <3>3, FS_UNION
  <2>7. ASSUME NEW x \in Bytes(g)
        PROVE  x \in N /\ x \notin Megabytes(m.id, claim[3])
    <3>1. PICK r \in reserved : r[1] = g /\ x \in Megabytes(r[2], r[3])
      BY <2>7 DEF Bytes
    <3>2. PICK i \in DOMAIN config.models :
            /\ i <= Loaded /\ Eager(config.models[i]) /\ r[2] = config.models[i].id
            /\ r[3] = CostOn(config.models[i], g)
      BY <3>1 DEF ReservedInv, OfLoaded
    <3>3. i \in EagerOnes(config) /\ x \in piece(i)
      BY <3>1, <3>2 DEF EagerOnes
    <3>4. x \in N
      <4> HIDE DEF piece
      <4>1. QED
        BY <3>3
    <3>5. x[1] = config.models[i].id
      BY <3>1, <3>2 DEF Megabytes
    <3>6. i # Loaded + 1
      <4>1. i \in Nat
        BY DEF Shaped
      <4>2. QED
        BY <1>1, <3>2, <4>1
    <3>7. config.models[i].id # m.id
      BY <3>6 DEF Valid
    <3>8. x \notin Megabytes(m.id, claim[3])
      BY <3>5, <3>7 DEF Megabytes
    <3>9. QED
      BY <3>4, <3>8
  <2>8. Megabytes(m.id, claim[3]) \subseteq N
    <3>1. Loaded + 1 \in EagerOnes(config) /\ piece(Loaded + 1) = Megabytes(m.id, claim[3])
      BY <2>1 DEF EagerOnes
    <3> HIDE DEF piece
    <3>2. QED
      BY <3>1
  <2> HIDE DEF N
  <2>9. PICK U, id, mb : U = Bytes(g) /\ id = m.id /\ mb = claim[3]
    OBVIOUS
  <2>10. mb \in Nat /\ IsFiniteSet(U)
    BY <1>1, <2>9, ClaimOf DEF ReservedInv
  <2>11. U \cap Megabytes(id, mb) = {} /\ U \cup Megabytes(id, mb) \in SUBSET N
    BY <2>7, <2>8, <2>9
  <2>12. Cardinality(U) \in Nat /\ Cardinality(U \cup Megabytes(id, mb)) = Cardinality(U) + mb
    BY <2>10, <2>11, MegabytesMore
  <2>13. Cardinality(U \cup Megabytes(id, mb)) <= Cardinality(N) /\ Cardinality(N) \in Nat
    BY <2>6, <2>11, FS_Subset, FS_CardinalityType
  <2>14. Used(g) = Cardinality(U)
    BY <2>9 DEF Used, Bytes
  <2>15. B[g + 1] = 0 \/ Used(g) + claim[3] <= B[g + 1]
    <3>1. PICK b \in Nat : b = B[g + 1]
      BY <2>4
    <3>2. b > 0 => ~(Cardinality(N) > b)
      BY <2>2, <2>4, <2>5, <3>1 DEF Fitting
    <3>3. PICK n \in Nat, u \in Nat : n = Cardinality(N) /\ u = Cardinality(U)
      BY <2>12, <2>13
    <3>4. u + mb <= n /\ (b > 0 => ~(n > b))
      BY <2>12, <2>13, <3>2, <3>3
    <3>5. b = 0 \/ u + mb <= b
      BY <2>10, <3>4
    <3>6. QED
      BY <2>9, <2>14, <3>1, <3>3, <3>5
  <2>16. QED
    BY <2>1, <2>2, <2>4, <2>15 DEF Fits
<1> DEFINE inside == \A x \in Claims(m) : x[1] \in Devices
           fit == \A x \in Claims(m) : x[1] \in Devices => Fits(x)
           a == Unless(inside, "InferenceFailed")
           b == Unless(fit, "ModelUnavailable")
           checks == <<a, b>>
<1>3. a = "ok" /\ b = "ok"
  BY <1>2 DEF Unless
<1>4. ReserveFault(m) = FirstFault(checks)
  BY DEF ReserveFault
<1> HIDE DEF a, b
<1>5. DOMAIN checks \subseteq Nat /\ \A i \in DOMAIN checks : checks[i] = "ok"
  BY <1>3
<1> HIDE DEF checks
<1>6. QED
  BY <1>4, <1>5, FaultsOf

\* What reserving may fail with.
LEMMA ReserveFaults ==
  ASSUME NEW m
  PROVE  ReserveFault(m) \in {"ok", "InferenceFailed", "ModelUnavailable"}
<1> DEFINE inside == \A x \in Claims(m) : x[1] \in Devices
           fit == \A x \in Claims(m) : x[1] \in Devices => Fits(x)
           a == Unless(inside, "InferenceFailed")
           b == Unless(fit, "ModelUnavailable")
           checks == <<a, b>>
<1>1. a \in {"ok", "InferenceFailed"} /\ b \in {"ok", "ModelUnavailable"}
  BY DEF Unless
<1>2. ReserveFault(m) = FirstFault(checks)
  BY DEF ReserveFault
<1> HIDE DEF a, b
<1>3. DOMAIN checks \subseteq Nat /\ \A i \in DOMAIN checks : checks[i] \in {"ok", "InferenceFailed", "ModelUnavailable"}
  BY <1>1
<1> HIDE DEF checks
<1>4. QED
  BY <1>2, <1>3, FaultsOf

\* Loading one more model or route that reserves nothing.
LEMMA ReservingNothing ==
  ASSUME Shaped(config), RegistryInv, ReservedInv, UNCHANGED <<config, found, reserved>>, Loaded' = Loaded + 1
  PROVE  ReservedInv'
<1>1. \A i \in DOMAIN config.models : i <= Loaded => i <= Loaded'
  <2>1. Loaded \in Nat /\ \A i \in DOMAIN config.models : i \in Nat
    BY Counts
  <2>2. QED
    BY <2>1
<1>2. \A r : OfLoaded(r) => OfLoaded(r)'
  BY <1>1 DEF OfLoaded
<1>3. \A g : Bytes(g)' = Bytes(g) /\ Used(g)' = Used(g)
  BY DEF Bytes, Used
<1>4. Devices' = Devices /\ BudgetOf' = BudgetOf
  BY DEF Devices, BudgetOf
<1>5. QED
  BY <1>2, <1>3, <1>4 DEF ReservedInv

\* Going on with loading keeps what is known of the configuration.
LEMMA Continuing ==
  ASSUME LoadInv, phase = "load", RegistryInv', ReservedInv', UNCHANGED <<config, found, phase, listening, exit>>
  PROVE  LoadInv'
<1>1. BudgetOf' = BudgetOf
  BY DEF BudgetOf
<1>2. ValidatedConfigStarts'
  BY DEF LoadInv, ValidatedConfigStarts
<1>3. QED
  BY <1>1, <1>2 DEF LoadInv

LEMMA LoadModelLoads ==
  ASSUME TypesInv, LoadInv, LoadModel
  PROVE  LoadInv'
<1>1. /\ phase = "load" /\ UNCHANGED <<config, found, bound, listening>> /\ Shaped(config)
      /\ RegistryInv /\ ReservedInv /\ BudgetOf \in Seq(Nat) /\ Valid(config) /\ listening = {}
      /\ Fitting(config, Budgets(config, found[1])) /\ exit = "none"
  BY DEF LoadModel, LoadInv, TypesInv
<1>2. PICK m : m = config.models[Loaded + 1]
  OBVIOUS
<1>3. LoadBackend(m)
  BY <1>2 DEF LoadModel
<1>4. Loaded + 1 \in DOMAIN config.models /\ Loaded < All /\ Name(Loaded + 1) = m.id
  <2>1. PICK n \in Nat, k \in Nat, l \in Nat : n = Len(config.models) /\ k = Len(config.routes) /\ l = Loaded
    BY <1>1, Counts
  <2>2. l < n /\ All = n + k /\ DOMAIN config.models = 1 .. n
    BY <1>1, <2>1, Counts DEF LoadModel
  <2>3. l + 1 <= n /\ l < n + k /\ l + 1 \in 1 .. n
    BY <2>2
  <2>4. QED
    BY <1>2, <2>1, <2>2, <2>3 DEF Name
<1>5. ASSUME NEW kind, Register(m.id, kind), kind # "route", Eager(m) => kind = "loaded"
      PROVE  RegistryInv' /\ Loaded' = Loaded + 1
  BY <1>1, <1>2, <1>4, <1>5, Registering
<1>6. ASSUME phase' = "over", exit' \in {"VramEstimateFailed", "ModelLoadFailed", "NotImplemented"}
      PROVE  LoadInv'
  <2>1. Benign(exit')
    BY <1>6 DEF Benign
  <2>2. QED
    BY <1>1, <1>6, <2>1, BenignStarts, Failing
<1>7. CASE \/ Abort("load", IF m.lazy THEN "VramEstimateFailed" ELSE "ModelLoadFailed")
           \/ Abort("load", HfLoadFault)
  BY <1>6, <1>7 DEF Abort, HfLoadFault
<1>8. CASE /\ m.backend \in CloudKinds \/ (m.backend = "local" /\ m.lazy)
           /\ Register(m.id, IF m.lazy THEN "lazy" ELSE "cloud")
           /\ UNCHANGED <<phase, exit, reserved>>
  <2>1. ~Eager(m)
    BY <1>8 DEF Eager, CloudKinds
  <2>2. RegistryInv' /\ Loaded' = Loaded + 1
    <3>1. CASE m.lazy
      BY <1>5, <1>8, <2>1, <3>1
    <3>2. CASE ~m.lazy
      BY <1>5, <1>8, <2>1, <3>2
    <3>3. QED
      BY <3>1, <3>2
  <2>3. ReservedInv'
    BY <1>1, <1>8, <2>2, ReservingNothing
  <2>4. QED
    BY <1>1, <1>8, <2>2, <2>3, Continuing
<1>9. CASE Eager(m) /\ ReserveFault(m) # "ok" /\ Abort("load", ReserveFault(m))
  <2>1. phase' = "over" /\ exit' = ReserveFault(m) /\ exit' # "RouteCompileFailed"
    BY <1>9, ReserveFaults DEF Abort
  <2>2. found[1] # found[2] \/ \E i \in DOMAIN config.models : Eager(config.models[i]) /\ config.models[i].gpus = <<>>
    <3>1. SUFFICES ASSUME found[1] = found[2],
                          \A i \in DOMAIN config.models : Eager(config.models[i]) => config.models[i].gpus # <<>>
                   PROVE  FALSE
      OBVIOUS
    <3>2. Fitting(config, BudgetOf)
      BY <1>1, <3>1 DEF BudgetOf
    <3>3. QED
      BY <1>1, <1>2, <1>4, <1>9, <3>1, <3>2, NeverExceeds
  <2>3. ValidatedConfigStarts'
    BY <1>1, <2>1, <2>2 DEF ValidatedConfigStarts
  <2>4. QED
    BY <1>1, <2>1, <2>3, Failing
<1>10. CASE /\ Eager(m) /\ ReserveFault(m) = "ok"
            /\ reserved' = reserved \cup Recorded(Claims(m))
            /\ Register(m.id, "loaded")
            /\ UNCHANGED <<phase, exit>>
  <2>1. RegistryInv' /\ Loaded' = Loaded + 1
    BY <1>5, <1>10
  <2>2. ReservedInv'
    BY <1>1, <1>2, <1>4, <1>10, <2>1, Reserving
  <2>3. QED
    BY <1>1, <1>10, <2>1, <2>2, Continuing
<1>11. QED
  BY <1>3, <1>7, <1>8, <1>9, <1>10 DEF LoadBackend

LEMMA CompileRouteLoads ==
  ASSUME TypesInv, LoadInv, CompileRoute
  PROVE  LoadInv'
<1>1. /\ phase = "load" /\ UNCHANGED <<config, found, reserved, bound, listening>> /\ Shaped(config)
      /\ RegistryInv /\ ReservedInv /\ Valid(config)
  BY DEF CompileRoute, LoadInv, TypesInv
<1>2. PICK n \in Nat, k \in Nat, l \in Nat : n = Len(config.models) /\ k = Len(config.routes) /\ l = Loaded
  BY <1>1, Counts
<1>3. /\ l \in n .. (n + k - 1) /\ All = n + k
      /\ DOMAIN config.models = 1 .. n /\ DOMAIN config.routes = 1 .. k
  BY <1>1, <1>2, Counts DEF CompileRoute
<1>4. l < n + k /\ ~(l + 1 <= n) /\ l + 1 \notin 1 .. n /\ l - n + 1 \in 1 .. k /\ (l + 1) - n = l - n + 1
  BY <1>3
<1>5. PICK r : r = config.routes[l - n + 1]
  OBVIOUS
<1>6. IF Compiles(r) THEN Register(r.id, "route") /\ UNCHANGED <<phase, exit>>
                     ELSE Abort("load", "RouteCompileFailed") /\ UNCHANGED registry
  BY <1>2, <1>5 DEF CompileRoute
<1>7. ModelIds(config) \subseteq DOMAIN registry
  <2>1. ASSUME NEW i \in DOMAIN config.models
        PROVE  config.models[i].id \in DOMAIN registry
    <3>1. i \in 1 .. l /\ i <= n
      BY <1>3, <2>1
    <3>2. Name(i) = config.models[i].id
      BY <1>2, <3>1 DEF Name
    <3>3. QED
      BY <1>1, <1>2, <3>1, <3>2 DEF RegistryInv
  <2>2. QED
    BY <2>1 DEF ModelIds
<1>8. Compiles(r)
  <2>1. ASSUME NEW rule \in Range(r.rules)
        PROVE  "bad_regex" \notin rule.matchers /\ Range(rule.targets) \subseteq DOMAIN registry
    <3>1. PICK j \in DOMAIN r.rules : rule = r.rules[j]
      BY DEF Range
    <3>2. /\ "bad_regex" \notin rule.matchers
          /\ \A t \in DOMAIN rule.targets : rule.targets[t] \in ModelIds(config)
      BY <1>1, <1>3, <1>4, <1>5, <3>1 DEF Valid
    <3>3. QED
      BY <1>7, <3>2 DEF Range
  <2>2. QED
    BY <2>1 DEF Compiles
<1>9. Register(r.id, "route") /\ UNCHANGED <<phase, exit>>
  BY <1>6, <1>8
<1>10. Name(Loaded + 1) = r.id
  BY <1>2, <1>4, <1>5 DEF Name
<1>11. Loaded < All /\ Loaded + 1 \notin DOMAIN config.models
  BY <1>2, <1>3, <1>4
<1>12. RegistryInv' /\ Loaded' = Loaded + 1
  BY <1>1, <1>9, <1>10, <1>11, Registering
<1>13. ReservedInv'
  BY <1>1, <1>12, ReservingNothing
<1>14. QED
  BY <1>1, <1>9, <1>12, <1>13, Continuing

\* All is loaded: what the listeners wait for.
LEMMA BindEvictorLoads ==
  ASSUME TypesInv, LoadInv, BindEvictor
  PROVE  LoadInv'
<1>1. /\ phase = "load" /\ phase' = "listen" /\ bound' = DOMAIN registry /\ Shaped(config)
      /\ UNCHANGED <<config, found, reserved, registry, listening, exit>>
      /\ RegistryInv /\ ReservedInv /\ Valid(config)
  BY DEF BindEvictor, Phase, LoadInv, TypesInv
<1>2. PICK n \in Nat, k \in Nat : n = Len(config.models) /\ k = Len(config.routes)
  BY <1>1, Counts
<1>3. Loaded = n + k /\ DOMAIN config.models = 1 .. n
  BY <1>1, <1>2, Counts DEF BindEvictor
<1>4. ASSUME NEW i \in DOMAIN config.models
      PROVE  /\ config.models[i].id \in DOMAIN registry
             /\ registry[config.models[i].id] # "route"
             /\ Eager(config.models[i]) => registry[config.models[i].id] = "loaded"
  <2>1. i \in 1 .. Loaded /\ i <= Loaded /\ i <= n
    BY <1>3, <1>4
  <2>2. Name(i) = config.models[i].id
    BY <1>2, <2>1 DEF Name
  <2>3. QED
    BY <1>1, <2>1, <2>2 DEF RegistryInv
<1>5. ASSUME NEW j \in DOMAIN config.routes, NEW rule \in Range(config.routes[j].rules), NEW t \in Range(rule.targets)
      PROVE  t \in DOMAIN registry /\ registry[t] # "route"
  <2>1. t \in ModelIds(config)
    BY <1>1, <1>5 DEF Valid, Range
  <2>2. PICK i \in DOMAIN config.models : t = config.models[i].id
    BY <2>1 DEF ModelIds
  <2>3. QED
    BY <1>4, <2>2
<1>6. Ready'
  <2>1. \A g : Used(g)' = Used(g)
    BY <1>1 DEF Used
  <2>2. Devices' = Devices /\ BudgetOf' = BudgetOf
    BY <1>1 DEF Devices, BudgetOf
  <2>3. QED
    BY <1>1, <1>4, <1>5, <2>1, <2>2 DEF Ready, ReservedInv
<1>7. ValidatedConfigStarts'
  BY <1>1 DEF LoadInv, ValidatedConfigStarts
<1>8. QED
  BY <1>1, <1>6, <1>7 DEF LoadInv

\* What is ready stays so.
LEMMA StayingReady ==
  ASSUME Ready, UNCHANGED <<config, found, reserved, bound>>, DOMAIN registry' = DOMAIN registry,
         \A id \in DOMAIN registry : registry'[id] \in {registry[id], "loaded"}
  PROVE  Ready'
<1>1. \A g : Used(g)' = Used(g)
  BY DEF Used
<1>2. Devices' = Devices /\ BudgetOf' = BudgetOf
  BY DEF Devices, BudgetOf
<1>3. QED
  BY <1>1, <1>2 DEF Ready

LEMMA ListenLoads ==
  ASSUME TypesInv, LoadInv, Listen
  PROVE  LoadInv'
<1>1. /\ phase = "listen" /\ phase' \in {"listen", "serving", "over"}
      /\ UNCHANGED <<config, found, reserved, registry, bound>>
      /\ exit' \in {exit, "AddrInUse"} /\ (phase' # "over" => exit' = exit) /\ exit = "none"
  BY DEF Listen, Phase, Abort, LoadInv
<1>2. Ready'
  BY <1>1, StayingReady DEF LoadInv
<1>3. ValidatedConfigStarts'
  BY <1>1, BenignStarts DEF Benign
<1>4. QED
  BY <1>1, <1>2, <1>3 DEF LoadInv

\* Whatever happens while serving and after it.
LEMMA ServingLoads ==
  ASSUME LoadInv, UNCHANGED <<config, found, reserved, bound, listening>>, DOMAIN registry' = DOMAIN registry,
         \A id \in DOMAIN registry : registry'[id] \in {registry[id], "loaded"},
         phase \in {"serving", "draining"}, phase' \in {"serving", "draining", "over"},
         exit' \in {exit, "ok"}, phase' # "over" => exit' = exit
  PROVE  LoadInv'
<1>1. Ready'
  BY StayingReady DEF LoadInv
<1>2. ValidatedConfigStarts'
  BY BenignStarts DEF Benign, LoadInv
<1>3. QED
  BY <1>1, <1>2 DEF LoadInv

LEMMA ConnectLoads ==
  ASSUME LoadInv, NEW k \in Clients, Connect(k)
  PROVE  LoadInv'
<1>1. /\ UNCHANGED <<config, found, reserved, bound, listening, phase, exit>> /\ phase = "serving"
      /\ \/ registry' = registry
         \/ \E id \in Locals : registry' = [registry EXCEPT ![id] = "loaded"]
  BY DEF Connect, fixed
<1>2. DOMAIN registry' = DOMAIN registry /\ \A id \in DOMAIN registry : registry'[id] \in {registry[id], "loaded"}
  <2>1. CASE registry' = registry
    BY <2>1
  <2>2. ASSUME NEW id \in Locals, registry' = [registry EXCEPT ![id] = "loaded"]
        PROVE  DOMAIN registry' = DOMAIN registry /\ \A x \in DOMAIN registry : registry'[x] \in {registry[x], "loaded"}
    BY <2>2
  <2>3. QED
    BY <1>1, <2>1, <2>2
<1>3. QED
  BY <1>1, <1>2, ServingLoads

\* A step that only changes connections, the work, the signal or what is drained.
LEMMA OtherLoads ==
  ASSUME LoadInv, UNCHANGED <<config, found, reserved, bound, listening, registry, phase, exit>>
  PROVE  LoadInv'
<1>1. BudgetOf' = BudgetOf /\ Devices' = Devices /\ Loaded' = Loaded /\ All' = All
  BY DEF BudgetOf, Devices, Loaded, All
<1>2. RegistryInv => RegistryInv'
  BY <1>1 DEF RegistryInv, Name
<1>3. ReservedInv => ReservedInv'
  <2>1. \A g : Bytes(g)' = Bytes(g) /\ Used(g)' = Used(g)
    BY DEF Bytes, Used
  <2>2. \A r : OfLoaded(r)' <=> OfLoaded(r)
    BY <1>1 DEF OfLoaded
  <2>3. QED
    BY <1>1, <2>1, <2>2 DEF ReservedInv
<1>4. Ready => Ready'
  BY StayingReady
<1>5. ValidatedConfigStarts'
  BY DEF LoadInv, ValidatedConfigStarts
<1>6. QED
  BY <1>1, <1>2, <1>3, <1>4, <1>5 DEF LoadInv

LEMMA LoadStep ==
  ASSUME TypesInv, LoadInv, [StartupNext]_startupVars
  PROVE  LoadInv'
<1>1. CASE StartupStep
  BY <1>1, ReadConfigLoads, CheckLoads, ResolveBudgetsLoads, LoadModelLoads, CompileRouteLoads, BindEvictorLoads,
     ListenLoads DEF StartupStep
<1>2. CASE ConnectionsDone
  BY <1>2, ServingLoads DEF ConnectionsDone, Phase, fixed
<1>3. CASE Exit
  BY <1>3, ServingLoads DEF Exit, Abort, fixed
<1>4. ASSUME NEW k \in Clients, ClientStep(k)
      PROVE  LoadInv'
  <2>1. CASE Connect(k)
    BY <2>1, ConnectLoads
  <2>2. CASE GenerationEnds(k)
    BY <2>2, OtherLoads DEF GenerationEnds, fixed
  <2>3. CASE Leave(k)
    BY <2>3, OtherLoads DEF Leave, fixed
  <2>4. QED
    BY <1>4, <2>1, <2>2, <2>3 DEF ClientStep
<1>5. CASE Signal
  BY <1>5, OtherLoads DEF Signal, fixed
<1>6. CASE \E id \in Ids : Drain(id)
  BY <1>6, OtherLoads DEF Drain, fixed
<1>7. CASE UNCHANGED startupVars
  BY <1>7, OtherLoads DEF startupVars
<1>8. QED
  BY <1>1, <1>2, <1>3, <1>4, <1>5, <1>6, <1>7 DEF StartupNext, DrainStep

LEMMA LoadStart == StartupInit => LoadInv
<1>1. StartupInit => ValidatedConfigStarts
  BY DEF StartupInit, ValidatedConfigStarts
<1>2. QED
  BY <1>1 DEF StartupInit, LoadInv

\* Nothing listens before the eager models are loaded within the budgets, the
\* routes lead to models and the backends can evict: the order of serve.rs.
THEOREM ListeningWhenReady == StartupSpec => []ReadyBeforeListening
<1>1. StartupInit => TypesInv /\ AccessInv /\ LoadInv
  BY AccessStart, LoadStart
<1>2. TypesInv /\ AccessInv /\ LoadInv /\ [StartupNext]_startupVars => (TypesInv /\ AccessInv /\ LoadInv)'
  BY AccessStep, LoadStep
<1>3. TypesInv /\ AccessInv /\ LoadInv => ReadyBeforeListening
  BY DEF LoadInv, ReadyBeforeListening
<1>4. QED
  BY <1>1, <1>2, <1>3, PTL DEF StartupSpec

\* After validation no route fails to compile, and eager models with devices of
\* their own all find room, unless the driver changes its answer.
THEOREM ValidConfigsStart == StartupSpec => []ValidatedConfigStarts
<1>1. StartupInit => TypesInv /\ AccessInv /\ LoadInv
  BY AccessStart, LoadStart
<1>2. TypesInv /\ AccessInv /\ LoadInv /\ [StartupNext]_startupVars => (TypesInv /\ AccessInv /\ LoadInv)'
  BY AccessStep, LoadStep
<1>3. TypesInv /\ AccessInv /\ LoadInv => ValidatedConfigStarts
  BY DEF LoadInv
<1>4. QED
  BY <1>1, <1>2, <1>3, PTL DEF StartupSpec
=============================================================================
