------------------------------- MODULE Client -------------------------------
(***************************************************************************)
(* flarion as a client of a server's HTTP interface: the commands, which   *)
(* ask once and turn the answer into an exit code (src/cli/client.rs,      *)
(* src/cli/commands), and CachedClient (src/cli/cache.rs), which tasks of  *)
(* one program share and whose reads are up to TTL old.  A request can get *)
(* lost, its answer can, and a server can serve one nobody waits for.      *)
(***************************************************************************)
EXTENDS Endpoints, Sequences, SequencesExt

CONSTANTS
  Tasks,      \* tasks that share a CachedClient
  Here,       \* the URL where the server is
  ServerKey,  \* the key it asks for
  Uses,       \* what the tasks read and which mutations they make
  TTL,        \* age in ticks at which a cached value is stale (1 second)
  Timeout,    \* ticks after which a call is given up (5 seconds)
  Sessions    \* [cmds, file, ops]: commands run, the file at first, calls per task

Mutations == {"load", "unload", "pin", "unpin"}

\* Those that change the server.  pin and unpin are answered like the others, but no
\* backend overrides InferenceBackend::pin, which does nothing.
Effective == {"load", "unload"}
Kinds == {"status", "gpus", "models", "routes"}
Chats == {"chat", "chatStream"}
Verbs == FileVerbs \cup Mutations \cup Chats \cup Kinds
Answers == {"ok", "unauthorized", "notFound", "conflict", "serverError"}

\* Endpoints, and commands as clap has parsed them.
Endpoint == [url : STRING, key : STRING \cup {None, Unset}]

Commands ==
  [verb : Verbs, name : Nat \cup {None}, entry : Endpoint, flag : Endpoint \cup {None},
   clientConfig : BOOLEAN, confirm : BOOLEAN]

ASSUME ClientAssumption ==
  /\ None \notin Verbs \cup Answers /\ None \notin Int
  /\ Terminals \cap Tasks = {}
  /\ \A s \in Sessions :
       /\ s.cmds \in [Terminals -> Commands \cup {None}]
       /\ \A p \in Terminals : s.cmds[p] # None /\ s.cmds[p].verb \in Edits => s.cmds[p].name # None
       /\ s.file = Corrupt \/ WellFormed(s.file)
       /\ s.ops \in [Tasks -> Nat]
  /\ TTL \in Nat \ {0} /\ Timeout \in Nat
  /\ Uses \subseteq Kinds \cup Mutations

Callers == Terminals \cup Tasks

VARIABLES
  call,     \* call[q]: the call q is making
  stray,    \* stray[q]: loads and unloads q gave up that may still reach the server
  applied,  \* applied[q]: whether a load or unload q asked for took effect
  version,  \* state of the server: the number of loads and unloads that took effect
  since,    \* since[v]: ticks since version v was replaced, up to a cap
  cache,    \* cache[k]: the value cached for k and its age, or None
  floor,    \* the version of the last own mutation that has returned
  racing,   \* racing[k]: whether k was being read when last invalidated
  left      \* left[t]: calls t will still make

serverVars == <<stray, applied, version, since>>
cacheVars == <<cache, floor, racing, left>>
clientVars == <<call, stray, applied, version, since, cache, floor, racing, left>>
vars == <<cmd, pc, exit, copy, file, clash, cut, call, stray, applied, version, since,
          cache, floor, racing, left>>

NoCall == [verb |-> None, reply |-> None, value |-> 0, elapsed |-> 0, todo |-> <<>>]

Oldest == Timeout + TTL
-----------------------------------------------------------------------------
\* The ClientError of an HTTP status.
ErrorOf(reply) ==
  CASE reply = "unauthorized"              -> "Unauthorized"
    [] reply = "notFound"                  -> "NotFound"
    [] reply = "conflict"                  -> "Conflict"
    [] OTHER                               -> "Server"

\* A mutation given up counts as one the server refused.
ExitCode_TimeoutIsConflict(verb, error) ==
  IF verb = "test"                                              THEN 3
  ELSE IF error = "Unauthorized"                                THEN 2
  ELSE IF error = "Unreachable"                                 THEN 3
  ELSE IF error = "NotFound" /\ verb \in Mutations \cup Chats   THEN 4
  ELSE IF error \in {"Conflict", "Timeout"} /\ verb \in Mutations THEN 5
  ELSE 1

\* The exit code of a command that met the error.
ExitCode(verb, error) ==
  IF verb = "test"                                            THEN 3
  ELSE IF error = "Unauthorized"                              THEN 2
  ELSE IF error = "Unreachable"                               THEN 3
  ELSE IF error = "NotFound" /\ verb \in Mutations \cup Chats THEN 4
  ELSE IF error = "Conflict" /\ verb \in Mutations            THEN 5
  ELSE 1

\* What the handler of a request may answer, past authentication.
Replies(verb) ==
  {"ok"} \cup (IF verb \in Mutations \cup Chats THEN {"notFound", "serverError"} ELSE {})
         \cup (IF verb = "unload" THEN {"conflict"} ELSE {})

\* The endpoint of q; that of the CachedClient is the server's.
Target(q) ==
  CASE q \in Tasks          -> [url |-> Here, key |-> ServerKey]
    [] cmd[q].verb = "test" -> Tested(cmd[q], copy[q])
    [] OTHER                -> Resolve(cmd[q], copy[q])

Waiting(q) == call[q].verb # None /\ call[q].todo = <<>>

Send(q, verb) == call' = [call EXCEPT ![q] = [NoCall EXCEPT !.verb = verb]]
-----------------------------------------------------------------------------
ClientInit ==
  \E s \in Sessions :
    /\ EndpointsInit(s.cmds, s.file)
    /\ left = s.ops
    /\ call = [q \in Callers |-> NoCall]
    /\ stray = [q \in Callers |-> 0]
    /\ applied = [q \in Callers |-> FALSE]
    /\ version = 0
    /\ since = <<>>
    /\ cache = [k \in Kinds |-> None]
    /\ floor = 0
    /\ racing = [k \in Kinds |-> FALSE]

\* A command asks whom it resolved, unless there is none or its key is not to be
\* had.
Ask(p) ==
  /\ pc[p] = "loaded" /\ cmd[p].verb \notin FileVerbs \ {"test"}
  /\ IF Target(p) = None \/ Target(p).key = Unset
       THEN Exit(p, 1) /\ UNCHANGED call
       ELSE Send(p, cmd[p].verb) /\ Goto(p, "asking") /\ UNCHANGED exit
  /\ UNCHANGED <<cmd, fileVars, serverVars, cacheVars>>

\* The user does not confirm.
Decline(p) ==
  /\ pc[p] = "loaded" /\ cmd[p].verb \in {"unload", "unpin"} /\ cmd[p].confirm
  /\ exit' = [exit EXCEPT ![p] = 0]
  /\ Goto(p, "declined")
  /\ UNCHANGED <<cmd, fileVars, clientVars>>

\* A load or unload, of a local model, takes effect at the server.
Apply(q) ==
  /\ version' = version + 1
  /\ since' = Append(since, 0)
  /\ applied' = [applied EXCEPT ![q] = TRUE]

\* The server answers a request that reached it.
Serve(q) ==
  LET verb == call[q].verb
      admitted == Target(q).key = ServerKey IN
  /\ Waiting(q) /\ call[q].reply = None /\ Target(q).url = Here
  /\ \E r \in IF admitted THEN Replies(verb) ELSE {"unauthorized"} :
       /\ IF r = "ok" /\ verb \in Effective THEN Apply(q) ELSE UNCHANGED <<version, since, applied>>
       /\ call' = [call EXCEPT ![q].reply = r, ![q].value = version']
  /\ UNCHANGED <<cmd, pc, exit, fileVars, stray, cacheVars>>

\* It serves a load or unload whose caller has given up.
ServeStray(q) ==
  /\ stray[q] > 0
  /\ stray' = [stray EXCEPT ![q] = @ - 1]
  /\ Apply(q)
  /\ UNCHANGED <<cmd, pc, exit, fileVars, call, cacheVars>>

\* The call of q is over; a load or unload not answered yet may still be served.
HangUp(q) ==
  /\ call' = [call EXCEPT ![q] = NoCall]
  /\ stray' = IF call[q].verb \in Effective /\ call[q].reply = None /\ Target(q).url = Here
                   /\ Target(q).key = ServerKey
                THEN [stray EXCEPT ![q] = @ + 1] ELSE stray

\* The call ends with a ClientError: a command exits with its code.
EndWith(q, error) ==
  /\ HangUp(q)
  /\ IF q \in Terminals THEN Exit(q, ExitCode(call[q].verb, error)) ELSE UNCHANGED <<pc, exit>>
  /\ UNCHANGED <<cmd, fileVars, applied, version, since, cacheVars>>

\* The answer is an HTTP error.
HearError(q) ==
  /\ Waiting(q) /\ call[q].reply \notin {None, "ok"}
  /\ EndWith(q, ErrorOf(call[q].reply))

\* The connection fails, or it breaks in the body of a good answer.  Of mutations
\* only the status is read.
Lose(q) ==
  /\ Waiting(q)
  /\ \/ call[q].reply = None /\ EndWith(q, "Unreachable")
     \/ /\ call[q].reply = "ok" /\ call[q].verb \notin Mutations \cup {"chatStream"}
        /\ EndWith(q, "Decode")

\* The time is up.  A streaming chat has no error of its own for that.
Expire(q) ==
  /\ Waiting(q) /\ call[q].elapsed = Timeout
  /\ \/ call[q].reply = None /\ EndWith(q, IF call[q].verb = "chatStream" THEN "Unreachable" ELSE "Timeout")
     \/ /\ call[q].reply = "ok" /\ call[q].verb \notin Mutations \cup {"chatStream"}
        /\ EndWith(q, "Decode")

\* A command heard that all is well; a streaming chat that breaks off later exits
\* like one that does not.
HearOk(p) ==
  /\ p \in Terminals /\ Waiting(p) /\ call[p].reply = "ok"
  /\ call' = [call EXCEPT ![p] = NoCall]
  /\ Exit(p, 0)
  /\ UNCHANGED <<cmd, fileVars, serverVars, cacheVars>>
-----------------------------------------------------------------------------
\* A value is fresh for one tick too long.
Fresh_Off(k) == cache[k] # None /\ cache[k].age <= TTL

Fresh(k) == cache[k] # None /\ cache[k].age < TTL

Spend(t) == left' = [left EXCEPT ![t] = @ - 1]

\* A read finds a fresh value, or asks the server.
Read(t, k) ==
  /\ left[t] > 0 /\ call[t].verb = None
  /\ Spend(t)
  /\ IF Fresh(k) THEN UNCHANGED call ELSE Send(t, k)
  /\ UNCHANGED <<cmd, pc, exit, fileVars, serverVars, cache, floor, racing>>

\* A value that was fetched is stored, its age counted from now.
StoreValue(t) ==
  /\ call[t].verb \in Kinds /\ call[t].reply = "ok"
  /\ cache' = [cache EXCEPT ![call[t].verb] = [value |-> call[t].value, age |-> 0]]
  /\ call' = [call EXCEPT ![t] = NoCall]
  /\ UNCHANGED <<cmd, pc, exit, fileVars, serverVars, floor, racing, left>>

\* load_model, unload_model, pin_model.
Mutate(t) ==
  /\ left[t] > 0 /\ call[t].verb = None
  /\ Spend(t)
  /\ \E verb \in Uses \cap Mutations : Send(t, verb)
  /\ UNCHANGED <<cmd, pc, exit, fileVars, serverVars, cache, floor, racing>>

\* models is forgotten.
Invalidated_NoModels == <<"status", "gpus">>

\* What invalidate_on_mutation clears, one lock after the other.
Invalidated == <<"status", "models", "gpus">>

\* The mutation succeeded: the values it changed are to go.
Succeed(t) ==
  /\ Waiting(t) /\ call[t].verb \in Mutations /\ call[t].reply = "ok"
  /\ call' = [call EXCEPT ![t].todo = Invalidated]
  /\ UNCHANGED <<cmd, pc, exit, fileVars, serverVars, cacheVars>>

\* One goes; with the last of them the mutation returns.
Invalidate(t) ==
  LET k == Head(call[t].todo)
      rest == Tail(call[t].todo) IN
  /\ call[t].todo # <<>>
  /\ cache' = [cache EXCEPT ![k] = None]
  /\ racing' = [racing EXCEPT ![k] = \E u \in Tasks : call[u].verb = k]
  /\ IF rest = <<>>
       THEN /\ call' = [call EXCEPT ![t] = NoCall]
            /\ floor' = Max({floor, call[t].value})
       ELSE call' = [call EXCEPT ![t].todo = rest] /\ UNCHANGED floor
  /\ UNCHANGED <<cmd, pc, exit, fileVars, serverVars, left>>

\* Time passes.  A call that has run out of it ends first.
Tick ==
  /\ \A q \in Callers : Waiting(q) => call[q].elapsed < Timeout
  /\ call' = [q \in Callers |-> IF Waiting(q) THEN [call[q] EXCEPT !.elapsed = @ + 1] ELSE call[q]]
  /\ since' = [v \in DOMAIN since |-> Min({since[v] + 1, Oldest})]
  /\ cache' = [k \in Kinds |-> IF cache[k] = None THEN None
                               ELSE [cache[k] EXCEPT !.age = Min({@ + 1, TTL})]]
  /\ UNCHANGED <<cmd, pc, exit, fileVars, stray, applied, version, floor, racing, left>>
-----------------------------------------------------------------------------
Command(p) ==
  \/ FileStep(p) /\ UNCHANGED clientVars
  \/ Ask(p) \/ Decline(p) \/ HearOk(p)

Dashboard(t) ==
  \/ \E k \in Uses \cap Kinds : Read(t, k)
  \/ StoreValue(t) \/ Mutate(t) \/ Succeed(t) \/ Invalidate(t)

Http(q) == Serve(q) \/ ServeStray(q) \/ HearError(q) \/ Lose(q) \/ Expire(q)

ClientNext ==
  \/ \E p \in Terminals : Command(p)
  \/ \E t \in Tasks : Dashboard(t)
  \/ \E q \in Callers : Http(q)
  \/ Tick

ClientSpec == ClientInit /\ [][ClientNext]_vars
-----------------------------------------------------------------------------
\* The exit code tells what became of a load or unload: 0 (when the user did not
\* decline it) says it took effect, "unauthorized", "no such model" and "can't" say
\* that it did not and never will.  "can't reach" and other errors leave it open.
ExitTellsTheTruth ==
  \A p \in Terminals :
    exit[p] # None /\ pc[p] = "over" /\ cmd[p].verb \in Effective =>
      /\ exit[p] = 0 => applied[p]
      /\ exit[p] \in {2, 4, 5} => ~applied[p]

\* "Mutations invalidate the cache" (cache.rs:23): after an own mutation returned, no
\* read gets what was there before it, unless another read of it was under way when
\* it was invalidated.
OwnWritesSeen ==
  \A k \in Kinds \ {"routes"} : Fresh(k) /\ cache[k].value < floor => racing[k]

\* Whoever changes the server, and however slow its answers are: what a read gets
\* was replaced less than a timeout and the TTL ago.
NotTooOld ==
  \A k \in Kinds :
    Fresh(k) /\ cache[k].value < version => since[cache[k].value + 1] < Oldest

\* What the dashboard shows is neither from before its own mutations nor too old.
CacheNeverMisleads == OwnWritesSeen /\ NotTooOld

=============================================================================
