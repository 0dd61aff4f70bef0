----------------------------- MODULE Endpoints -----------------------------
(***************************************************************************)
(* The client's configuration file (src/cli/endpoint_file.rs) and the      *)
(* commands that use it: each flarion process loads the whole file, and    *)
(* `endpoints add | remove | use` and `login` save their edited copy of    *)
(* it.  Saving truncates the file and then writes it; nothing locks it.    *)
(* Every other command resolves from it whom to ask (src/cli/resolve.rs).  *)
(***************************************************************************)
EXTENDS Integers, FiniteSets, FiniteSetsExt, Functions

CONSTANTS
  Terminals,    \* processes, each running one command
  None,
  Unset,        \* a key whose variable is not set, or whose command fails
  Environment,  \* the endpoint FLARION_URL and FLARION_API_KEY name, or None
  LocalConfig,  \* the endpoint of ./flarion.toml, or None
  Loopback      \* the endpoint of last resort

VARIABLES
  cmd,    \* cmd[p]: the command p runs
  pc,     \* pc[p]: how far it is
  exit,   \* exit[p]: its exit code
  copy,   \* copy[p]: the EndpointFile it loaded
  file,   \* the file: Corrupt, or its default and entries
  clash,  \* whether two processes ever were between truncating and writing
  cut     \* whether a process ever was stopped while it wrote

fileVars == <<copy, file, clash, cut>>
endpointVars == <<cmd, pc, exit, copy, file, clash, cut>>

\* Commands that save the file, and all those whose subject it is.
Edits == {"add", "login", "remove", "use"}
FileVerbs == Edits \cup {"list", "test"}

\* An absent file, and an empty one.  Names are numbered as BTreeMap sorts them.
Blank == [default |-> None, entries |-> <<>>]

\* A file that does not parse: it has neither.
Corrupt == [garbled |-> TRUE]

\* Files as the commands leave them: the default is an entry, and there is one if
\* there is any entry.
WellFormed(f) ==
  /\ DOMAIN f = {"default", "entries"}
  /\ DOMAIN f.entries \subseteq Nat
  /\ f.default # None => f.default \in DOMAIN f.entries
  /\ f.default = None => DOMAIN f.entries = {}
-----------------------------------------------------------------------------
\* The entries of both, those of the first where they differ.
Merged(es, gs) == [n \in DOMAIN es \cup DOMAIN gs |-> IF n \in DOMAIN es THEN es[n] ELSE gs[n]]

\* A new endpoint is the default when there is none.
Added(f, n, e) ==
  [default |-> IF f.default = None THEN n ELSE f.default,
   entries |-> Merged([m \in {n} |-> e], f.entries)]

\* The default stays what it was.
Removed_KeepsDefault(f, n) ==
  [f EXCEPT !.entries = Restrict(@, DOMAIN @ \ {n})]

\* When the default goes, the first endpoint left takes its place.
Removed(f, n) ==
  LET left == DOMAIN f.entries \ {n} IN
  [default |-> CASE f.default # n -> f.default
                 [] left = {}     -> None
                 [] OTHER         -> Min(left),
   entries |-> Restrict(f.entries, left)]

\* What the command c makes of the file f it loaded.
Edited(c, f) ==
  CASE c.verb \in {"add", "login"} -> Added(f, c.name, c.entry)
    [] c.verb = "remove"           -> Removed(f, c.name)
    [] c.verb = "use"              -> [f EXCEPT !.default = c.name]

\* Whom the command asks.  A name the file does not have is passed over; --api-key
\* counts with --url only.
Resolve(c, f) ==
  IF c.flag # None                       THEN c.flag
  ELSE IF Environment # None             THEN Environment
  ELSE IF c.name \in DOMAIN f.entries    THEN f.entries[c.name]
  ELSE IF f.default \in DOMAIN f.entries THEN f.entries[f.default]
  ELSE IF LocalConfig # None             THEN LocalConfig
  ELSE Loopback

\* `endpoints test` asks the endpoint named, or the default one, or none.
Tested(c, f) ==
  LET n == IF c.name = None THEN f.default ELSE c.name IN
  IF n \in DOMAIN f.entries THEN f.entries[n] ELSE None

\* login takes a file that does not parse for an empty one; so do commands that
\* only ask, unless --client-config names the file.
Forgiving(c) == c.verb = "login" \/ (c.verb \notin FileVerbs /\ ~c.clientConfig)
-----------------------------------------------------------------------------
EndpointsInit(c, f) ==
  /\ cmd = c
  /\ pc = [p \in Terminals |-> IF c[p] = None THEN "over" ELSE "start"]
  /\ exit = [p \in Terminals |-> None]
  /\ copy = [p \in Terminals |-> Blank]
  /\ file = f
  /\ clash = FALSE
  /\ cut = FALSE

Goto(p, to) == pc' = [pc EXCEPT ![p] = to]

Exit(p, code) ==
  /\ exit' = [exit EXCEPT ![p] = code]
  /\ Goto(p, "over")

LoadFile(p) ==
  /\ pc[p] = "start"
  /\ IF file = Corrupt /\ ~Forgiving(cmd[p])
       THEN Exit(p, 1) /\ UNCHANGED copy
       ELSE /\ copy' = [copy EXCEPT ![p] = IF file = Corrupt THEN Blank ELSE file]
            /\ Goto(p, "loaded") /\ UNCHANGED exit
  /\ UNCHANGED <<cmd, file, clash, cut>>

\* `endpoints list`, and `endpoints use` of a name there is not.
Report(p) ==
  /\ pc[p] = "loaded"
  /\ \/ cmd[p].verb = "list" /\ Exit(p, 0)
     \/ cmd[p].verb = "use" /\ cmd[p].name \notin DOMAIN copy[p].entries /\ Exit(p, 1)
  /\ UNCHANGED <<cmd, copy, file, clash, cut>>

\* Saving begins: login has asked its questions, the file is opened and emptied.
Truncate(p) ==
  /\ pc[p] = "loaded" /\ cmd[p].verb \in Edits
  /\ cmd[p].verb = "use" => cmd[p].name \in DOMAIN copy[p].entries
  /\ file' = Blank
  /\ clash' = (clash \/ \E q \in Terminals : pc[q] = "writing")
  /\ Goto(p, "writing")
  /\ UNCHANGED <<cmd, exit, copy, cut>>

\* A text is written over what another process may have written since: where that
\* is longer its tail is left, which may parse as more entries or as nothing.
Overwrite(text) ==
  \/ file' = text
  \/ file # Blank /\ file' = Corrupt
  \/ file \notin {Blank, Corrupt} /\ file' = [text EXCEPT !.entries = Merged(@, file.entries)]

Write(p) ==
  /\ pc[p] = "writing"
  /\ Overwrite(Edited(cmd[p], copy[p]))
  /\ Exit(p, 0)
  /\ UNCHANGED <<cmd, copy, clash, cut>>

\* What the first lines of the text of f say: the default, and the entries in order,
\* of which the last may lack its key.
Beginnings(f) ==
  LET before(n) == Restrict(f.entries, {m \in DOMAIN f.entries : m < n})
      keyless(n) == [m \in {n} |-> [f.entries[n] EXCEPT !.key = None]]
  IN  {f} \cup {[f EXCEPT !.entries = before(n)] : n \in DOMAIN f.entries}
          \cup {[f EXCEPT !.entries = Merged(keyless(n), before(n))] : n \in DOMAIN f.entries}

\* The process is stopped at any time, by Ctrl-C or by an error of the device, and
\* with it what it was writing.
Kill(p) ==
  /\ pc[p] \in {"loaded", "writing"}
  /\ \/ Goto(p, "over") /\ UNCHANGED exit
     \/ cmd[p].verb \in Edits /\ Exit(p, 1)
  /\ \/ UNCHANGED <<file, cut>>
     \/ /\ pc[p] = "writing"
        /\ cut' = TRUE
        /\ file' = Corrupt \/ \E text \in Beginnings(Edited(cmd[p], copy[p])) : Overwrite(text)
  /\ UNCHANGED <<cmd, copy, clash>>

FileStep(p) == LoadFile(p) \/ Report(p) \/ Truncate(p) \/ Write(p) \/ Kill(p)
-----------------------------------------------------------------------------
\* Whatever commands run at the same time and wherever they are stopped, but in the
\* middle of the text they write: a file that parses has a default that is one of
\* its entries (else resolve would pass it over).  Unless two saves overlapped, it
\* parses once it was saved, and has a default whenever it has an entry.
FileStaysUsable ==
  ~cut =>
    /\ file # Corrupt /\ file.default # None => file.default \in DOMAIN file.entries
    /\ ~clash =>
         IF file = Corrupt
           THEN \A p \in Terminals : exit[p] = 0 => cmd[p].verb \notin Edits
           ELSE file.default = None => DOMAIN file.entries = {}

=============================================================================
