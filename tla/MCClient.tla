------------------------------ MODULE MCClient ------------------------------
(***************************************************************************)
(* Two commands at a time, or one beside a program with a CachedClient.    *)
(***************************************************************************)
EXTENDS Client, TLC

CONSTANTS x, y

MCHere == [url |-> "here", key |-> "k"]
MCWrong == [url |-> "here", key |-> "wrong"]
MCNoKey == [url |-> "here", key |-> Unset]
MCAway == [url |-> "away", key |-> None]
MCLoopback == [url |-> "loopback", key |-> None]
MCUses == {"models", "unload"}

\* A command with no options.
Plain(verb, n) ==
  [verb |-> verb, name |-> n, entry |-> MCHere, flag |-> None, clientConfig |-> FALSE, confirm |-> FALSE]

EditCommands ==
  {Plain(v, n) : v \in {"add", "remove", "use", "login"}, n \in {1, 2}} \cup {Plain("list", None)}

AskCommands ==
  {Plain(v, n) : v \in {"load", "chat", "chatStream", "models"}, n \in {None, 1, 2}}
    \cup {Plain("test", n) : n \in {None, 1}}
    \cup {[Plain(v, 1) EXCEPT !.confirm = TRUE, !.clientConfig = TRUE] : v \in {"unload", "unpin"}}
    \cup {[Plain("load", None) EXCEPT !.flag = MCWrong], [Plain("pin", None) EXCEPT !.flag = MCHere]}

\* Files as the commands leave them, and one spoilt by hand.
Files ==
  {Blank, Corrupt,
   [default |-> 1, entries |-> 1 :> MCHere],
   [default |-> 2, entries |-> (1 :> MCNoKey) @@ (2 :> MCWrong)],
   [default |-> 1, entries |-> (1 :> MCHere) @@ (2 :> MCAway)]}

Idle == [t \in Tasks |-> 0]

MCSessions ==
  {[cmds |-> (x :> c) @@ (y :> d), file |-> f, ops |-> Idle] : c \in EditCommands,
      d \in EditCommands \cup AskCommands, f \in Files}
    \cup {[cmds |-> (x :> [Plain("load", None) EXCEPT !.flag = MCHere]) @@ (y :> None), file |-> Blank,
           ops |-> [t \in Tasks |-> 1]]}
    \cup {[cmds |-> [p \in Terminals |-> None], file |-> Blank, ops |-> [t \in Tasks |-> 2]]}
=============================================================================
