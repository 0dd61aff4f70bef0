------------------------------- MODULE Follow -------------------------------
(***************************************************************************)
(* `flarion requests tail -n N --follow` beside the server it watches: it  *)
(* prints the tail of the ring (GET /v1/admin/requests) and then what the  *)
(* broadcast channel brings (GET /v1/admin/requests/stream).  The channel  *)
(* keeps FeedCap events for a subscriber; one that is slower is told how   *)
(* many it missed.                                                         *)
(***************************************************************************)
EXTENDS ChatTracker

CONSTANTS
  TailLength,  \* N, at most MAX_TAIL
  FeedCap      \* BROADCAST_CAPACITY

ASSUME FollowAssumption == TailLength \in Nat /\ FeedCap \in Nat \ {0}

VARIABLES
  phase,    \* what the command does: "asking", "listed", "following", "over"
  printed,  \* what it printed: events, and [missed |-> n] for a gap of n
  pending,  \* events in the channel that it has not received
  missed,   \* how many the channel overwrote since it last received one
  before    \* events sent before it subscribed

followVars == <<phase, printed, pending, missed, before>>

\* Events sent to the channel so far.
Sent == UNION {{Event(r, k) : k \in Range(told[r])} : r \in Requests}

FollowInit ==
  /\ ChatInit
  /\ phase = "asking" /\ printed = <<>> /\ pending = <<>> /\ missed = 0 /\ before = {}
-----------------------------------------------------------------------------
\* The tail of the ring is printed.
List ==
  /\ phase = "asking"
  /\ printed' = SubSeq(history, Max({1, Len(history) - TailLength + 1}), Len(history))
  /\ phase' = "listed"
  /\ UNCHANGED <<chatVars, pending, missed, before>>

\* Only then the command subscribes.
Subscribe ==
  /\ phase = "listed"
  /\ phase' = "following"
  /\ before' = Sent
  /\ UNCHANGED <<chatVars, printed, pending, missed>>

\* The server's handlers go on; what they send reaches the subscriber's part of
\* the channel, at the cost of the oldest event when that is full.
Serve ==
  /\ ChatNext
  /\ IF phase # "following" \/ told' = told
       THEN UNCHANGED <<pending, missed>>
       ELSE LET r == CHOOSE r \in Requests : told'[r] # told[r]
                e == Event(r, Last(told'[r]))
                full == Len(pending) = FeedCap IN
            /\ pending' = Append(IF full THEN Tail(pending) ELSE pending, e)
            /\ missed' = IF full THEN missed + 1 ELSE missed
  /\ UNCHANGED <<phase, printed, before>>

\* A gap is passed over in silence.
Receive_NoGap ==
  /\ phase = "following"
  /\ pending # <<>>
  /\ missed' = 0
  /\ printed' = Append(printed, Head(pending))
  /\ pending' = Tail(pending)
  /\ UNCHANGED <<chatVars, phase, before>>

\* It receives an event, or first that there is a gap.
Receive ==
  /\ phase = "following"
  /\ \/ /\ missed > 0
        /\ printed' = Append(printed, [missed |-> missed])
        /\ missed' = 0
        /\ UNCHANGED pending
     \/ /\ missed = 0 /\ pending # <<>>
        /\ printed' = Append(printed, Head(pending))
        /\ pending' = Tail(pending)
        /\ UNCHANGED missed
  /\ UNCHANGED <<chatVars, phase, before>>

\* The connection breaks, or the user has seen enough.
Stop ==
  /\ phase # "over"
  /\ phase' = "over" /\ printed' = <<>> /\ pending' = <<>> /\ missed' = 0 /\ before' = {}
  /\ UNCHANGED chatVars

FollowNext == Serve \/ List \/ Subscribe \/ Receive \/ Stop

FollowSpec == FollowInit /\ [][FollowNext]_<<chatVars, followVars>>
-----------------------------------------------------------------------------
IsGap(line) == "missed" \in DOMAIN line

\* Lines in the order in which the user gets to see them, and where events are.
Shown == printed \o pending
Reports == {i \in DOMAIN Shown : ~IsGap(Shown[i])}

\* How many events gaps stand for: those printed, and the one still to be told.
GapTotal ==
  missed + Cardinality(UNION {{i} \X (1 .. printed[i].missed) : i \in {i \in DOMAIN printed : IsGap(printed[i])}})

\* Although handlers send an event first and put it in the ring later, and the
\* command reads the ring first and subscribes later: it prints nothing twice, no
\* end of a request before its beginning, and of what was sent once it listened it
\* prints all but what its gaps count.
FollowIsHonest ==
  /\ \A i, j \in Reports :
       i < j => /\ Shown[i] # Shown[j]
                /\ Shown[i].req = Shown[j].req => Shown[j].kind # "Started"
  /\ phase = "following" => Cardinality(Sent \ (before \cup {Shown[i] : i \in Reports})) = GapTotal

=============================================================================
