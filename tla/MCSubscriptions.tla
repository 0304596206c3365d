-------------------------- MODULE MCSubscriptions --------------------------
(***************************************************************************)
(* The subscriptions by themselves, with a publisher that broadcasts the   *)
(* updates 1, 2, 3, ... and subscribers that come, read and go at any      *)
(* time.  Ghosts: published counts the broadcasts, since[id] is their      *)
(* number when id subscribed, seen[id] is what id has received.            *)
(***************************************************************************)
EXTENDS Subscriptions

VARIABLES published, since, seen

ghosts == <<published, since, seen>>
loggedVars == <<subsVars, ghosts>>

LoggedInit ==
    /\ SubsInit
    /\ published = 0
    /\ since = <<>>
    /\ seen = <<>>

\* since and seen are sequences: the ids count up from 0.
LoggedSubscribe ==
    /\ SubscribePrice
    /\ since' = Append(since, published)
    /\ seen' = Append(seen, <<>>)
    /\ UNCHANGED published

LoggedCancel(id) == Cancel(id) /\ UNCHANGED ghosts

LoggedBroadcast ==
    /\ published + 1 \in Updates
    /\ Broadcast(published + 1)
    /\ published' = published + 1
    /\ UNCHANGED <<since, seen>>

LoggedReceive(id) ==
    /\ Receive(id)
    /\ seen' = [seen EXCEPT ![id + 1] = Append(@, Head(chans[id].buf))]
    /\ UNCHANGED <<published, since>>

LoggedNext ==
    \/ LoggedSubscribe
    \/ LoggedBroadcast
    \/ \E id \in SubIDs : LoggedCancel(id) \/ LoggedReceive(id)

\* A subscriber keeps reading; nobody has to subscribe, cancel or publish.
ReadersRead == \A id \in SubIDs : WF_loggedVars(LoggedReceive(id))

LoggedSpec == LoggedInit /\ [][LoggedNext]_loggedVars /\ ReadersRead

-----------------------------------------------------------------------------
\* What id has received or can still receive.
Delivered(id) == seen[id + 1] \o chans[id].buf

(***************************************************************************)
(* A subscriber is sent updates in the order they were broadcast, none of  *)
(* them twice, and none from before it subscribed.                         *)
(***************************************************************************)
InOrderNoDuplicates ==
    \A id \in DOMAIN chans :
        LET d == Delivered(id)
        IN  \A i \in DOMAIN d :
                /\ d[i] > since[id + 1]
                /\ d[i] <= published
                /\ i > 1 => d[i-1] < d[i]

(***************************************************************************)
(* "A slow consumer may miss updates if the buffer fills" (oracle.go:144), *)
(* and only then: whatever the subscriber reads and whoever else comes and *)
(* goes, the first SubBufferSize updates since it subscribed are all       *)
(* delivered, with no gap.                                                 *)
(***************************************************************************)
MissedOnlyWhenFull ==
    \A id \in subs :
        LET d      == Delivered(id)
            start  == since[id + 1]
            due    == published - start
        IN  /\ Len(d) >= IF due < SubBufferSize THEN due ELSE SubBufferSize
            /\ \A i \in DOMAIN d : i <= SubBufferSize => d[i] = start + i

(***************************************************************************)
(* Nothing a subscriber was sent is taken back, by a full buffer, another  *)
(* subscriber's cancel or its own.                                         *)
(***************************************************************************)
DeliveredOnlyGrows ==
    [][\A id \in DOMAIN chans :
          /\ Len(Delivered(id)) <= Len(Delivered(id)')
          /\ SubSeq(Delivered(id)', 1, Len(Delivered(id))) = Delivered(id)
      ]_loggedVars

Cancelled(id) == id \in DOMAIN chans \ subs
Drained(id)   == Cancelled(id) /\ chans[id] = [buf |-> <<>>, closed |-> TRUE]

(***************************************************************************)
(* A subscriber that keeps reading empties its channel after cancel and    *)
(* then sees it closed, unless a second cancel took the process down.      *)
(***************************************************************************)
DrainsAfterCancel ==
    \A id \in SubIDs : Cancelled(id) ~> (panicked \/ Drained(id))
=============================================================================
