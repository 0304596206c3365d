--------------------------- MODULE Subscriptions ---------------------------
(***************************************************************************)
(* oracle/oracle.go, the subscriber side: SubscribePrice, the cancel       *)
(* function it returns, and broadcast.  Each of the three holds subsMu     *)
(* from its first to its last statement, so each is one step; a subscriber *)
(* receives from its channel without the lock.                             *)
(***************************************************************************)
EXTENDS Integers, Sequences

CONSTANTS
    Updates,          \* what broadcast may be given
    SubBufferSize,    \* subBufferSize
    MaxSubs           \* bound: SubscribePrice is called at most this often

ASSUME SubsAssumption ==
    /\ SubBufferSize \in Nat \ {0}
    /\ MaxSubs \in Nat

VARIABLES
    subs,        \* ids of the active subscriptions, the keys of Oracle.subs
    nextSubID,   \* the id of the next one
    chans,       \* id -> its channel, which outlives the entry in subs
    panicked     \* a goroutine panicked: the process is gone

subsVars == <<subs, nextSubID, chans, panicked>>

SubIDs == 0 .. MaxSubs - 1

Channel == [buf : Seq(Updates), closed : BOOLEAN]

NoChannels == [id \in {} |-> <<>>]

SubsInit ==
    /\ subs = {}
    /\ nextSubID = 0
    /\ chans = NoChannels
    /\ panicked = FALSE

\* Mutant: nextSubID is not advanced.
SubscribeSameID ==
    /\ ~panicked
    /\ nextSubID < MaxSubs
    /\ chans' = [id \in DOMAIN chans \cup {nextSubID} |->
                    IF id = nextSubID THEN [buf |-> <<>>, closed |-> FALSE]
                                      ELSE chans[id]]
    /\ subs' = subs \cup {nextSubID}
    /\ UNCHANGED <<nextSubID, panicked>>

SubscribePrice ==
    /\ ~panicked
    /\ nextSubID < MaxSubs
    /\ nextSubID' = nextSubID + 1
    /\ chans' = [id \in DOMAIN chans \cup {nextSubID} |->
                    IF id = nextSubID THEN [buf |-> <<>>, closed |-> FALSE]
                                      ELSE chans[id]]
    /\ subs' = subs \cup {nextSubID}
    /\ UNCHANGED panicked

\* Mutant: the entry stays in subs.
CancelWithoutDelete(id) ==
    /\ ~panicked
    /\ id \in DOMAIN chans
    /\ IF chans[id].closed
       THEN panicked' = TRUE /\ UNCHANGED chans
       ELSE chans' = [chans EXCEPT ![id].closed = TRUE] /\ UNCHANGED panicked
    /\ UNCHANGED <<subs, nextSubID>>

\* Mutant: the channel is not closed.
CancelWithoutClose(id) ==
    /\ ~panicked
    /\ id \in DOMAIN chans
    /\ subs' = subs \ {id}
    /\ UNCHANGED <<chans, panicked, nextSubID>>

\* delete of a key that is not there is harmless, close of a closed channel
\* panics: whoever holds the function may call it twice.
Cancel(id) ==
    /\ ~panicked
    /\ id \in DOMAIN chans
    /\ subs' = subs \ {id}
    /\ IF chans[id].closed
       THEN panicked' = TRUE /\ UNCHANGED chans
       ELSE chans' = [chans EXCEPT ![id].closed = TRUE] /\ UNCHANGED panicked
    /\ UNCHANGED nextSubID

\* Mutants: the update is sent twice; the last place stays free; the oldest
\* update makes room.
OfferTwice(buf, update) ==
    IF Len(buf) < SubBufferSize THEN buf \o <<update, update>> ELSE buf

OfferButLast(buf, update) ==
    IF Len(buf) < SubBufferSize - 1 THEN Append(buf, update) ELSE buf

OfferEvicting(buf, update) ==
    Append(IF Len(buf) < SubBufferSize THEN buf ELSE Tail(buf), update)

\* What the send of broadcast's select leaves of a channel's buffer.
Offer(buf, update) ==
    IF Len(buf) < SubBufferSize THEN Append(buf, update) ELSE buf

\* A send on a closed channel panics even inside a select.
Broadcast(update) ==
    /\ ~panicked
    /\ IF \E id \in subs : chans[id].closed
       THEN panicked' = TRUE /\ UNCHANGED chans
       ELSE /\ chans' = [id \in DOMAIN chans |->
                            IF id \in subs
                            THEN [chans[id] EXCEPT !.buf = Offer(@, update)]
                            ELSE chans[id]]
            /\ UNCHANGED panicked
    /\ UNCHANGED <<subs, nextSubID>>

\* The subscriber takes the oldest update; a closed channel still yields what
\* it holds.
Receive(id) ==
    /\ ~panicked
    /\ id \in DOMAIN chans
    /\ chans[id].buf # <<>>
    /\ chans' = [chans EXCEPT ![id].buf = Tail(@)]
    /\ UNCHANGED <<subs, nextSubID, panicked>>

SubsNext ==
    \/ SubscribePrice
    \/ \E id \in SubIDs : Cancel(id) \/ Receive(id)
    \/ \E update \in Updates : Broadcast(update)

SubsSpec == SubsInit /\ [][SubsNext]_subsVars

-----------------------------------------------------------------------------
(***************************************************************************)
(* Every subscription ever made has a channel, the ids count up from 0,    *)
(* and what is active was subscribed.                                      *)
(***************************************************************************)
SubsTypeOK ==
    /\ nextSubID \in 0 .. MaxSubs
    /\ DOMAIN chans = 0 .. nextSubID - 1
    /\ chans \in [DOMAIN chans -> Channel]
    /\ subs \subseteq DOMAIN chans
    /\ panicked \in BOOLEAN

(***************************************************************************)
(* broadcast never sends on a closed channel: delete and close happen      *)
(* under one lock, so a channel is closed exactly when its entry is gone   *)
(* (oracle.go:155-161, 296-298).                                           *)
(***************************************************************************)
SubscribedIsOpen == \A id \in DOMAIN chans : chans[id].closed <=> id \notin subs
=============================================================================
