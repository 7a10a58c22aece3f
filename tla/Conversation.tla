----------------------------- MODULE Conversation -----------------------------
(***************************************************************************)
(* What a connection promises its client, however the stream is cut:       *)
(* requests are settled one at a time, in the order they were sent, each   *)
(* with one reply that it may be given.  Only two things go without: a     *)
(* request that asks for nothing, and one that ends the connection.  One   *)
(* that the server cannot take ends the conversation: it is refused, again *)
(* and again, and what follows it is never settled.                        *)
(***************************************************************************)
EXTENDS Integers, Sequences

CONSTANTS
    Requests,
    Bodies,       \* for each, the replies it may be given
    Nothing,      \* the requests that ask for nothing
    Goodbyes,     \* those that end the connection
    Refusable,    \* those that the server may be unable to take
    Refusal       \* the reply it then gives

VARIABLES
    sent,         \* what the client has sent
    settled,      \* how many requests the server is done with
    refused,      \* whether it is stuck at the next
    open,         \* whether the connection is
    replies       \* every reply given, and to which request

talkVars == <<sent, settled, refused, open, replies>>

Init ==
    /\ sent = <<>>
    /\ settled = 0
    /\ refused = FALSE
    /\ open = TRUE
    /\ replies = <<>>

\* The client may go on, whether it has been answered or not.
Ask ==
    /\ \E r \in Requests : sent' = Append(sent, r)
    /\ UNCHANGED <<settled, refused, open, replies>>

Ready == open /\ ~refused /\ settled < Len(sent)
First == sent[settled + 1]

Give(body) == replies' = Append(replies, [to |-> settled + 1, body |-> body])

Reply ==
    /\ Ready
    /\ \E body \in Bodies[First] : Give(body)
    /\ settled' = settled + 1
    /\ UNCHANGED <<sent, refused, open>>

Ignore ==
    /\ Ready
    /\ First \in Nothing
    /\ settled' = settled + 1
    /\ UNCHANGED <<sent, refused, open, replies>>

Refuse ==
    /\ open
    /\ settled < Len(sent)
    /\ First \in Refusable
    /\ Give(Refusal)
    /\ refused' = TRUE
    /\ UNCHANGED <<sent, settled, open>>

Part ==
    /\ Ready
    /\ First \in Goodbyes
    /\ settled' = settled + 1
    /\ open' = FALSE
    /\ UNCHANGED <<sent, refused, replies>>

\* The server stops, or gives the connection up.
HangUp ==
    /\ open
    /\ open' = FALSE
    /\ UNCHANGED <<sent, settled, refused, replies>>

Next == Ask \/ Reply \/ Ignore \/ Refuse \/ Part \/ HangUp

Spec == Init /\ [][Next]_talkVars
=============================================================================
