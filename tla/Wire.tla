--------------------------------- MODULE Wire ---------------------------------
(***************************************************************************)
(* One connection's byte stream: recv_command and the parsers of           *)
(* platypus/src/protocol, the loop of handle_connection around them, and   *)
(* what its replies look like on the wire.  The stream arrives cut         *)
(* anywhere: each request is some pieces, of which the BufReader has got   *)
(* a number so far, and of the last of which the client may leave some out *)
(* when it ends the stream.                                                *)
(***************************************************************************)
EXTENDS Integers, Sequences

CONSTANTS
    Requests,     \* what the client may send, see Line and Packet
    Numbers,      \* the words that parse as u32
    Flags,        \* the words that parse_meta_flags takes
    MaxSent,      \* bound: requests sent
    MaxReplies    \* bound: replies written

\* A text or meta request, by its words, and a binary one, by what its magic
\* says it is, its opcode, and the lengths of its parts: the value's is what
\* the header's total leaves.
IsLine(r) == r.kind = "line"
IsPacket(r) == r.kind = "packet"

ASSUME WireAssumption ==
    \A r \in Requests : \/ IsPacket(r)
                        \/ IsLine(r) /\ r.words \in Seq(STRING)

VARIABLES
    sent,         \* every request the client has written
    finished,     \* whether the client has shut its side of the stream
    consumed,     \* how many requests have been taken from the buffer
    inFlight,     \* how many pieces of those that follow have been written
    have,         \* and how many of these are in the buffer
    pc,           \* "read" (in recv_command), "serve" (in the service call,
                  \* or in write_all) or "closed"
    replies       \* every reply written

wireVars == <<sent, finished, consumed, inFlight, have, pc, replies>>

Size(r) == IF IsLine(r) THEN Len(r.words) + 1            \* and the newline
           ELSE IF r.extras + r.key + r.value = 0 THEN 2 \* half headers
           ELSE 3                                        \* and the body

Current == sent[consumed + 1]
Whole == have >= Size(Current)

Packet(opcode, status) == [opcode |-> opcode, status |-> status]

TypeOK ==
    /\ sent \in Seq(Requests)
    /\ finished \in BOOLEAN
    /\ consumed \in 0 .. Len(sent)
    /\ inFlight \in Nat
    /\ have \in 0 .. inFlight
    /\ pc \in {"read", "serve", "closed"}
    /\ pc = "serve" => consumed > 0
    /\ \A i \in 1 .. Len(replies) : replies[i].to \in 1 .. Len(sent)

Init ==
    /\ sent = <<>>
    /\ finished = FALSE
    /\ consumed = 0
    /\ inFlight = 0
    /\ have = 0
    /\ pc = "read"
    /\ replies = <<>>

-----------------------------------------------------------------------------
(* The client.                                                             *)

Send(r) ==
    /\ ~finished
    /\ Len(sent) < MaxSent
    /\ sent' = Append(sent, r)
    /\ inFlight' = inFlight + Size(r)
    /\ UNCHANGED <<finished, consumed, have, pc, replies>>

\* The stream ends, maybe in the middle of the last request.
Finish ==
    /\ ~finished
    /\ finished' = TRUE
    /\ \/ UNCHANGED inFlight
       \/ /\ consumed < Len(sent)
          /\ inFlight' \in have .. inFlight
          /\ inFlight' > inFlight - Size(sent[Len(sent)])
    /\ UNCHANGED <<sent, consumed, have, pc, replies>>

-----------------------------------------------------------------------------
(* The parsers.                                                            *)

\* text::parse
AcceptsText(words) ==
    \/ words[1] \in {"version", "stats", "quit"}
    \/ words[1] \in {"get", "gets"} /\ Len(words) >= 2
    \/ words[1] \in {"gat", "gats"} /\ Len(words) >= 3 /\ words[2] \in Numbers
    \/ words[1] = "touch" /\ Len(words) = 3 /\ words[3] \in Numbers

\* meta::parse, which is given lines that start "mg " or are "mn".
AcceptsMeta(words) ==
    \/ /\ words[1] = "mg" /\ Len(words) >= 2
       /\ \A i \in 3 .. Len(words) : words[i] \in Flags
    \/ words = <<"mn">>

AcceptsLine(words) == AcceptsText(words) \/ AcceptsMeta(words)

\* The commands of parse_binary; any other opcode is refused.
Opcodes == [GET |-> "get", GETK |-> "get", VERSION |-> "version",
            QUIT |-> "quit", STAT |-> "stats", DELETE |-> "touch"]

AcceptsPacket(r) ==
    /\ r.magic = "request"
    /\ r.opcode \in DOMAIN Opcodes
    /\ r.extras = 0 /\ r.value = 0
    /\ r.opcode \in {"GET", "GETK", "DELETE"} => r.key > 0
    /\ r.opcode \in {"VERSION", "QUIT"} => r.key = 0

Command(r) == IF IsLine(r) THEN r.words[1] ELSE Opcodes[r.opcode]

-----------------------------------------------------------------------------
(* Response::serialize: the first words of the lines of a text reply, or   *)
(* the headers of the packets of a binary one.                             *)

Lookups == {"get", "gets", "mg"}

\* What the service may answer; the timeout reaches the commands that wait.
Responses(command) ==
    IF command \in Lookups THEN {"hit", "miss", "error"} ELSE {"done"}

\* Response::format.
TextReply(command, response) ==
    IF response = "error" THEN <<"ERROR">> ELSE
    CASE command \in {"get", "gets"} /\ response = "miss" -> <<"END">>
      [] command \in {"get", "gets", "gat", "gats"} -> <<"VALUE", "END">>
      [] command = "mg" -> IF response = "hit" THEN <<"VA">> ELSE <<"EN">>
      [] command = "mn" -> <<"MN">>
      [] command = "version" -> <<"VERSION">>
      [] command = "stats" -> <<"STAT", "END">>
      [] command = "touch" -> <<"TOUCHED">>

\* serialize_binary_response.  The packets of the single statistics are one here.
BinaryReply(command, response) ==
    CASE response = "error" -> <<Packet("NOOP", "unknown")>>
      [] response = "hit" -> <<Packet("GET", "success")>>
      [] response = "miss" -> <<Packet("GET", "not found")>>
      [] command = "version" -> <<Packet("VERSION", "success")>>
      [] command = "stats" ->
            <<Packet("STAT", "success"), Packet("STAT", "success")>>
      [] command = "touch" -> <<Packet("NOOP", "success")>>

Text(lines) == [text |-> lines, packets |-> <<>>]
Binary(packets) == [text |-> <<>>, packets |-> packets]

Serialize(r, response) ==
    IF IsLine(r) THEN Text(TextReply(Command(r), response))
    ELSE Binary(BinaryReply(Command(r), response))

ParseError == Text(<<"ERROR">>)

Write(i, body) == replies' = Append(replies, [to |-> i, body |-> body])

-----------------------------------------------------------------------------
(* handle_connection.                                                      *)

Reading == pc = "read" /\ have > 0 /\ consumed < Len(sent)

\* What is not whole is all that there is.
Taking == IF Whole THEN Size(Current) ELSE have

\* Faulty variant: a request cut at the end counts as if it were whole.
ConsumeWhole ==
    /\ consumed' = consumed + 1
    /\ inFlight' = inFlight - Size(Current)
    /\ have' = have - Size(Current)

Consume ==
    /\ consumed' = consumed + 1
    /\ inFlight' = inFlight - Taking
    /\ have' = have - Taking

\* Faulty variant: a packet too is read on until it is whole.
FillMore ==
    /\ pc = "read"
    /\ have > 0 => ~Whole
    /\ have' \in (have + 1) .. inFlight
    /\ UNCHANGED <<sent, finished, consumed, inFlight, pc, replies>>

\* Faulty variant: a line too is taken from what is in the buffer.
FillEmpty ==
    /\ pc = "read"
    /\ have = 0
    /\ have' \in (have + 1) .. inFlight
    /\ UNCHANGED <<sent, finished, consumed, inFlight, pc, replies>>

\* fill_buf reads only when the buffer is empty; read_line fills it until
\* the newline is there.
Fill ==
    /\ pc = "read"
    /\ have > 0 => IsLine(Current) /\ ~Whole
    /\ have' \in (have + 1) .. inFlight
    /\ UNCHANGED <<sent, finished, consumed, inFlight, pc, replies>>

\* parse_binary gives a command: its bytes are consumed.
RecvPacket ==
    /\ Reading /\ IsPacket(Current)
    /\ Whole /\ AcceptsPacket(Current)
    /\ Consume
    /\ pc' = "serve"
    /\ UNCHANGED <<sent, finished, replies>>

\* The header of a request is there, and its two lengths are more than its
\* total: the subtraction panics, or wraps to a length that no vec! can have.
\* The task is gone, and its connection with it.  A packet that says it is a
\* response is refused before that.
Overdrawn == have >= 2 /\ Current.magic = "request" /\ Current.value < 0

Panic ==
    /\ Reading /\ IsPacket(Current)
    /\ Overdrawn
    /\ pc' = "closed"
    /\ UNCHANGED <<sent, finished, consumed, inFlight, have, replies>>

\* Faulty variant: a refused packet is consumed, if it is all there.
RefusePacketSkips ==
    /\ Reading /\ IsPacket(Current)
    /\ ~Overdrawn
    /\ ~(Whole /\ AcceptsPacket(Current))
    /\ Len(replies) < MaxReplies
    /\ Write(consumed + 1, ParseError)
    /\ IF Whole THEN Consume ELSE UNCHANGED <<consumed, inFlight, have>>
    /\ UNCHANGED <<sent, finished, pc>>

\* It gives an error, also for a packet that is not all there: nothing is
\* consumed, and the error is written as text.
RefusePacket ==
    /\ Reading /\ IsPacket(Current)
    /\ ~Overdrawn
    /\ ~(Whole /\ AcceptsPacket(Current))
    /\ Len(replies) < MaxReplies
    /\ Write(consumed + 1, ParseError)
    /\ UNCHANGED <<sent, finished, consumed, inFlight, have, pc>>

\* read_line returns a line, or what there is of it at the end of the stream.
LineRead ==
    /\ Reading /\ IsLine(Current)
    /\ Whole \/ (finished /\ have = inFlight)

Words == IF Whole THEN Current.words ELSE SubSeq(Current.words, 1, have)

\* A cut may also fall inside a word, which may then not be accepted.
RefuseLine ==
    /\ LineRead
    /\ Words # <<>>
    /\ AcceptsLine(Words) => ~Whole
    /\ Len(replies) < MaxReplies
    /\ Write(consumed + 1, ParseError)
    /\ Consume
    /\ UNCHANGED <<sent, finished, pc>>

\* A blank line is NoCommand, which gets no reply.
SkipLine ==
    /\ LineRead
    /\ Words = <<>>
    /\ Consume
    /\ UNCHANGED <<sent, finished, pc, replies>>

RecvLine ==
    /\ LineRead
    /\ Words # <<>> /\ AcceptsLine(Words)
    /\ Consume
    /\ pc' = "serve"
    /\ UNCHANGED <<sent, finished, replies>>

\* quit is not answered.
Quit ==
    /\ pc = "serve"
    /\ Command(sent[consumed]) = "quit"
    /\ pc' = "closed"
    /\ UNCHANGED <<sent, finished, consumed, inFlight, have, replies>>

Answer ==
    /\ pc = "serve"
    /\ Len(replies) < MaxReplies
    /\ LET r == sent[consumed] IN
         /\ Command(r) # "quit"
         /\ \E response \in Responses(Command(r)) :
               Write(consumed, Serialize(r, response))
    /\ pc' = "read"
    /\ UNCHANGED <<sent, finished, consumed, inFlight, have>>

\* notify_shutdown, while the task waits in recv_command.
Leave ==
    /\ pc = "read"
    /\ pc' = "closed"
    /\ UNCHANGED <<sent, finished, consumed, inFlight, have, replies>>

-----------------------------------------------------------------------------
Handle ==
    \/ Fill
    \/ RecvPacket \/ RefusePacket \/ Panic
    \/ RecvLine \/ RefuseLine \/ SkipLine
    \/ Quit \/ Answer

Next == (\E r \in Requests : Send(r)) \/ Finish \/ Handle \/ Leave

Spec == Init /\ [][Next]_wireVars

\* What was sent arrives, and the service answers (see Service).
FairSpec == Spec /\ WF_wireVars(Handle)

-----------------------------------------------------------------------------
(* The connection as a conversation: the request that is being served is   *)
(* not settled yet.                                                        *)

\* A line may be taken for what had arrived of it when the stream ended.
Taken(r) ==
    IF IsLine(r)
    THEN \E n \in 1 .. Len(r.words) : AcceptsLine(SubSeq(r.words, 1, n))
    ELSE AcceptsPacket(r)

Ends(r) == Taken(r) /\ Command(r) = "quit"

Bodies == [r \in Requests |->
    {body \in {ParseError} : IsLine(r) /\ r.words # <<>>}
    \cup (IF Taken(r) /\ ~Ends(r)
          THEN {Serialize(r, response) : response \in Responses(Command(r))}
          ELSE {})]

Settled == IF pc = "serve" THEN consumed - 1 ELSE consumed

Refused == \E j \in 1 .. Len(replies) : replies[j].to > consumed

C == INSTANCE Conversation
     WITH Nothing <- {r \in Requests : IsLine(r) /\ r.words = <<>>},
          Goodbyes <- {r \in Requests : Ends(r)},
          Refusable <- {r \in Requests : IsPacket(r)},
          Refusal <- ParseError,
          settled <- Settled,
          refused <- Refused,
          open <- pc # "closed"

(* Requests of any protocol, however they are cut, are settled in order,   *)
(* with one reply each of those that they may have, up to the first packet *)
(* that is refused (recv_command and handle_connection).                   *)
ConversationKept == C!Spec

\* Consumed, and neither a blank line nor quit nor still being served.
Answered(i) ==
    /\ i <= consumed
    /\ IsLine(sent[i]) => sent[i].words # <<>>
    /\ i = consumed => pc = "read"

(* However the stream is cut, replies come in the order of the requests,   *)
(* and every request taken from the stream has exactly one (recv_command   *)
(* and handle_connection).                                                 *)
OneReplyEach ==
    /\ \A i, j \in 1 .. Len(replies) : i < j => replies[i].to <= replies[j].to
    /\ \A i, j \in 1 .. Len(replies) :
          (i < j /\ replies[i].to <= consumed) => replies[i].to # replies[j].to
    /\ \A i \in 1 .. Len(sent) : (pc # "closed" /\ Answered(i)) =>
          \E j \in 1 .. Len(replies) : replies[j].to = i

(* A packet refused once, also one that had only not arrived whole, is     *)
(* refused for ever, and nothing sent behind it is answered (recv_command  *)
(* consumes nothing and reads nothing more).                               *)
RefusedPacketBlocks ==
    \A i \in 1 .. Len(replies) :
        (IsPacket(sent[replies[i].to]) /\ replies[i].body = ParseError) =>
            \A j \in i .. Len(replies) : replies[j] = replies[i]

(* A client of the text and meta protocols gets through: every line it has *)
(* sent is dealt with, in however many pieces it arrives.                  *)
LinesGetThrough ==
    [](\A i \in 1 .. Len(sent) : IsLine(sent[i])) =>
        \A i \in 1 .. MaxSent :
            (Len(sent) >= i) ~> (consumed >= i \/ pc = "closed")
=============================================================================
