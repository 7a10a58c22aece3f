------------------------------ MODULE WireProofs ------------------------------
(***************************************************************************)
(* A connection is a Conversation, for streams of any requests, cut        *)
(* anywhere: one reply each, in order, up to a packet that is refused.     *)
(***************************************************************************)
EXTENDS Wire, SequenceTheorems, TLAPS

AnyBody == {ParseError} \cup UNION {Bodies[r] : r \in Requests}

(* What the stream and the loop look like.  That the buffer holds no more  *)
(* than was written is not needed for the replies: see BufferOK.           *)
StreamOK ==
    /\ sent \in Seq(Requests)
    /\ consumed \in 0 .. Len(sent)
    /\ have \in Nat
    /\ pc \in {"read", "serve", "closed"}
    /\ pc = "serve" => consumed > 0 /\ Taken(sent[consumed])
    /\ replies \in Seq([to : Nat, body : AnyBody])

(* The loop is stuck at a packet that it has refused and that it neither   *)
(* consumes nor reads more of.                                             *)
StuckAtPacket ==
    Refused => /\ pc # "serve"
               /\ have > 0 /\ consumed < Len(sent)
               /\ IsPacket(Current)
               /\ ~Overdrawn
               /\ ~(Whole /\ AcceptsPacket(Current))

(* Replies so far: to settled requests, or the refusals of the next.       *)
RepliesOK ==
    \A j \in 1 .. Len(replies) :
        /\ replies[j].to \in 1 .. Len(sent)
        /\ \/ replies[j].to <= Settled
           \/ replies[j].to = consumed + 1 /\ replies[j].body = ParseError
        /\ (IsPacket(sent[replies[j].to]) /\ replies[j].body = ParseError) =>
               replies[j].to = consumed + 1

InOrder ==
    \A i, j \in 1 .. Len(replies) : i < j =>
        /\ replies[i].to <= replies[j].to
        /\ replies[i].to <= consumed => replies[i].to # replies[j].to

NoneForgotten ==
    pc # "closed" =>
        \A i \in 1 .. Settled :
            (IsLine(sent[i]) => sent[i].words # <<>>) =>
                \E j \in 1 .. Len(replies) : replies[j].to = i

Inv == StreamOK /\ StuckAtPacket /\ RepliesOK /\ InOrder /\ NoneForgotten

-----------------------------------------------------------------------------
LEMMA Kinds ==
    ASSUME NEW r \in Requests
    PROVE  IsLine(r) <=> ~IsPacket(r)
BY WireAssumption DEF IsLine, IsPacket

LEMMA Sizes ==
    ASSUME NEW r \in Requests
    PROVE  Size(r) \in Nat /\ (IsLine(r) => Size(r) = Len(r.words) + 1)
<1>1. CASE IsLine(r)
  <2>1. r.words \in Seq(STRING)
    BY <1>1, WireAssumption, Kinds
  <2>2. Len(r.words) \in Nat
    BY <2>1, LenProperties
  <2> QED BY <1>1, <2>2 DEF Size
<1>2. CASE ~IsLine(r)
  BY <1>2 DEF Size
<1> QED BY <1>1, <1>2

(* A line that is taken as it came is one that may be taken.               *)
LEMMA WordsOf ==
    ASSUME StreamOK, consumed < Len(sent), IsLine(Current), have > 0
    PROVE  /\ Words = <<>> <=> Current.words = <<>>
           /\ Words # <<>> /\ AcceptsLine(Words) => Taken(Current)
<1> DEFINE w == Current.words
<1>1. Current \in Requests
  BY DEF StreamOK, Current
<1>2. w \in Seq(STRING) /\ Size(Current) = Len(w) + 1 /\ Len(w) \in Nat
  BY <1>1, Sizes, WireAssumption, Kinds, LenProperties
<1>3. CASE Whole
  <2>1. Words = w
    BY <1>3 DEF Words
  <2>2. w # <<>> => Len(w) \in 1 .. Len(w) /\ SubSeq(w, 1, Len(w)) = w
    BY <1>2, EmptySeq, LenProperties, SubSeqProperties
  <2> QED BY <2>1, <2>2 DEF Taken
<1>4. CASE ~Whole
  <2>1. have \in 1 .. Len(w)
    BY <1>2, <1>4 DEF Whole, StreamOK
  <2>2. Words = SubSeq(w, 1, have)
    BY <1>4 DEF Words
  <2>3. Len(Words) = have /\ Len(w) > 0
    BY <1>2, <2>1, <2>2, SubSeqProperties
  <2>4. Words # <<>> /\ w # <<>>
    BY <2>1, <2>3, EmptySeq
  <2> QED BY <2>1, <2>2, <2>4 DEF Taken
<1> QED BY <1>3, <1>4

(* What a request may be answered with.                                    *)
LEMMA Answers ==
    ASSUME NEW r \in Requests
    PROVE  /\ Bodies[r] \subseteq AnyBody
           /\ IsLine(r) /\ r.words # <<>> => ParseError \in Bodies[r]
           /\ Taken(r) /\ Command(r) # "quit" =>
                 \A response \in Responses(Command(r)) :
                     Serialize(r, response) \in Bodies[r]
BY DEF Bodies, AnyBody, Ends

(* The body of a packet's reply is not the text of a parse error.          *)
LEMMA NotAnError ==
    ASSUME NEW r, IsPacket(r), NEW response
    PROVE  Serialize(r, response) # ParseError
<1>1. ~IsLine(r)
  BY DEF IsPacket, IsLine
<1>2. ASSUME NEW packets PROVE Binary(packets) # ParseError
  <2>1. Binary(packets).text = <<>> /\ ParseError.text = <<"ERROR">>
    BY DEF Binary, ParseError, Text
  <2>2. <<>> # <<"ERROR">>
    OBVIOUS
  <2> QED BY <2>1, <2>2
<1> QED BY <1>1, <1>2 DEF Serialize

(* The replies after one more.                                             *)
LEMMA Written ==
    ASSUME StreamOK, NEW i \in Nat, NEW body \in AnyBody, Write(i, body)
    PROVE  LET n == Len(replies) IN
           /\ n \in Nat /\ Len(replies') = n + 1
           /\ replies' \in Seq([to : Nat, body : AnyBody])
           /\ \A j \in 1 .. n : replies'[j] = replies[j]
           /\ replies'[n + 1].to = i /\ replies'[n + 1].body = body
           /\ \A j \in 1 .. Len(replies') : j \in 1 .. n \/ j = n + 1
<1> DEFINE reply == [to |-> i, body |-> body]
<1>1. replies \in Seq([to : Nat, body : AnyBody]) /\ reply \in [to : Nat, body : AnyBody]
  BY DEF StreamOK
<1>2. replies' = Append(replies, reply)
  BY DEF Write
<1>3. reply.to = i /\ reply.body = body
  OBVIOUS
<1> HIDE DEF reply
<1>4. /\ Len(replies) \in Nat /\ Len(replies') = Len(replies) + 1
      /\ replies' \in Seq([to : Nat, body : AnyBody])
      /\ \A j \in 1 .. Len(replies) : replies'[j] = replies[j]
      /\ replies'[Len(replies) + 1] = reply
  BY <1>1, <1>2, AppendProperties, LenProperties
<1> QED BY <1>3, <1>4

LEMMA Counts ==
    ASSUME StreamOK
    PROVE  /\ Len(sent) \in Nat /\ consumed \in Nat /\ consumed <= Len(sent)
           /\ Settled \in Nat /\ Settled <= consumed
           /\ pc = "serve" => consumed = Settled + 1
           /\ pc # "serve" => consumed = Settled
           /\ Len(replies) \in Nat
BY LenProperties DEF StreamOK, Settled

LEMMA Unrefused ==
    ASSUME StreamOK, RepliesOK, ~Refused
    PROVE  \A j \in 1 .. Len(replies) :
              /\ replies[j].to \in 1 .. Len(sent) /\ replies[j].to <= Settled
              /\ ~(IsPacket(sent[replies[j].to]) /\ replies[j].body = ParseError)
BY Counts DEF RepliesOK, Refused

-----------------------------------------------------------------------------
(* Steps of the invariant, by what they do.                                *)

(* Nothing is taken from the stream and nothing written.                   *)
LEMMA Waits ==
    ASSUME Inv, consumed' = consumed, replies' = replies, StreamOK',
           pc' = pc \/ (pc = "read" /\ pc' = "closed"),
           Len(sent') >= Len(sent),
           \A i \in 1 .. Len(sent) : sent'[i] = sent[i],
           Refused => have' = have
    PROVE  Inv' /\ Settled' = Settled /\ Refused' = Refused
<1>1. Settled' = Settled /\ Refused' = Refused
  BY DEF Settled, Refused
<1>2. Len(sent') \in Nat /\ Len(sent) \in Nat /\ 1 .. Len(sent) \subseteq 1 .. Len(sent')
  BY LenProperties DEF Inv, StreamOK
<1>3. StuckAtPacket'
  <2> SUFFICES ASSUME Refused' PROVE StuckAtPacket'
    BY DEF StuckAtPacket
  <2>1. consumed < Len(sent) /\ have' = have /\ pc' # "serve"
    BY <1>1 DEF Inv, StuckAtPacket
  <2>2. Current' = Current /\ consumed' < Len(sent')
    BY <1>2, <2>1 DEF Current, Inv, StreamOK
  <2> QED
    BY <1>1, <2>1, <2>2 DEF Inv, StuckAtPacket, Overdrawn, Whole
<1>4. RepliesOK'
  BY <1>1, <1>2 DEF Inv, RepliesOK
<1>5. InOrder'
  BY DEF Inv, InOrder
<1>6. NoneForgotten'
  <2>1. \A i \in 1 .. Settled : i \in 1 .. Len(sent)
    BY Counts DEF Inv
  <2> QED BY <1>1, <2>1 DEF Inv, NoneForgotten
<1> QED BY <1>1, <1>3, <1>4, <1>5, <1>6 DEF Inv

(* A request is taken, to be served.                                       *)
LEMMA Takes ==
    ASSUME Inv, ~Refused, pc = "read", pc' = "serve", consumed < Len(sent),
           consumed' = consumed + 1, UNCHANGED <<sent, replies>>, StreamOK'
    PROVE  Inv' /\ Settled' = Settled /\ ~Refused'
<1>1. Settled = consumed /\ Settled' = consumed /\ consumed \in Nat
  BY Counts DEF Inv, Settled
<1>2. \A j \in 1 .. Len(replies) :
          /\ replies[j].to \in 1 .. Len(sent) /\ replies[j].to <= Settled
          /\ ~(IsPacket(sent[replies[j].to]) /\ replies[j].body = ParseError)
  BY Unrefused DEF Inv
<1>3. ~Refused'
  BY <1>1, <1>2 DEF Refused
<1>4. RepliesOK'
  BY <1>1, <1>2 DEF RepliesOK
<1>5. InOrder'
  BY <1>1, <1>2 DEF Inv, InOrder
<1>6. NoneForgotten'
  BY <1>1 DEF Inv, NoneForgotten
<1> QED BY <1>1, <1>3, <1>4, <1>5, <1>6 DEF Inv, StuckAtPacket

(* A blank line is taken.                                                  *)
LEMMA Skips ==
    ASSUME Inv, ~Refused, pc = "read", pc' = "read", consumed < Len(sent),
           IsLine(Current), Current.words = <<>>,
           consumed' = consumed + 1, UNCHANGED <<sent, replies>>, StreamOK'
    PROVE  Inv' /\ Settled' = Settled + 1 /\ ~Refused'
<1>1. Settled = consumed /\ Settled' = consumed + 1 /\ consumed \in Nat
  BY Counts DEF Inv, Settled
<1>2. \A j \in 1 .. Len(replies) :
          /\ replies[j].to \in 1 .. Len(sent) /\ replies[j].to <= Settled
          /\ ~(IsPacket(sent[replies[j].to]) /\ replies[j].body = ParseError)
  BY Unrefused DEF Inv
<1>3. ~Refused'
  BY <1>1, <1>2 DEF Refused
<1>4. RepliesOK'
  BY <1>1, <1>2 DEF RepliesOK
<1>5. InOrder'
  BY <1>1, <1>2 DEF Inv, InOrder
<1>6. NoneForgotten'
  <2> SUFFICES ASSUME NEW i \in 1 .. consumed + 1,
                      IsLine(sent[i]) => sent[i].words # <<>>
               PROVE  \E j \in 1 .. Len(replies) : replies[j].to = i
    BY <1>1 DEF NoneForgotten
  <2>1. i # consumed + 1
    BY DEF Current
  <2> QED BY <1>1, <2>1 DEF Inv, NoneForgotten
<1> QED BY <1>1, <1>3, <1>4, <1>5, <1>6 DEF Inv, StuckAtPacket

(* A request is settled by a reply.                                        *)
LEMMA Gives ==
    ASSUME Inv, ~Refused, pc # "closed", pc' = "read", Settled < Len(sent),
           consumed' = Settled + 1, sent' = sent, StreamOK',
           NEW body \in AnyBody, Write(Settled + 1, body),
           ~(IsPacket(sent[Settled + 1]) /\ body = ParseError)
    PROVE  Inv' /\ Settled' = Settled + 1 /\ ~Refused'
<1> DEFINE n == Len(replies)
<1>1. /\ Settled' = Settled + 1 /\ Settled \in Nat /\ Len(sent) \in Nat
      /\ consumed \in Nat /\ Settled <= consumed /\ consumed <= Settled + 1
  BY Counts DEF Inv, Settled
<1>2. \A j \in 1 .. n :
          /\ replies[j].to \in 1 .. Len(sent) /\ replies[j].to <= Settled
          /\ ~(IsPacket(sent[replies[j].to]) /\ replies[j].body = ParseError)
  BY Unrefused DEF Inv
<1>3. /\ n \in Nat /\ Len(replies') = n + 1
      /\ \A j \in 1 .. n : replies'[j] = replies[j]
      /\ replies'[n + 1].to = Settled + 1 /\ replies'[n + 1].body = body
      /\ \A j \in 1 .. Len(replies') : j \in 1 .. n \/ j = n + 1
  <2>1. Settled + 1 \in Nat /\ StreamOK
    BY <1>1 DEF Inv
  <2> QED BY <2>1, Written
<1> HIDE DEF n
<1>4. \A j \in 1 .. Len(replies') :
          /\ replies'[j].to \in 1 .. Len(sent) /\ replies'[j].to <= Settled + 1
          /\ ~(IsPacket(sent[replies'[j].to]) /\ replies'[j].body = ParseError)
  BY <1>1, <1>2, <1>3
<1>5. ~Refused'
  BY <1>1, <1>4 DEF Refused
<1>6. RepliesOK'
  BY <1>1, <1>4 DEF RepliesOK
<1>7. InOrder'
  <2> SUFFICES ASSUME NEW i \in 1 .. Len(replies'), NEW j \in 1 .. Len(replies'), i < j
               PROVE  /\ replies'[i].to <= replies'[j].to
                      /\ replies'[i].to # replies'[j].to
    BY DEF InOrder
  <2>1. i \in 1 .. n
    BY <1>3
  <2>2. CASE j \in 1 .. n
    <3>1. replies[i].to <= consumed
      BY <1>1, <1>2, <2>1
    <3> QED BY <1>3, <2>1, <2>2, <3>1 DEF Inv, InOrder, n
  <2>3. CASE j = n + 1
    BY <1>1, <1>2, <1>3, <2>1, <2>3
  <2> QED BY <1>3, <2>2, <2>3
<1>8. NoneForgotten'
  <2> SUFFICES ASSUME NEW i \in 1 .. Settled + 1,
                      IsLine(sent[i]) => sent[i].words # <<>>
               PROVE  \E j \in 1 .. Len(replies') : replies'[j].to = i
    BY <1>1 DEF NoneForgotten
  <2>1. CASE i = Settled + 1
    BY <1>3, <2>1
  <2>2. CASE i \in 1 .. Settled
    <3>1. PICK j \in 1 .. n : replies[j].to = i
      BY <2>2 DEF Inv, NoneForgotten, n
    <3> QED BY <1>3, <3>1
  <2> QED BY <1>1, <2>1, <2>2
<1> QED BY <1>1, <1>5, <1>6, <1>7, <1>8 DEF Inv, StuckAtPacket

(* A packet is refused.                                                    *)
LEMMA Refuses ==
    ASSUME Inv, RefusePacket
    PROVE  /\ Inv' /\ Settled' = Settled /\ Refused'
           /\ pc # "closed" /\ Settled = consumed /\ consumed < Len(sent)
<1> DEFINE n == Len(replies)
<1>1. /\ pc = "read" /\ have > 0 /\ consumed < Len(sent) /\ IsPacket(Current)
      /\ ~Overdrawn /\ ~(Whole /\ AcceptsPacket(Current))
      /\ Write(consumed + 1, ParseError)
      /\ UNCHANGED <<sent, finished, consumed, have, pc>>
  BY DEF RefusePacket, Reading
<1>2. /\ Settled = consumed /\ Settled' = consumed /\ consumed \in Nat
      /\ Len(sent) \in Nat
  BY <1>1, Counts DEF Inv, Settled
<1>3. /\ n \in Nat /\ Len(replies') = n + 1
      /\ replies' \in Seq([to : Nat, body : AnyBody])
      /\ \A j \in 1 .. n : replies'[j] = replies[j]
      /\ replies'[n + 1].to = consumed + 1 /\ replies'[n + 1].body = ParseError
      /\ \A j \in 1 .. Len(replies') : j \in 1 .. n \/ j = n + 1
  <2>1. consumed + 1 \in Nat /\ StreamOK /\ ParseError \in AnyBody
    BY <1>2 DEF Inv, AnyBody
  <2>2. Write(consumed + 1, ParseError)
    BY <1>1
  <2> QED BY <2>1, <2>2, Written
<1> HIDE DEF n
<1>4. \A j \in 1 .. n :
          /\ replies[j].to \in 1 .. Len(sent) /\ replies[j].to <= consumed + 1
  BY <1>2 DEF Inv, RepliesOK, n
<1>5. Refused'
  <2>1. n + 1 \in 1 .. Len(replies') /\ replies'[n + 1].to > consumed'
    BY <1>1, <1>2, <1>3
  <2> QED BY <2>1 DEF Refused
<1>6. StuckAtPacket'
  BY <1>1, <1>5 DEF StuckAtPacket, Current, Overdrawn, Whole
<1>7. StreamOK'
  BY <1>1, <1>3 DEF Inv, StreamOK
<1>8. RepliesOK'
  <2> SUFFICES ASSUME NEW j \in 1 .. Len(replies')
               PROVE  /\ replies'[j].to \in 1 .. Len(sent)
                      /\ \/ replies'[j].to <= consumed
                         \/ replies'[j].to = consumed + 1 /\ replies'[j].body = ParseError
                      /\ (IsPacket(sent[replies'[j].to]) /\ replies'[j].body = ParseError) =>
                             replies'[j].to = consumed + 1
    BY <1>1, <1>2 DEF RepliesOK
  <2>1. CASE j \in 1 .. n
    BY <1>2, <1>3, <2>1 DEF Inv, RepliesOK, n
  <2>2. CASE j = n + 1
    BY <1>1, <1>2, <1>3, <2>2
  <2> QED BY <1>3, <2>1, <2>2
<1>9. InOrder'
  <2> SUFFICES ASSUME NEW i \in 1 .. Len(replies'), NEW j \in 1 .. Len(replies'), i < j
               PROVE  /\ replies'[i].to <= replies'[j].to
                      /\ replies'[i].to <= consumed => replies'[i].to # replies'[j].to
    BY <1>1 DEF InOrder
  <2>1. i \in 1 .. n
    BY <1>3
  <2>2. CASE j \in 1 .. n
    BY <1>3, <2>1, <2>2 DEF Inv, InOrder, n
  <2>3. CASE j = n + 1
    BY <1>2, <1>3, <1>4, <2>1, <2>3
  <2> QED BY <1>3, <2>2, <2>3
<1>10. NoneForgotten'
  <2> SUFFICES ASSUME NEW i \in 1 .. Settled,
                      IsLine(sent[i]) => sent[i].words # <<>>
               PROVE  \E j \in 1 .. Len(replies') : replies'[j].to = i
    BY <1>1, <1>2 DEF NoneForgotten
  <2>1. PICK j \in 1 .. n : replies[j].to = i
    BY <1>1 DEF Inv, NoneForgotten, n
  <2> QED BY <1>3, <2>1
<1> QED BY <1>1, <1>2, <1>5, <1>6, <1>7, <1>8, <1>9, <1>10 DEF Inv

(* The connection ends after quit.                                         *)
LEMMA Quits ==
    ASSUME Inv, pc = "serve", pc' = "closed", UNCHANGED <<sent, consumed, have, replies>>
    PROVE  Inv' /\ ~Refused /\ Settled' = Settled + 1 /\ ~Refused'
<1>1. Settled = consumed - 1 /\ Settled' = consumed /\ consumed \in Nat
  BY Counts DEF Inv, Settled
<1>2. ~Refused /\ ~Refused'
  BY DEF Inv, StuckAtPacket, Refused
<1>3. \A j \in 1 .. Len(replies) :
          /\ replies[j].to \in 1 .. Len(sent) /\ replies[j].to <= Settled
          /\ ~(IsPacket(sent[replies[j].to]) /\ replies[j].body = ParseError)
  BY <1>2, Unrefused DEF Inv
<1>4. RepliesOK'
  BY <1>1, <1>3 DEF RepliesOK
<1>5. InOrder'
  BY DEF Inv, InOrder
<1>6. StreamOK' /\ StuckAtPacket' /\ NoneForgotten'
  BY <1>2 DEF Inv, StreamOK, StuckAtPacket, NoneForgotten
<1> QED BY <1>1, <1>2, <1>4, <1>5, <1>6 DEF Inv

-----------------------------------------------------------------------------
(* Each step of a connection is one of the conversation, or none.          *)

Same == UNCHANGED <<sent, Settled, replies>>
        /\ (Refused' <=> Refused) /\ (pc' # "closed" <=> pc # "closed")

LEMMA Stutters == Same => UNCHANGED C!talkVars
<1> SUFFICES ASSUME Same PROVE UNCHANGED C!talkVars
  OBVIOUS
<1>1. Refused' = Refused
  BY DEF Same, Refused
<1>2. (pc # "closed")' = (pc # "closed")
  BY DEF Same
<1> QED BY <1>1, <1>2 DEF Same, C!talkVars

LEMMA Asks ==
    ASSUME NEW r \in Requests, sent' = Append(sent, r),
           UNCHANGED <<consumed, pc, replies>>
    PROVE  C!Ask
<1>1. Settled' = Settled /\ Refused' = Refused
  BY DEF Settled, Refused
<1> QED BY <1>1 DEF C!Ask

Ready == pc # "closed" /\ ~Refused /\ Settled < Len(sent)
Done == UNCHANGED sent /\ Settled' = Settled + 1 /\ ~Refused'

LEMMA Replies ==
    ASSUME Ready, Done, pc' # "closed",
           NEW body \in Bodies[sent[Settled + 1]], Write(Settled + 1, body)
    PROVE  C!Reply
<1>1. Refused' = Refused /\ (pc # "closed")' = (pc # "closed")
  BY DEF Ready, Done, Refused
<1> QED BY <1>1 DEF Ready, Done, Write, C!Reply, C!Ready, C!First, C!Give

LEMMA Ignores ==
    ASSUME Ready, Done, pc' # "closed", replies' = replies,
           sent[Settled + 1] \in Requests,
           IsLine(sent[Settled + 1]), sent[Settled + 1].words = <<>>
    PROVE  C!Ignore
<1>1. Refused' = Refused /\ (pc # "closed")' = (pc # "closed")
  BY DEF Ready, Done, Refused
<1> QED BY <1>1 DEF Ready, Done, C!Ignore, C!Ready, C!First

LEMMA Parts ==
    ASSUME Ready, Done, pc' = "closed", replies' = replies,
           sent[Settled + 1] \in Requests, Ends(sent[Settled + 1])
    PROVE  C!Part
<1>1. Refused' = Refused
  BY DEF Ready, Done, Refused
<1> QED BY <1>1 DEF Ready, Done, C!Part, C!Ready, C!First

LEMMA RefusesNext ==
    ASSUME pc # "closed", pc' # "closed", Settled < Len(sent), Refused',
           UNCHANGED <<sent, Settled>>, Write(Settled + 1, ParseError),
           sent[Settled + 1] \in Requests, IsPacket(sent[Settled + 1])
    PROVE  C!Refuse
<1>1. (pc # "closed")' = (pc # "closed") /\ Refused' = TRUE
  BY DEF Refused
<1> QED BY <1>1 DEF Write, C!Refuse, C!First, C!Give

LEMMA HangsUp ==
    ASSUME pc # "closed", pc' = "closed", UNCHANGED <<sent, Settled, replies>>,
           Refused' <=> Refused
    PROVE  C!HangUp
<1>1. Refused' = Refused
  BY DEF Refused
<1> QED BY <1>1 DEF C!HangUp

-----------------------------------------------------------------------------
(* Each action keeps the invariant and is a step of the conversation.      *)

Kept == Inv' /\ [C!Next]_(C!talkVars)

(* Where a refused packet leaves the loop.                                 *)
LEMMA Stuck ==
    ASSUME Inv, Refused
    PROVE  /\ pc # "serve" /\ have > 0
           /\ IsPacket(Current) /\ ~IsLine(Current)
           /\ ~(Whole /\ AcceptsPacket(Current))
BY DEF Inv, StuckAtPacket, IsPacket, IsLine

(* The request that the loop is at.                                        *)
LEMMA AtHand ==
    ASSUME Inv, pc = "read", consumed < Len(sent)
    PROVE  /\ Settled = consumed /\ Current = sent[Settled + 1]
           /\ Current \in Requests
           /\ Settled < Len(sent)
<1>1. Settled = consumed /\ consumed \in Nat /\ Len(sent) \in Nat
  BY Counts DEF Inv
<1>2. consumed + 1 \in 1 .. Len(sent) /\ sent \in Seq(Requests)
  BY <1>1 DEF Inv, StreamOK
<1>3. Current \in Requests
  BY <1>2, ElementOfSeq DEF Current
<1> QED BY <1>1, <1>3 DEF Current

(* What is consumed was there.                                             *)
LEMMA Consumes ==
    ASSUME Inv, pc = "read", consumed < Len(sent), Consume
    PROVE  consumed' = consumed + 1 /\ consumed + 1 \in 0 .. Len(sent) /\ have' \in Nat
<1>1. Size(Current) \in Nat
  BY AtHand, Sizes
<1>2. have \in Nat /\ consumed \in Nat /\ Len(sent) \in Nat
  BY Counts DEF Inv, StreamOK
<1> QED BY <1>1, <1>2 DEF Consume, Taking, Whole

LEMMA SendKept == ASSUME Inv, NEW r \in Requests, Send(r) PROVE Kept
<1>1. /\ sent' = Append(sent, r) /\ UNCHANGED <<consumed, have, pc, replies>>
      /\ sent \in Seq(Requests)
  BY DEF Send, Inv, StreamOK
<1>2. /\ sent' \in Seq(Requests) /\ Len(sent') = Len(sent) + 1 /\ Len(sent) \in Nat
      /\ \A i \in 1 .. Len(sent) : sent'[i] = sent[i]
  BY <1>1, AppendProperties, LenProperties
<1>3. StreamOK'
  BY <1>1, <1>2 DEF Inv, StreamOK
<1>4. Inv'
  BY <1>1, <1>2, <1>3, Waits
<1>5. C!Ask
  BY <1>1, Asks
<1> QED BY <1>4, <1>5 DEF Kept, C!Next

LEMMA FinishKept == ASSUME Inv, Finish PROVE Kept
<1>1. UNCHANGED <<sent, consumed, have, pc, replies>>
  BY DEF Finish
<1>2. StreamOK' /\ Len(sent') >= Len(sent)
  BY <1>1, Counts DEF Inv, StreamOK
<1>3. Inv' /\ Settled' = Settled /\ Refused' = Refused
  BY <1>1, <1>2, Waits
<1>4. UNCHANGED C!talkVars
  BY <1>1, <1>3, Stutters DEF Same
<1> QED BY <1>3, <1>4 DEF Kept

LEMMA FillKept == ASSUME Inv, Fill PROVE Kept
<1>1. /\ pc = "read" /\ (have > 0 => IsLine(Current))
      /\ have' \in (have + 1) .. inFlight
      /\ UNCHANGED <<sent, consumed, pc, replies>>
  BY DEF Fill
<1>2. ~Refused
  BY <1>1, Stuck
<1>3. have' \in Nat
  <2>1. have \in Nat
    BY DEF Inv, StreamOK
  <2> QED BY <1>1, <2>1
<1>4. StreamOK' /\ Len(sent') >= Len(sent)
  BY <1>1, <1>3, Counts DEF Inv, StreamOK
<1>5. Inv' /\ Settled' = Settled /\ Refused' = Refused
  BY <1>1, <1>2, <1>4, Waits
<1>6. UNCHANGED C!talkVars
  BY <1>1, <1>5, Stutters DEF Same
<1> QED BY <1>5, <1>6 DEF Kept

LEMMA RecvKept == ASSUME Inv, RecvPacket \/ RecvLine PROVE Kept
<1>1. /\ pc = "read" /\ pc' = "serve" /\ have > 0 /\ consumed < Len(sent)
      /\ Consume /\ UNCHANGED <<sent, replies>>
  BY DEF RecvPacket, RecvLine, LineRead, Reading
<1>2. ~Refused
  BY Stuck DEF RecvPacket, RecvLine, LineRead
<1>3. Taken(Current)
  <2>1. CASE RecvPacket
    BY <2>1 DEF RecvPacket, Taken, IsLine, IsPacket
  <2>2. CASE RecvLine
    BY <1>1, <2>2, WordsOf DEF RecvLine, LineRead, Inv
  <2> QED BY <2>1, <2>2
<1>4. consumed' = consumed + 1 /\ consumed + 1 \in 0 .. Len(sent) /\ have' \in Nat
  BY <1>1, Consumes
<1>5. StreamOK'
  BY <1>1, <1>3, <1>4, Counts DEF Inv, StreamOK, Current
<1>6. Inv' /\ Settled' = Settled /\ ~Refused'
  BY <1>1, <1>2, <1>4, <1>5, Takes
<1>7. UNCHANGED C!talkVars
  BY <1>1, <1>2, <1>6, Stutters DEF Same
<1> QED BY <1>6, <1>7 DEF Kept

LEMMA RefuseLineKept == ASSUME Inv, RefuseLine PROVE Kept
<1>1. /\ pc = "read" /\ have > 0 /\ consumed < Len(sent)
      /\ IsLine(Current) /\ Words # <<>> /\ Write(consumed + 1, ParseError)
      /\ Consume /\ UNCHANGED <<sent, pc>>
  BY DEF RefuseLine, LineRead, Reading
<1>2. ~Refused
  BY <1>1, Stuck
<1>3. Settled = consumed /\ Current = sent[Settled + 1] /\ Current \in Requests
      /\ Settled < Len(sent)
  BY <1>1, AtHand
<1>4. consumed' = consumed + 1 /\ consumed + 1 \in 0 .. Len(sent) /\ have' \in Nat
  BY <1>1, Consumes
<1>5. ParseError \in Bodies[Current] /\ ParseError \in AnyBody
  BY <1>1, <1>3, WordsOf, Answers DEF Inv
<1>6. StreamOK'
  <2>1. replies' \in Seq([to : Nat, body : AnyBody])
    <3>1. consumed + 1 \in Nat /\ StreamOK
      BY <1>4 DEF Inv
    <3> QED BY <1>1, <1>5, <3>1, Written
  <2> QED BY <1>1, <1>4, <2>1 DEF Inv, StreamOK
<1>7. ~(IsPacket(sent[Settled + 1]) /\ ParseError = ParseError)
  BY <1>1, <1>3 DEF IsLine, IsPacket
<1>8. Write(Settled + 1, ParseError) /\ consumed' = Settled + 1
  BY <1>1, <1>3, <1>4
<1>9. Inv' /\ Settled' = Settled + 1 /\ ~Refused'
  BY <1>1, <1>2, <1>3, <1>5, <1>6, <1>7, <1>8, Gives
<1>10. C!Reply
  BY <1>1, <1>2, <1>3, <1>5, <1>8, <1>9, Replies DEF Ready, Done
<1> QED BY <1>9, <1>10 DEF Kept, C!Next

LEMMA SkipLineKept == ASSUME Inv, SkipLine PROVE Kept
<1>1. /\ pc = "read" /\ pc' = "read" /\ have > 0 /\ consumed < Len(sent)
      /\ IsLine(Current) /\ Words = <<>>
      /\ Consume /\ UNCHANGED <<sent, replies>>
  BY DEF SkipLine, LineRead, Reading
<1>2. ~Refused
  BY <1>1, Stuck
<1>3. Settled = consumed /\ Current = sent[Settled + 1] /\ Current \in Requests
      /\ Settled < Len(sent)
  BY <1>1, AtHand
<1>4. consumed' = consumed + 1 /\ consumed + 1 \in 0 .. Len(sent) /\ have' \in Nat
  BY <1>1, Consumes
<1>5. Current.words = <<>>
  BY <1>1, WordsOf DEF Inv
<1>6. StreamOK'
  BY <1>1, <1>4 DEF Inv, StreamOK
<1>7. Inv' /\ Settled' = Settled + 1 /\ ~Refused'
  BY <1>1, <1>2, <1>4, <1>5, <1>6, Skips
<1>8. C!Ignore
  BY <1>1, <1>2, <1>3, <1>5, <1>7, Ignores DEF Ready, Done
<1> QED BY <1>7, <1>8 DEF Kept, C!Next

LEMMA RefusePacketKept == ASSUME Inv, RefusePacket PROVE Kept
<1>1. /\ pc = "read" /\ consumed < Len(sent) /\ IsPacket(Current)
      /\ Write(consumed + 1, ParseError) /\ UNCHANGED <<sent, pc>>
  BY DEF RefusePacket, Reading
<1>2. Settled = consumed /\ Current = sent[Settled + 1] /\ Current \in Requests
      /\ Settled < Len(sent)
  BY <1>1, AtHand
<1>3. Inv' /\ Settled' = Settled /\ Refused'
  BY Refuses
<1>4. C!Refuse
  BY <1>1, <1>2, <1>3, RefusesNext
<1> QED BY <1>3, <1>4 DEF Kept, C!Next

LEMMA AnswerKept == ASSUME Inv, Answer PROVE Kept
<1>1. /\ pc = "serve" /\ pc' = "read" /\ Command(sent[consumed]) # "quit"
      /\ UNCHANGED <<sent, consumed, have>>
  BY DEF Answer
<1>2. PICK response \in Responses(Command(sent[consumed])) :
          Write(consumed, Serialize(sent[consumed], response))
  BY DEF Answer
<1> DEFINE body == Serialize(sent[consumed], response)
<1>3. ~Refused
  BY <1>1, Stuck
<1>4. /\ consumed = Settled + 1 /\ Settled \in Nat /\ Len(sent) \in Nat
      /\ consumed <= Len(sent)
  BY <1>1, Counts DEF Inv
<1>5. sent[consumed] \in Requests /\ Taken(sent[consumed])
  <2>1. consumed \in 1 .. Len(sent) /\ sent \in Seq(Requests)
    BY <1>4 DEF Inv, StreamOK
  <2> QED BY <1>1, <2>1, ElementOfSeq DEF Inv, StreamOK
<1>6. body \in Bodies[sent[consumed]] /\ body \in AnyBody
  BY <1>1, <1>2, <1>5, Answers
<1>7. ~(IsPacket(sent[consumed]) /\ body = ParseError)
  BY NotAnError
<1> HIDE DEF body
<1>8. Write(Settled + 1, body) /\ Settled < Len(sent) /\ consumed' = Settled + 1
  BY <1>1, <1>2, <1>4 DEF body
<1>9. StreamOK'
  <2>1. replies' \in Seq([to : Nat, body : AnyBody])
    <3>1. Settled + 1 \in Nat /\ StreamOK
      BY <1>4 DEF Inv
    <3> QED BY <1>6, <1>8, <3>1, Written
  <2> QED BY <1>1, <2>1 DEF Inv, StreamOK
<1>10. Inv' /\ Settled' = Settled + 1 /\ ~Refused'
  <2>1. sent[consumed] = sent[Settled + 1]
    BY <1>4
  <2> QED BY <1>1, <1>3, <1>6, <1>7, <1>8, <1>9, <2>1, Gives
<1>11. C!Reply
  <2>1. body \in Bodies[sent[Settled + 1]]
    BY <1>4, <1>6
  <2> QED BY <1>1, <1>3, <1>8, <1>10, <2>1, Replies DEF Ready, Done
<1> QED BY <1>10, <1>11 DEF Kept, C!Next

LEMMA QuitKept == ASSUME Inv, Quit PROVE Kept
<1>1. /\ pc = "serve" /\ pc' = "closed" /\ Command(sent[consumed]) = "quit"
      /\ UNCHANGED <<sent, consumed, have, replies>>
  BY DEF Quit
<1>2. /\ consumed = Settled + 1 /\ Settled \in Nat /\ Len(sent) \in Nat
      /\ consumed <= Len(sent)
  BY <1>1, Counts DEF Inv
<1>3. sent[consumed] \in Requests /\ Ends(sent[consumed])
  <2>1. consumed \in 1 .. Len(sent) /\ sent \in Seq(Requests)
    BY <1>2 DEF Inv, StreamOK
  <2> QED BY <1>1, <2>1, ElementOfSeq DEF Inv, StreamOK, Ends
<1>4. Inv' /\ ~Refused /\ Settled' = Settled + 1 /\ ~Refused'
  BY <1>1, Quits
<1>5. C!Part
  <2>1. sent[consumed] = sent[Settled + 1] /\ Settled < Len(sent)
    BY <1>2
  <2> QED BY <1>1, <1>3, <1>4, <2>1, Parts DEF Ready, Done
<1> QED BY <1>4, <1>5 DEF Kept, C!Next

(* A panic and a shutdown end the connection where it is.                  *)
LEMMA CloseKept == ASSUME Inv, Panic \/ Leave PROVE Kept
<1>1. /\ pc = "read" /\ pc' = "closed"
      /\ UNCHANGED <<sent, consumed, have, replies>>
  BY DEF Panic, Leave, Reading
<1>2. StreamOK' /\ Len(sent') >= Len(sent)
  BY <1>1, Counts DEF Inv, StreamOK
<1>3. Inv' /\ Settled' = Settled /\ Refused' = Refused
  BY <1>1, <1>2, Waits
<1>4. C!HangUp
  BY <1>1, <1>3, HangsUp
<1> QED BY <1>3, <1>4 DEF Kept, C!Next

-----------------------------------------------------------------------------
LEMMA StutterKept == ASSUME Inv, UNCHANGED wireVars PROVE Kept
<1>1. UNCHANGED <<sent, consumed, have, pc, replies>>
  BY DEF wireVars
<1>2. StreamOK' /\ Len(sent') >= Len(sent)
  BY <1>1, Counts DEF Inv, StreamOK
<1>3. Inv' /\ Settled' = Settled /\ Refused' = Refused
  BY <1>1, <1>2, Waits
<1>4. UNCHANGED C!talkVars
  BY <1>1, <1>3, Stutters DEF Same
<1> QED BY <1>3, <1>4 DEF Kept

LEMMA EveryStep == Inv /\ [Next]_wireVars => Kept
<1> SUFFICES ASSUME Inv, [Next]_wireVars PROVE Kept
  OBVIOUS
<1>1. CASE \E r \in Requests : Send(r)
  BY <1>1, SendKept
<1>2. CASE Finish
  BY <1>2, FinishKept
<1>3. CASE Fill
  BY <1>3, FillKept
<1>4. CASE RecvPacket \/ RecvLine
  BY <1>4, RecvKept
<1>5. CASE RefusePacket
  BY <1>5, RefusePacketKept
<1>6. CASE RefuseLine
  BY <1>6, RefuseLineKept
<1>7. CASE SkipLine
  BY <1>7, SkipLineKept
<1>8. CASE Quit
  BY <1>8, QuitKept
<1>9. CASE Answer
  BY <1>9, AnswerKept
<1>10. CASE Panic \/ Leave
  BY <1>10, CloseKept
<1>11. CASE UNCHANGED wireVars
  BY <1>11, StutterKept
<1> QED BY <1>1, <1>2, <1>3, <1>4, <1>5, <1>6, <1>7, <1>8, <1>9, <1>10, <1>11
        DEF Next, Handle

LEMMA Begins == Init => Inv /\ C!Init
<1> SUFFICES ASSUME Init PROVE Inv /\ C!Init
  OBVIOUS
<1>1. sent = <<>> /\ replies = <<>> /\ consumed = 0 /\ have = 0 /\ pc = "read"
  BY DEF Init
<1>2. Len(sent) = 0 /\ Len(replies) = 0
  BY <1>1, EmptySeq
<1>3. StreamOK
  BY <1>1, <1>2, EmptySeq DEF StreamOK
<1>4. Settled = 0 /\ ~Refused
  BY <1>1, <1>2 DEF Settled, Refused
<1>5. Inv
  BY <1>2, <1>3, <1>4 DEF Inv, StuckAtPacket, RepliesOK, InOrder, NoneForgotten
<1>6. Refused = FALSE /\ (pc # "closed") = TRUE
  BY <1>1, <1>4 DEF Refused
<1> QED BY <1>1, <1>4, <1>5, <1>6 DEF C!Init

(* The stream is a conversation with every step of it.                     *)
THEOREM InvHolds == Spec => []Inv
<1>1. Inv /\ [Next]_wireVars => Inv'
  BY EveryStep DEF Kept
<1> QED BY <1>1, Begins, PTL DEF Spec

(* What is in the buffer was written, and what is taken from it was there. *)
BufferOK ==
    /\ finished \in BOOLEAN
    /\ inFlight \in Nat
    /\ have \in 0 .. inFlight

LEMMA BufferKept == Inv /\ BufferOK /\ [Next]_wireVars => BufferOK'
<1> SUFFICES ASSUME Inv, BufferOK, [Next]_wireVars PROVE BufferOK'
  OBVIOUS
<1>1. ASSUME NEW r \in Requests, Send(r) PROVE BufferOK'
  BY <1>1, Sizes DEF Send, BufferOK
<1>2. CASE Finish
  <2>1. /\ finished' = TRUE /\ have' = have
        /\ inFlight' = inFlight \/ inFlight' \in have .. inFlight
    BY <1>2 DEF Finish
  <2> QED BY <2>1 DEF BufferOK
<1>3. CASE Fill
  BY <1>3 DEF Fill, BufferOK
<1>4. CASE RecvPacket \/ RefuseLine \/ SkipLine \/ RecvLine
  <2>1. pc = "read" /\ consumed < Len(sent) /\ Consume /\ UNCHANGED finished
    BY <1>4 DEF RecvPacket, RefuseLine, SkipLine, RecvLine, LineRead, Reading
  <2>2. Size(Current) \in Nat
    BY <2>1, AtHand, Sizes
  <2>3. Taking \in 0 .. have
    BY <2>2 DEF Taking, Whole, BufferOK
  <2> QED BY <2>1, <2>3 DEF Consume, BufferOK
<1>5. CASE RefusePacket \/ Panic \/ Quit \/ Answer \/ Leave \/ UNCHANGED wireVars
  <2>1. UNCHANGED <<finished, inFlight, have>>
    BY <1>5 DEF RefusePacket, Panic, Quit, Answer, Leave, wireVars
  <2> QED BY <2>1 DEF BufferOK
<1> QED BY <1>1, <1>2, <1>3, <1>4, <1>5 DEF Next, Handle

(* No request is taken that was not sent, no piece of one that did not     *)
(* arrive, and no reply is to what was never asked (recv_command, which    *)
(* counts down what is in the buffer): for any requests.                   *)
THEOREM TypeCorrect == Spec => []TypeOK
<1>1. Init => BufferOK
  <2> SUFFICES ASSUME Init PROVE BufferOK
    OBVIOUS
  <2>1. finished \in BOOLEAN
    BY DEF Init
  <2>2. inFlight \in Nat /\ have \in 0 .. inFlight
    BY DEF Init
  <2> QED BY <2>1, <2>2 DEF BufferOK
<1>2. Inv /\ BufferOK => TypeOK
  <2> SUFFICES ASSUME Inv, BufferOK PROVE TypeOK
    OBVIOUS
  <2>1. \A j \in 1 .. Len(replies) : replies[j].to \in 1 .. Len(sent)
    BY DEF Inv, RepliesOK
  <2> QED BY <2>1 DEF Inv, StreamOK, BufferOK, TypeOK
<1> QED BY <1>1, <1>2, BufferKept, InvHolds, PTL DEF Spec

(* Requests of any protocol, cut anywhere, are settled in order with one   *)
(* reply each, up to the first packet that is refused (recv_command and    *)
(* handle_connection): for any requests and any number of them.            *)
THEOREM ConversationKeptHolds == Spec => ConversationKept
<1>1. Inv /\ [Next]_wireVars => [C!Next]_(C!talkVars)
  BY EveryStep DEF Kept
<1> QED BY <1>1, Begins, InvHolds, PTL DEF Spec, ConversationKept, C!Spec

(* One reply to each request that was taken, in their order.               *)
THEOREM OneReplyEachHolds == Spec => []OneReplyEach
<1>1. Inv => OneReplyEach
  <2> SUFFICES ASSUME Inv PROVE OneReplyEach
    OBVIOUS
  <2>1. ASSUME pc # "closed", NEW i \in 1 .. Len(sent), Answered(i)
        PROVE  \E j \in 1 .. Len(replies) : replies[j].to = i
    <3>1. i \in 1 .. Settled /\ (IsLine(sent[i]) => sent[i].words # <<>>)
      BY <2>1, Counts DEF Inv, Answered
    <3> QED BY <2>1, <3>1 DEF Inv, NoneForgotten
  <2> QED BY <2>1 DEF Inv, InOrder, OneReplyEach
<1> QED BY <1>1, InvHolds, PTL

(* What follows a refused packet is never answered, nor is it itself.      *)
THEOREM RefusedPacketBlocksHolds == Spec => []RefusedPacketBlocks
<1>1. Inv => RefusedPacketBlocks
  <2> SUFFICES ASSUME Inv, NEW i \in 1 .. Len(replies),
                      IsPacket(sent[replies[i].to]), replies[i].body = ParseError,
                      NEW j \in i .. Len(replies)
               PROVE  replies[j] = replies[i]
    BY DEF RefusedPacketBlocks
  <2>1. replies \in Seq([to : Nat, body : AnyBody]) /\ Len(replies) \in Nat
    BY Counts DEF Inv, StreamOK
  <2>2. j \in 1 .. Len(replies)
    BY <2>1
  <2>3. replies[i] \in [to : Nat, body : AnyBody] /\ replies[j] \in [to : Nat, body : AnyBody]
    BY <2>1, <2>2, ElementOfSeq
  <2>4. replies[i].to = consumed + 1
    BY DEF Inv, RepliesOK
  <2>5. consumed \in Nat /\ Settled \in Nat /\ Settled <= consumed
    BY Counts DEF Inv
  <2>6. replies[j].to >= consumed + 1
    BY <2>2, <2>3, <2>4, <2>5 DEF Inv, InOrder
  <2>7. replies[j].to = consumed + 1 /\ replies[j].body = ParseError
    BY <2>2, <2>3, <2>5, <2>6 DEF Inv, RepliesOK
  <2> QED BY <2>3, <2>4, <2>7
<1> QED BY <1>1, InvHolds, PTL
=============================================================================
