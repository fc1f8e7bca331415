---------------------------- MODULE RequestProofs ----------------------------
(***************************************************************************)
(* Proofs about Request, for any requests, texts, number of backends and   *)
(* length of a stream: a request is counted once, and the record of a      *)
(* stream tells what its client was given, however the handler, the client *)
(* and the logger task interleave; and a stream gives the text that a      *)
(* whole answer gives, wherever its pieces are cut.                        *)
(*                                                                         *)
(* The first part leaves open what the conversion of thinking text         *)
(* computes, since nothing in it depends on it.  The second is about the   *)
(* conversion: the recursive functions of Thinking exist, since what they  *)
(* are applied to gets shorter; a text may be parsed in pieces; and the    *)
(* pieces of a stream add up to the conversion of the whole.               *)
(***************************************************************************)
EXTENDS Request, SequenceTheorems, WellFoundedInduction, TLAPS

Places   == {"arrived", "send", "body", "next", "reply", "stream", "over"}
Statuses == {0, 200, 400, 429, 500}
HandlerType == [at : Places, left : Int, attempt : Int, inner : Int,
                status : Statuses, last : {0, 429, 500}]
Ends_    == {"whole", "done", "final", "end", "error"}

IsSeq(s) == Len(s) \in Nat /\ s = [k \in 1..Len(s) |-> s[k]]

(* Only chats and completions queue a [DONE] or end before the upstream.   *)
SseFits ==
    /\ sse.pending \/ sse.terminated => req.api \in OpenAI
    /\ ~(sse.pending /\ sse.terminated)

(* The fields of the records; texts are whatever the conversion makes.     *)
Shape ==
    /\ req \in Requests
    /\ handler \in HandlerType
    /\ sse \in [tf : {sse.tf}, prefixed : BOOLEAN, flag : BOOLEAN,
                pending : BOOLEAN, terminated : BOOLEAN, events : Int]
    /\ SseFits
    /\ outcome \in {"running", "completed", "error"}
    /\ client \in [text : {client.text}, ends : Seq(Ends_), left : BOOLEAN,
                   orderly : BOOLEAN]
    /\ IsSeq(chan) /\ open \in BOOLEAN
    /\ logger \in [at : {"none", "whole", "reading", "closing", "verdict", "done"},
                   text : {logger.text}, some : BOOLEAN, failed : BOOLEAN,
                   terminal : BOOLEAN, error : BOOLEAN]

(* Where a request is, what has been counted: a task logs if and only if   *)
(* the answer was a 200, and the error log has a line if it was another;   *)
(* without an answer there is neither, and the client is gone.             *)
CountFits ==
    /\ handler.at \in {"arrived", "send", "body", "next"} =>
          /\ reply = 0 /\ errlog = 0 /\ logger.at = "none"
          /\ active # 0 => handler.last # 0
          /\ handler.at = "arrived" => handler.last = 0
    /\ handler.at \in {"reply", "stream", "over"} =>
          \/ reply \in {422, 400, 429, 500} /\ errlog = 1 /\ logger.at = "none"
          \/ reply = 200 /\ errlog = 0 /\ logger.at # "none"
          \/ /\ handler.at = "over" /\ reply = 0 /\ errlog = 0 /\ logger.at = "none"
             /\ client.left
    /\ handler.at = "body" => handler.status # 0 /\ (req.streaming => handler.status # 200)
    /\ handler.at = "stream" => req.streaming /\ reply = 200
    /\ handler.at = "over" => active = 0
    /\ open <=> handler.at = "stream"
    /\ logger.at = "whole" => ~req.streaming
    /\ logger.at \in {"reading", "closing", "verdict"} => req.streaming
    /\ \/ audit = <<>> /\ (logger.at = "done" => req.streaming)
       \/ audit = <<audit[1]>> /\ logger.at = "done"

(* The first end that marks the outcome is the first end that a chat is    *)
(* given, unless it is still queued; for the other APIs it is one of those *)
(* given.                                                                  *)
EndsFit ==
    /\ ~req.streaming => client.ends \in {<<>>, <<"whole">>} /\ chan = <<>> /\ ~sse.pending
    /\ req.streaming /\ req.api \in OpenAI =>
          /\ outcome = "running" <=> client.ends = <<>> /\ ~sse.pending
          /\ outcome = "completed" => client.ends = <<>> \/ client.ends[1] = "done"
          /\ outcome = "error" => client.ends # <<>> /\ client.ends[1] = "error"
          /\ handler.at # "over" => (sse.flag \/ sse.terminated <=> outcome # "running")
          /\ sse.pending /\ ~open => client.left
          /\ ~logger.terminal
          /\ \A k \in 1..Len(chan) : chan[k].kind # "final"
    /\ req.streaming /\ req.api \notin OpenAI =>
          /\ outcome = "running" => EndsGiven \subseteq {"final"}
          /\ outcome = "completed" => "end" \in EndsGiven
          /\ outcome = "error" => "error" \in EndsGiven
          /\ "done" \notin EndsGiven
          /\ "final" \in EndsGiven <=>
                logger.terminal \/ \E k \in 1..Len(chan) : chan[k].kind = "final"
    /\ req.streaming => "whole" \notin EndsGiven
    /\ req.streaming /\ logger.at # "none" /\ ~open => client.left \/ outcome # "running"

(* The logger judges when it has seen a final event or everything. *)
LoggerFits ==
    /\ logger.at = "closing" => logger.terminal
    /\ req.streaming /\ logger.at \in {"verdict", "done"} =>
          logger.terminal \/ (chan = <<>> /\ ~open)
    /\ req.streaming /\ audit # <<>> => (audit[1].status = 499 => ~open)

(* The logger's text with what is still in the channel is the client's. *)
TextChain ==
    \E t : /\ t[1] = logger.text /\ t[Len(chan) + 1] = client.text
           /\ \A k \in 1..Len(chan) : t[k + 1] = Put(t[k], chan[k].d)

TextFits ==
    /\ ~req.streaming /\ logger.at \in {"whole", "done"} => logger.text = client.text
    /\ req.streaming /\ req.api \in OpenAI => TextChain
    /\ audit # <<>> => audit[1].text = logger.text

IInv == /\ Shape /\ CountFits /\ EndsFit /\ LoggerFits /\ TextFits
        /\ VerdictTruthful

-----------------------------------------------------------------------------
(* Sequences.                                                              *)

LEMMA SeqIsSeq ==
    ASSUME NEW S, NEW s \in Seq(S)
    PROVE  IsSeq(s)
  <1>1. Len(s) \in Nat /\ s \in [1..Len(s) -> S]
    OBVIOUS
  <1>2. s = [k \in 1..Len(s) |-> s[k]]
    BY <1>1
  <1> QED BY <1>1, <1>2 DEF IsSeq

LEMMA IsSeqSeq ==
    ASSUME NEW s, IsSeq(s), NEW S, \A k \in 1..Len(s) : s[k] \in S
    PROVE  s \in Seq(S)
  <1> DEFINE f == [k \in 1..Len(s) |-> s[k]]
  <1>1. f \in Seq(S)
    BY DEF IsSeq
  <1> QED BY <1>1 DEF IsSeq

LEMMA SeqAppend ==
    ASSUME NEW s, IsSeq(s), NEW e
    PROVE  /\ IsSeq(Append(s, e)) /\ Len(Append(s, e)) = Len(s) + 1
           /\ \A k \in 1..Len(s) : Append(s, e)[k] = s[k]
           /\ Append(s, e)[Len(s) + 1] = e
  <1> DEFINE S == {s[k] : k \in 1..Len(s)} \cup {e}
  <1>1. s \in Seq(S) /\ e \in S
    BY IsSeqSeq
  <1> HIDE DEF S
  <1>2. Append(s, e) \in Seq(S) /\ Len(Append(s, e)) = Len(s) + 1
        /\ (\A k \in 1..Len(s) : Append(s, e)[k] = s[k])
        /\ Append(s, e)[Len(s) + 1] = e
    BY <1>1
  <1> QED BY <1>2, SeqIsSeq

LEMMA SeqTail ==
    ASSUME NEW s, IsSeq(s), s # <<>>
    PROVE  /\ Len(s) \in Nat \ {0} /\ Head(s) = s[1]
           /\ IsSeq(Tail(s)) /\ Len(Tail(s)) = Len(s) - 1
           /\ \A k \in 1..(Len(s) - 1) : Tail(s)[k] = s[k + 1]
  <1> DEFINE S == {s[k] : k \in 1..Len(s)}
  <1>1. s \in Seq(S)
    BY IsSeqSeq
  <1> HIDE DEF S
  <1>2. Len(s) \in Nat \ {0} /\ Head(s) = s[1] /\ Tail(s) \in Seq(S)
        /\ Len(Tail(s)) = Len(s) - 1
        /\ (\A k \in 1..(Len(s) - 1) : Tail(s)[k] = s[k + 1])
    BY <1>1
  <1> QED BY <1>2, SeqIsSeq

LEMMA SeqEmpty == IsSeq(<<>>) /\ Len(<<>>) = 0
  BY DEF IsSeq

(* A further end of a stream leaves those before it. *)
LEMMA EndAdded ==
    ASSUME Shape, NEW e \in Ends_, client'.ends = Append(client.ends, e)
    PROVE  /\ client'.ends \in Seq(Ends_) /\ client'.ends # <<>>
           /\ EndsGiven' = EndsGiven \cup {e}
           /\ client.ends # <<>> => client'.ends[1] = client.ends[1]
           /\ client.ends = <<>> => client'.ends[1] = e /\ EndsGiven = {}
  <1>1. client.ends \in Seq(Ends_)
    BY DEF Shape
  <1>2. /\ Len(client'.ends) = Len(client.ends) + 1 /\ Len(client.ends) \in Nat
        /\ \A k \in 1..Len(client.ends) : client'.ends[k] = client.ends[k]
        /\ client'.ends[Len(client.ends) + 1] = e
    BY <1>1
  <1>3. EndsGiven' = EndsGiven \cup {e}
    BY <1>2 DEF EndsGiven
  <1>4. client.ends = <<>> => EndsGiven = {}
    BY DEF EndsGiven
  <1> QED BY <1>1, <1>2, <1>3, <1>4

LEMMA Kinds ==
    ASSUME Shape
    PROVE  /\ req.api \in Apis /\ req.streaming \in BOOLEAN
           /\ req.streaming => req.api \in {"chat", "completion", "responses", "anthropic"}
  BY RequestBounds DEF Shape, Apis

-----------------------------------------------------------------------------
(* What the steps have in common.                                          *)

(* Until there is an answer, and when it is given without a task that logs *)
(* it, only the handler and what is counted change.                        *)
Early == \/ Reject \/ Accept \/ NextBackend \/ Exhausted \/ Delivered
         \/ \E e \in {"connect", "closed", "request", "timeout"} :
               SendFails(e) \/ BodyFails(e)
         \/ \E s \in {200, 400, 429, 500} : Headers(s)
         \/ BodyUnparsable \/ Refuse

Start == process_streaming_response \/ process_responses_streaming_response
            \/ process_anthropic_streaming_response

(* At the end of the upstream a chat is given the [DONE] it lacks, or the  *)
(* body ends.                                                              *)
DoneSentinel == PollEnd /\ req.api \in OpenAI /\ ~sse.flag
Finish == PollTerminated \/ (PollEnd /\ (req.api \notin OpenAI \/ sse.flag))

Deliver == \/ \E d \in Contents \cup Thoughts \cup {NoText} : ChatDelta(d)
           \/ \E k \in {"ping", "bad"} : ChatOther(k)
           \/ ChatDone \/ QueuedDone \/ DoneSentinel
           \/ \E k \in {"start", "final", "bad"} :
                 ResponsesEvent(k, NoText) \/ AnthropicEvent(k, NoText)
           \/ \E d \in Plain : ResponsesEvent("delta", d) \/ AnthropicEvent("delta", d)
           \/ ChatError \/ ResponsesError \/ AnthropicError

Hear == ReceiveChat \/ ReceiveResponses \/ ReceiveAnthropic
Record == WriteChat \/ WriteResponses \/ WriteAnthropic

LEMMA NextSteps ==
    ASSUME [Next]_vars
    PROVE  \/ Early \/ Start \/ Deliver \/ Finish \/ Leave \/ Disconnect
           \/ \E m \in Contents \cup Thoughts, null \in BOOLEAN, usage \in BOOLEAN :
                 AnswerWhole(m, null, usage)
           \/ Hear \/ LogVerdict \/ Record \/ LogWhole
           \/ UNCHANGED vars
  <1>1. Sending => \/ Early \/ Disconnect
                   \/ \E m \in Contents \cup Thoughts, null \in BOOLEAN, usage \in BOOLEAN :
                         AnswerWhole(m, null, usage)
    BY DEF Sending, Early
  <1>2. Streaming => Start \/ Deliver \/ Finish \/ Leave
    BY DEF Streaming, Start, Deliver, DoneSentinel, Finish
  <1>3. Logging => Hear \/ LogVerdict \/ Record \/ LogWhole
    BY DEF Logging, Hear, Record
  <1> QED BY <1>1, <1>2, <1>3 DEF Next

LEMMA EarlySteps ==
    ASSUME Shape, CountFits, Early
    PROVE  /\ UNCHANGED <<req, sse, outcome, sent, client, chan, open, logger, audit>>
           /\ handler' \in HandlerType
           /\ handler.at # "stream"
           /\ handler'.at \in {"send", "body", "next"} =>
                 /\ handler.at \in {"arrived", "send", "body", "next"}
                 /\ reply' = reply /\ errlog' = errlog
                 /\ active' # 0 => handler'.last # 0
                 /\ handler'.at = "body" =>
                       handler'.status # 0 /\ (req.streaming => handler'.status # 200)
           /\ handler'.at \in {"send", "body", "next", "reply", "over"}
           /\ handler'.at \in {"reply", "over"} =>
                 \/ /\ handler.at \in {"arrived", "send", "body", "next"}
                    /\ reply' \in {422, 400, 429, 500} /\ errlog' = errlog + 1
                    /\ handler'.at = "over" => active' = 0
                 \/ /\ handler.at = "reply" /\ active' = 0
                    /\ reply' = reply /\ errlog' = errlog
  <1>h. handler \in HandlerType /\ Backends \in Int
    BY RequestBounds DEF Shape
  <1>o. HandlerAt("reply") \in HandlerType /\ HandlerAt("reply").at = "reply"
        /\ HandlerAt("over") \in HandlerType /\ HandlerAt("over").at = "over"
    BY <1>h DEF HandlerAt, HandlerType, Places, Statuses
  <1> DEFINE Rest == UNCHANGED <<req, sse, outcome, sent, client, chan, open, logger,
                                 audit>>
             Kept == Rest /\ UNCHANGED <<reply, errlog, active>>
  <1>1. CASE Reject
    <2>1. /\ Rest /\ handler.at = "arrived" /\ handler' = HandlerAt("over")
          /\ reply' = 422 /\ errlog' = errlog + 1 /\ active' = active
      BY <1>1 DEF Reject, Reply, access_log_middleware, stream
    <2> QED BY <1>o, <2>1 DEF CountFits
  <1>2. CASE Accept
    <2>1. Kept /\ handler.at = "arrived" /\ handler' = [handler EXCEPT !.at = "send"]
      BY <1>2 DEF Accept, stream, traces
    <2>2. handler' \in HandlerType /\ handler'.at = "send" /\ handler'.last = handler.last
      BY <1>h, <2>1 DEF HandlerType, Places
    <2> QED BY <2>1, <2>2 DEF CountFits
  <1>3. CASE NextBackend
    <2>1. /\ Kept /\ handler.at = "next"
          /\ handler' = [handler EXCEPT !.at = "send", !.left = @ - 1, !.attempt = 1,
                                        !.inner = 1]
      BY <1>3 DEF NextBackend, stream, traces
    <2>2. handler' = [at |-> "send", left |-> handler.left - 1, attempt |-> 1,
                       inner |-> 1, status |-> handler.status, last |-> handler.last]
      BY <1>h, <2>1 DEF HandlerType
    <2>3. handler' \in HandlerType /\ handler'.at = "send" /\ handler'.last = handler.last
      BY <1>h, <2>2 DEF HandlerType, Places
    <2> QED BY <2>1, <2>3 DEF CountFits
  <1>4. CASE Exhausted
    <2>1. Rest /\ handler.at = "next" /\ active' = active /\ errlog = 0
          /\ handler.last \in {0, 429, 500} /\ (active # 0 => handler.last # 0)
      BY <1>4, <1>h DEF Exhausted, stream, CountFits, HandlerType
    <2>2. CASE handler.last # 0 /\ Reply(handler.last, req.streaming)
                                /\ handler' = HandlerAt("reply")
      BY <1>o, <2>1, <2>2 DEF Reply, access_log_middleware
    <2>3. CASE handler.last = 0 /\ Reply(500, FALSE) /\ handler' = HandlerAt("over")
      BY <1>o, <2>1, <2>3 DEF Reply, access_log_middleware
    <2> QED BY <1>4, <2>2, <2>3 DEF Exhausted
  <1>5. CASE Delivered
    BY <1>5, <1>o DEF Delivered, stream, traces, CountFits
  <1>6. ASSUME NEW e, SendFails(e)
        PROVE  /\ Kept /\ handler' \in HandlerType
               /\ handler.at = "send" /\ handler'.at \in {"send", "next"}
               /\ handler'.last = handler.last
    <2>1. Kept /\ handler.at = "send"
      BY <1>6 DEF SendFails, stream, traces
    <2>2. CASE handler' = [handler EXCEPT !.inner = 2]
      <3>1. handler' = [at |-> handler.at, left |-> handler.left, attempt |-> handler.attempt,
                         inner |-> 2, status |-> handler.status, last |-> handler.last]
        BY <1>h, <2>2 DEF HandlerType
      <3> QED BY <1>h, <2>1, <3>1 DEF HandlerType, Places
    <2>3. CASE handler' = [handler EXCEPT !.attempt = 2, !.inner = 1]
      <3>1. handler' = [at |-> handler.at, left |-> handler.left, attempt |-> 2,
                         inner |-> 1, status |-> handler.status, last |-> handler.last]
        BY <1>h, <2>3 DEF HandlerType
      <3> QED BY <1>h, <2>1, <3>1 DEF HandlerType, Places
    <2>4. CASE handler' = [handler EXCEPT !.at = "next"]
      <3>1. handler' = [at |-> "next", left |-> handler.left, attempt |-> handler.attempt,
                         inner |-> handler.inner, status |-> handler.status, last |-> handler.last]
        BY <1>h, <2>4 DEF HandlerType
      <3> QED BY <1>h, <2>1, <3>1 DEF HandlerType, Places
    <2> QED BY <1>6, <2>2, <2>3, <2>4 DEF SendFails
  <1>7. ASSUME NEW e, BodyFails(e)
        PROVE  /\ Kept /\ handler' \in HandlerType
               /\ handler.at = "body" /\ handler'.at \in {"send", "next"}
               /\ handler'.last = handler.last
    <2>1. Kept /\ handler.at = "body"
      BY <1>7 DEF BodyFails, stream, traces
    <2>2. CASE handler' = [handler EXCEPT !.at = "send", !.attempt = 2, !.inner = 1]
      <3>1. handler' = [at |-> "send", left |-> handler.left, attempt |-> 2,
                         inner |-> 1, status |-> handler.status, last |-> handler.last]
        BY <1>h, <2>2 DEF HandlerType
      <3> QED BY <1>h, <2>1, <3>1 DEF HandlerType, Places
    <2>3. CASE handler' = [handler EXCEPT !.at = "next"]
      <3>1. handler' = [at |-> "next", left |-> handler.left, attempt |-> handler.attempt,
                         inner |-> handler.inner, status |-> handler.status, last |-> handler.last]
        BY <1>h, <2>3 DEF HandlerType
      <3> QED BY <1>h, <2>1, <3>1 DEF HandlerType, Places
    <2> QED BY <1>7, <2>2, <2>3 DEF BodyFails
  <1>8. ASSUME NEW s \in {200, 400, 429, 500}, Headers(s)
        PROVE  /\ Kept /\ handler' \in HandlerType
               /\ handler.at = "send" /\ handler'.at = "body" /\ handler'.status = s
               /\ handler'.last = handler.last /\ (req.streaming => s # 200)
    <2>1. Kept /\ handler.at = "send" /\ (req.streaming => s # 200)
          /\ handler' = [handler EXCEPT !.at = "body", !.status = s]
      BY <1>8 DEF Headers, stream, traces
    <2>2. handler' = [at |-> "body", left |-> handler.left, attempt |-> handler.attempt,
                       inner |-> handler.inner, status |-> s, last |-> handler.last]
      BY <1>h, <2>1 DEF HandlerType
    <2>3. handler' \in HandlerType /\ handler'.at = "body" /\ handler'.status = s
          /\ handler'.last = handler.last
      BY <1>h, <2>2 DEF HandlerType, Places, Statuses
    <2> QED BY <2>1, <2>3
  <1>9. CASE BodyUnparsable
    <2>1. Kept /\ handler.at = "body" /\ handler' = [handler EXCEPT !.at = "next"]
      BY <1>9 DEF BodyUnparsable, stream, traces
    <2>2. handler' \in HandlerType /\ handler'.at = "next" /\ handler'.last = handler.last
      BY <1>h, <2>1 DEF HandlerType, Places
    <2> QED BY <2>1, <2>2 DEF CountFits
  <1>10. CASE Refuse
    <2>1. Rest /\ handler.at = "body" /\ handler.status \in {400, 429, 500}
          /\ errlog = 0
      BY <1>10, <1>h DEF Refuse, stream, CountFits, HandlerType, Statuses
    <2>2. CASE handler.status = 400
      BY <1>10, <1>o, <2>1, <2>2 DEF Refuse, Reply, access_log_middleware
    <2>3. CASE handler.status # 400
      <3>1. /\ handler' = [handler EXCEPT !.at = "next", !.last = handler.status]
            /\ UNCHANGED <<reply, errlog>>
        BY <1>10, <2>3 DEF Refuse
      <3>2. handler' = [at |-> "next", left |-> handler.left, attempt |-> handler.attempt,
                         inner |-> handler.inner, status |-> handler.status, last |-> handler.status]
        BY <1>h, <3>1 DEF HandlerType
      <3>3. handler' \in HandlerType /\ handler'.at = "next" /\ handler'.last # 0
        BY <1>h, <2>1, <2>3, <3>2 DEF HandlerType, Places
      <3> QED BY <2>1, <3>1, <3>3
    <2> QED BY <2>2, <2>3
  <1>a. CASE \E e \in {"connect", "closed", "request", "timeout"} : SendFails(e) \/ BodyFails(e)
    BY <1>a, <1>6, <1>7 DEF CountFits
  <1>b. CASE \E s \in {200, 400, 429, 500} : Headers(s)
    <2>1. PICK s \in {200, 400, 429, 500} : Headers(s)
      BY <1>b
    <2> QED BY <2>1, <1>8 DEF CountFits
  <1> QED BY <1>1, <1>2, <1>3, <1>4, <1>5, <1>9, <1>10, <1>a, <1>b DEF Early

LEMMA HandlerPlaces ==
    ASSUME NEW place \in Places
    PROVE  HandlerAt(place) \in HandlerType /\ HandlerAt(place).at = place
  <1>1. Backends \in Int
    BY RequestBounds
  <1> QED BY <1>1 DEF HandlerAt, HandlerType, Statuses

LoggerType == [at : {"none", "whole", "reading", "closing", "verdict", "done"},
               text : {logger.text}, some : BOOLEAN, failed : BOOLEAN,
               terminal : BOOLEAN, error : BOOLEAN]
ClientType == [text : {client.text}, ends : Seq(Ends_), left : BOOLEAN,
               orderly : BOOLEAN]
SseType == [tf : {sse.tf}, prefixed : BOOLEAN, flag : BOOLEAN,
            pending : BOOLEAN, terminated : BOOLEAN, events : Int]

LEMMA ShapeTypes ==
    Shape => logger \in LoggerType /\ client \in ClientType /\ sse \in SseType
  BY DEF Shape, LoggerType, ClientType, SseType

LEMMA StartSteps ==
    ASSUME Shape, CountFits, Start
    PROVE  /\ UNCHANGED <<req, sse, outcome, sent, client, chan, audit>>
           /\ handler.at = "send" /\ req.streaming
           /\ handler' \in HandlerType /\ handler'.at = "stream"
           /\ reply' = 200 /\ errlog' = 0 /\ open' = TRUE
           /\ logger' \in LoggerType' /\ logger'.at = "reading"
           /\ logger'.text = logger.text /\ logger'.terminal = logger.terminal
  <1>1. StartStream
    BY DEF Start, process_streaming_response, process_responses_streaming_response,
           process_anthropic_streaming_response
  <1>2. /\ UNCHANGED <<req, sse, outcome, sent, client, chan, audit>>
        /\ handler.at = "send" /\ req.streaming
        /\ handler' = HandlerAt("stream") /\ reply' = 200 /\ open' = TRUE
        /\ logger' = [logger EXCEPT !.at = "reading"]
    BY <1>1 DEF StartStream, Reply
  <1>3. errlog' = 0
    <2>1. errlog = 0
      BY <1>2 DEF CountFits
    <2> QED BY <1>1, <2>1 DEF StartStream, Reply, access_log_middleware
  <1>4. logger' \in LoggerType' /\ logger'.at = "reading"
        /\ logger'.text = logger.text /\ logger'.terminal = logger.terminal
    BY <1>2, ShapeTypes DEF LoggerType
  <1> QED BY <1>2, <1>3, <1>4, HandlerPlaces DEF Places

(* What the upstream's events do to a chat: the text that goes to the      *)
(* client goes to the logger, and each end is marked.                      *)
ChatText ==
    \/ UNCHANGED chan /\ client'.text = client.text
    \/ \E kind \in {"delta", "bad", "sentinel"} : \E d :
          chan' = Append(chan, Event(kind, d)) /\ client'.text = Put(client.text, d)
Ended == sse.flag \/ sse.terminated
ChatEnds ==
    \/ /\ client'.ends = client.ends /\ outcome' = outcome /\ Ended' = Ended
       /\ sse'.pending = sse.pending
    \/ \E e \in {<<"done", "completed">>, <<"error", "error">>} :
          /\ client'.ends = Append(client.ends, e[1]) /\ Mark(e[2]) /\ Ended'
          /\ ~sse.pending /\ ~sse'.pending
    \/ /\ client'.ends = client.ends /\ Mark("completed") /\ Ended'
       /\ ~sse.pending /\ sse'.pending
    \/ /\ client'.ends = Append(client.ends, "done") /\ outcome' = outcome
       /\ Ended' = Ended /\ sse.pending /\ ~sse'.pending

(* The other two APIs. *)
OtherEnds ==
    \/ \E kind \in {"start", "final", "bad", "delta"}, d \in {NoText} \cup Plain :
          /\ UNCHANGED outcome /\ chan' = Append(chan, Event(kind, d))
          /\ client'.ends = IF kind = "final" THEN Append(client.ends, "final")
                            ELSE client.ends
    \/ /\ UNCHANGED chan /\ Mark("error")
       /\ client'.ends = Append(client.ends, "error")

LEMMA DeliverSteps ==
    ASSUME Shape, Deliver
    PROVE  /\ UNCHANGED <<req, handler, reply, open, logger, audit, errlog, active>>
           /\ handler.at = "stream"
           /\ client' \in ClientType' /\ sse' \in SseType' /\ client'.left = client.left
           /\ SseFits' /\ IsSeq(chan')
           /\ outcome' \in {"running", "completed", "error"}
           /\ req.api \in OpenAI => ChatText /\ ChatEnds
           /\ req.api \notin OpenAI => OtherEnds
  <1> DEFINE Rest == UNCHANGED <<req, handler, reply, open, logger, audit, errlog, active>>
  <1>0. /\ sse \in SseType /\ client \in ClientType /\ IsSeq(chan) /\ SseFits
        /\ outcome \in {"running", "completed", "error"}
    BY ShapeTypes DEF Shape
  <1>s. ASSUME req' = req, sse'.pending = sse.pending, sse'.terminated = sse.terminated
        PROVE  SseFits'
    BY <1>0, <1>s DEF SseFits
  <1>p. Put(client.text, NoText) = client.text
    BY DEF Put
  <1>e. \A e \in Ends_ : Append(client.ends, e) \in Seq(Ends_)
    BY <1>0 DEF ClientType
  <1>c. \A e : IsSeq(Append(chan, e))
    BY <1>0, SeqAppend
  <1>m. ASSUME NEW end \in {"completed", "error"}, Mark(end)
        PROVE  outcome' \in {"running", "completed", "error"}
    BY <1>0, <1>m DEF Mark
  <1>1. ASSUME NEW d, ChatDelta(d)
        PROVE  /\ Rest /\ handler.at = "stream" /\ outcome' = outcome
               /\ client' \in ClientType' /\ sse' \in SseType'
               /\ client'.left = client.left /\ SseFits'
               /\ IsSeq(chan') /\ req.api \in OpenAI /\ ChatText /\ ChatEnds
    <2> DEFINE first == ~sse.prefixed /\ req.prefix # <<>> /\ d.c # <<>>
               put   == IF first THEN [d EXCEPT !.c = req.prefix \o @] ELSE d
               res   == transform_delta(sse.tf, put, req.target)
               ord   == client.ends = <<>> /\ (d.r # <<>> => sent.c = <<>>)
    <2>1. /\ Rest /\ handler.at = "stream" /\ req.api \in OpenAI /\ outcome' = outcome
          /\ chan' = Append(chan, Event("delta", res.delta))
          /\ sse' = [sse EXCEPT !.tf = res.tf, !.prefixed = @ \/ first, !.events = @ + 1]
          /\ client' = [client EXCEPT !.text = Put(@, res.delta), !.orderly = @ /\ ord]
      BY <1>1 DEF ChatDelta, Polling, traces
    <2>2. first \in BOOLEAN /\ ord \in BOOLEAN
      OBVIOUS
    <2> HIDE DEF first, put, res, ord
    <2>3. /\ sse' = [tf |-> res.tf, prefixed |-> sse.prefixed \/ first, flag |-> sse.flag,
                     pending |-> sse.pending, terminated |-> sse.terminated,
                     events |-> sse.events + 1]
          /\ client' = [text |-> Put(client.text, res.delta), ends |-> client.ends,
                        left |-> client.left, orderly |-> client.orderly /\ ord]
      BY <1>0, <2>1 DEF SseType, ClientType
    <2>4. /\ sse' \in SseType' /\ sse'.flag = sse.flag /\ sse'.pending = sse.pending
          /\ sse'.terminated = sse.terminated
      BY <1>0, <2>2, <2>3 DEF SseType
    <2>5. client' \in ClientType' /\ client'.ends = client.ends
          /\ client'.left = client.left /\ client'.text = Put(client.text, res.delta)
      BY <1>0, <2>2, <2>3 DEF ClientType
    <2> QED BY <1>c, <1>s, <2>1, <2>4, <2>5 DEF ChatText, ChatEnds, Ended
  <1>2. ASSUME NEW k, ChatOther(k)
        PROVE  /\ Rest /\ handler.at = "stream" /\ outcome' = outcome
               /\ client' \in ClientType' /\ sse' \in SseType'
               /\ client'.left = client.left /\ SseFits'
               /\ IsSeq(chan') /\ req.api \in OpenAI /\ ChatText /\ ChatEnds
    <2>1. /\ Rest /\ handler.at = "stream" /\ req.api \in OpenAI /\ outcome' = outcome
          /\ client' = client /\ sse' = [sse EXCEPT !.events = @ + 1]
          /\ chan' = chan \/ chan' = Append(chan, Event("bad", NoText))
      BY <1>2 DEF ChatOther, Polling, traces
    <2>2. /\ sse' \in SseType' /\ sse'.flag = sse.flag /\ sse'.pending = sse.pending
          /\ sse'.terminated = sse.terminated
      BY <1>0, <2>1 DEF SseType
    <2>3. client' \in ClientType'
      BY <1>0, <2>1 DEF ClientType
    <2>4. IsSeq(chan')
      BY <1>0, <1>c, <2>1
    <2> QED BY <1>p, <1>s, <2>1, <2>2, <2>3, <2>4 DEF ChatText, ChatEnds, Ended
  <1>3. ASSUME ChatDone
        PROVE  /\ Rest /\ handler.at = "stream"
               /\ outcome' \in {"running", "completed", "error"}
               /\ client' \in ClientType' /\ sse' \in SseType'
               /\ client'.left = client.left /\ SseFits'
               /\ IsSeq(chan') /\ req.api \in OpenAI /\ ChatText /\ ChatEnds
    <2> DEFINE flush == finalize(sse.tf, req.target)
               tf == [sse.tf EXCEPT !.carry = <<>>, !.closed = @ \/ sse.tf.open]
               ends == IF flush = NoText THEN Append(client.ends, "done") ELSE client.ends
    <2>1. /\ Rest /\ handler.at = "stream" /\ req.api \in OpenAI /\ Mark("completed")
          /\ ~sse.pending /\ ~sse.terminated
          /\ client' = [client EXCEPT !.text = Put(@, flush),
                          !.ends = IF flush = NoText THEN Append(@, "done") ELSE @]
          /\ chan' = IF flush = NoText THEN chan ELSE Append(chan, Event("delta", flush))
      BY <1>3 DEF ChatDone, GiveDone, Polling, traces
    <2>s. sse' = [sse EXCEPT !.flag = TRUE, !.events = @ + 1, !.pending = flush # NoText,
                             !.tf = tf]
      BY <1>3, Zenon DEF ChatDone, GiveDone
    <2> HIDE DEF flush, tf
    <2>2. /\ sse' = [tf |-> tf, prefixed |-> sse.prefixed, flag |-> TRUE,
                     pending |-> (flush # NoText),
                     terminated |-> sse.terminated, events |-> sse.events + 1]
          /\ client' = [text |-> Put(client.text, flush), ends |-> ends,
                        left |-> client.left, orderly |-> client.orderly]
      BY <1>0, <2>1, <2>s DEF SseType, ClientType
    <2>3. /\ sse' \in SseType' /\ sse'.flag = TRUE /\ sse'.pending = (flush # NoText)
          /\ sse'.terminated = FALSE
      BY <1>0, <2>1, <2>2 DEF SseType
    <2>e. ends \in Seq(Ends_)
      BY <1>0, <1>e DEF Ends_, ClientType
    <2>4. client' \in ClientType' /\ client'.ends = ends
          /\ client'.left = client.left /\ client'.text = Put(client.text, flush)
      <3> HIDE DEF ends
      <3> QED BY <1>0, <2>e, <2>2 DEF ClientType
    <2>5. IsSeq(chan') /\ ChatText
      BY <1>0, <1>c, <1>p, <2>1, <2>4 DEF ChatText
    <2>6. ChatEnds
      <3>1. CASE flush = NoText
        BY <2>1, <2>3, <2>4, <3>1 DEF ChatEnds, Ended
      <3>2. CASE flush # NoText
        BY <2>1, <2>3, <2>4, <3>2 DEF ChatEnds, Ended
      <3> QED BY <3>1, <3>2
    <2>7. SseFits'
      BY <2>1, <2>3 DEF SseFits
    <2> QED BY <1>m, <2>1, <2>3, <2>4, <2>5, <2>6, <2>7
  <1>q. ASSUME QueuedDone
        PROVE  /\ Rest /\ handler.at = "stream" /\ outcome' = outcome
               /\ client' \in ClientType' /\ sse' \in SseType'
               /\ client'.left = client.left /\ SseFits'
               /\ IsSeq(chan') /\ req.api \in OpenAI /\ ChatText /\ ChatEnds
    <2>1. /\ Rest /\ handler.at = "stream" /\ sse.pending /\ outcome' = outcome
          /\ UNCHANGED chan
          /\ sse' = [sse EXCEPT !.pending = FALSE]
          /\ client' = [client EXCEPT !.ends = Append(@, "done")]
      BY <1>q DEF QueuedDone, traces
    <2>2. /\ sse' \in SseType' /\ sse'.flag = sse.flag /\ ~sse'.pending
          /\ sse'.terminated = sse.terminated
      BY <1>0, <2>1 DEF SseType
    <2>3. /\ client' \in ClientType' /\ client'.left = client.left
          /\ client'.text = client.text /\ client'.ends = Append(client.ends, "done")
      BY <1>0, <1>e, <2>1 DEF ClientType, Ends_
    <2>4. req.api \in OpenAI /\ SseFits'
      BY <1>0, <2>1, <2>2 DEF SseFits
    <2> QED BY <1>0, <2>1, <2>2, <2>3, <2>4 DEF ChatText, ChatEnds, Ended
  <1>d. ASSUME DoneSentinel
        PROVE  /\ Rest /\ handler.at = "stream"
               /\ outcome' \in {"running", "completed", "error"}
               /\ client' \in ClientType' /\ sse' \in SseType'
               /\ client'.left = client.left /\ SseFits'
               /\ IsSeq(chan') /\ req.api \in OpenAI /\ ChatText /\ ChatEnds
    <2>1. /\ Rest /\ handler.at = "stream" /\ ~sse.pending /\ Mark("completed")
          /\ UNCHANGED chan /\ req.api \in OpenAI
          /\ sse' = [sse EXCEPT !.terminated = TRUE]
          /\ client' = [client EXCEPT !.ends = Append(@, "done")]
      BY <1>d DEF DoneSentinel, PollEnd, traces
    <2>2. /\ sse' \in SseType' /\ sse'.flag = sse.flag /\ sse'.pending = sse.pending
          /\ sse'.terminated = TRUE
      BY <1>0, <2>1 DEF SseType
    <2>3. /\ client' \in ClientType' /\ client'.left = client.left
          /\ client'.text = client.text /\ client'.ends = Append(client.ends, "done")
      BY <1>0, <1>e, <2>1 DEF ClientType, Ends_
    <2>4. SseFits'
      BY <2>1, <2>2 DEF SseFits
    <2>5. ChatText /\ ChatEnds
      BY <2>1, <2>2, <2>3 DEF ChatText, ChatEnds, Ended
    <2> QED BY <1>0, <1>m, <2>1, <2>2, <2>3, <2>4, <2>5
  <1>4. ASSUME NEW kind \in {"start", "final", "bad", "delta"}, NEW d \in {NoText} \cup Plain,
               ResponsesEvent(kind, d) \/ AnthropicEvent(kind, d)
        PROVE  /\ Rest /\ handler.at = "stream" /\ outcome' = outcome
               /\ client' \in ClientType' /\ sse' \in SseType'
               /\ client'.left = client.left /\ SseFits'
               /\ IsSeq(chan') /\ req.api \notin OpenAI /\ OtherEnds
    <2>1. /\ Rest /\ handler.at = "stream" /\ req.api \notin OpenAI /\ outcome' = outcome
          /\ chan' = Append(chan, Event(kind, d))
          /\ sse' = [sse EXCEPT !.events = @ + 1]
          /\ client' = [client EXCEPT !.text = Put(@, d),
                          !.ends = IF kind = "final" THEN Append(@, "final") ELSE @]
      BY <1>4 DEF ResponsesEvent, AnthropicEvent, Forward, Polling, traces, OpenAI
    <2>2. /\ sse' \in SseType' /\ sse'.pending = sse.pending
          /\ sse'.terminated = sse.terminated
      BY <1>0, <2>1 DEF SseType
    <2>3. client' = [text |-> Put(client.text, d),
                     ends |-> IF kind = "final" THEN Append(client.ends, "final")
                              ELSE client.ends,
                     left |-> client.left, orderly |-> client.orderly]
      BY <1>0, <2>1 DEF ClientType
    <2>4. client' \in ClientType' /\ client'.left = client.left
          /\ client'.ends = IF kind = "final" THEN Append(client.ends, "final")
                            ELSE client.ends
      BY <1>0, <1>e, <2>3 DEF ClientType, Ends_
    <2> QED BY <1>c, <1>s, <2>1, <2>2, <2>4 DEF OtherEnds
  <1>f. ASSUME Fails
        PROVE  /\ Rest /\ handler.at = "stream"
               /\ client' \in ClientType' /\ sse' \in SseType' /\ sse'.flag = TRUE
               /\ ~sse.pending /\ ~sse'.pending /\ SseFits'
               /\ client'.left = client.left /\ client'.text = client.text
               /\ client'.ends = Append(client.ends, "error") /\ Mark("error")
    <2>1. /\ Rest /\ handler.at = "stream" /\ Mark("error") /\ ~sse.pending
          /\ client' = [client EXCEPT !.ends = Append(@, "error")]
          /\ sse' = [sse EXCEPT !.events = @ + 1, !.flag = TRUE,
                                !.terminated = TerminatesOnError(req.api)]
      BY <1>f DEF Fails, Polling, traces
    <2>2. TerminatesOnError(req.api) \in BOOLEAN
      BY DEF TerminatesOnError
    <2> DEFINE term == TerminatesOnError(req.api)
    <2>4. /\ sse' \in SseType' /\ sse'.flag = TRUE /\ ~sse'.pending
          /\ sse'.terminated = term
      <3>1. sse' = [sse EXCEPT !.events = @ + 1, !.flag = TRUE, !.terminated = term]
        BY <2>1
      <3>2. term \in BOOLEAN
        BY <2>2
      <3> HIDE DEF term
      <3>3. sse' = [tf |-> sse.tf, prefixed |-> sse.prefixed, flag |-> TRUE,
                    pending |-> sse.pending,
                    terminated |-> term, events |-> sse.events + 1]
        BY <1>0, <3>1 DEF SseType
      <3>4. /\ sse'.tf = sse.tf /\ sse'.prefixed = sse.prefixed /\ sse'.flag = TRUE
            /\ sse'.pending = sse.pending /\ sse'.terminated = term
        BY <3>3
      <3>5. sse' \in SseType'
        BY <1>0, <3>2, <3>3 DEF SseType
      <3> QED BY <2>1, <3>4, <3>5
    <2>5. client' \in ClientType' /\ client'.left = client.left
          /\ client'.text = client.text /\ client'.ends = Append(client.ends, "error")
      BY <1>0, <1>e, <2>1 DEF ClientType, Ends_
    <2>6. SseFits'
      BY <2>1, <2>4 DEF SseFits, TerminatesOnError
    <2> QED BY <2>1, <2>4, <2>5, <2>6
  <1>5. CASE ChatError
    <2>1. req.api \in OpenAI /\ Fails /\ chan' = Append(chan, Event("sentinel", NoText))
      BY <1>5 DEF ChatError
    <2>2. ChatText /\ ChatEnds
      BY <1>f, <1>p, <2>1 DEF ChatText, ChatEnds, Ended
    <2> QED BY <1>c, <1>f, <1>m, <2>1, <2>2
  <1>6. CASE ResponsesError \/ AnthropicError
    <2>1. req.api \notin OpenAI /\ Fails /\ chan' = chan
      BY <1>6 DEF ResponsesError, AnthropicError, OpenAI
    <2>2. OtherEnds
      BY <1>f, <2>1 DEF OtherEnds
    <2> QED BY <1>0, <1>f, <1>m, <2>1, <2>2
  <1>7. CASE \E d \in Contents \cup Thoughts \cup {NoText} : ChatDelta(d)
    BY <1>0, <1>1, <1>7
  <1>8. CASE \E k \in {"ping", "bad"} : ChatOther(k)
    BY <1>0, <1>2, <1>8
  <1>9. CASE ChatDone \/ QueuedDone \/ DoneSentinel
    BY <1>0, <1>3, <1>q, <1>d, <1>9
  <1>10. CASE \/ \E k \in {"start", "final", "bad"} :
                    ResponsesEvent(k, NoText) \/ AnthropicEvent(k, NoText)
              \/ \E d \in Plain : ResponsesEvent("delta", d) \/ AnthropicEvent("delta", d)
    BY <1>0, <1>4, <1>10
  <1> QED BY <1>5, <1>6, <1>7, <1>8, <1>9, <1>10 DEF Deliver

LEMMA EndSteps ==
    ASSUME Shape, Finish
    PROVE  /\ UNCHANGED <<req, reply, sse, chan, logger, audit, errlog>>
           /\ handler.at = "stream" /\ handler' \in HandlerType /\ handler'.at = "over"
           /\ open' = FALSE /\ active' = 0
           /\ outcome' \in {"running", "completed", "error"}
           /\ client' \in ClientType' /\ client'.left = client.left
           /\ client'.text = client.text /\ ~sse.pending
           /\ req.api \in OpenAI =>
                 /\ Ended /\ client'.ends = client.ends
                 /\ outcome' = outcome \/ Mark("completed")
           /\ req.api \notin OpenAI =>
                 Mark("completed") /\ client'.ends = Append(client.ends, "end")
  <1>1. client \in ClientType /\ outcome \in {"running", "completed", "error"} /\ SseFits
    BY ShapeTypes DEF Shape
  <1>2. \A e \in Ends_ : Append(client.ends, e) \in Seq(Ends_)
    BY <1>1 DEF ClientType
  <1>3. CASE PollTerminated
    <2>1. /\ UNCHANGED <<req, reply, sse, outcome, client, chan, logger, audit, errlog>>
          /\ handler.at = "stream" /\ sse.terminated
          /\ handler' = HandlerAt("over") /\ open' = FALSE /\ active' = 0
      BY <1>3 DEF PollTerminated, Close, traces
    <2>2. client' \in ClientType'
      BY <1>1, <2>1 DEF ClientType
    <2> QED BY <1>1, <2>1, <2>2, HandlerPlaces DEF Places, SseFits, Ended
  <1>4. CASE PollEnd /\ (req.api \notin OpenAI \/ sse.flag)
    <2>1. /\ UNCHANGED <<req, reply, sse, chan, logger, audit, errlog>>
          /\ handler.at = "stream" /\ ~sse.pending /\ handler' = HandlerAt("over")
          /\ open' = FALSE /\ active' = 0 /\ Mark("completed")
          /\ client' = IF req.api \in OpenAI THEN client
                       ELSE [client EXCEPT !.ends = Append(@, "end")]
      BY <1>4 DEF PollEnd, Close, traces
    <2>2. CASE req.api \in OpenAI
      <3>1. client' \in ClientType' /\ client' = client /\ sse.flag
        BY <1>1, <1>4, <2>1, <2>2 DEF ClientType
      <3>2. outcome' \in {"running", "completed", "error"}
        BY <1>1, <2>1 DEF Mark
      <3> QED BY <2>1, <2>2, <3>1, <3>2, HandlerPlaces DEF Places, Ended
    <2>3. CASE req.api \notin OpenAI
      <3>1. /\ client' \in ClientType' /\ client'.left = client.left
            /\ client'.text = client.text /\ client'.ends = Append(client.ends, "end")
        BY <1>1, <1>2, <2>1, <2>3 DEF ClientType, Ends_
      <3>2. outcome' \in {"running", "completed", "error"}
        BY <1>1, <2>1 DEF Mark
      <3> QED BY <2>1, <2>3, <3>1, <3>2, HandlerPlaces DEF Places
    <2> QED BY <2>2, <2>3
  <1> QED BY <1>3, <1>4 DEF Finish

LEMMA LeaveSteps ==
    ASSUME Shape, Leave
    PROVE  /\ UNCHANGED <<req, reply, sse, outcome, chan, logger, audit, errlog>>
           /\ handler.at = "stream" /\ handler' \in HandlerType /\ handler'.at = "over"
           /\ open' = FALSE /\ active' = 0
           /\ client' \in ClientType' /\ client'.left = TRUE
           /\ client'.text = client.text /\ client'.ends = client.ends
  <1>1. client \in ClientType
    BY ShapeTypes
  <1>2. /\ UNCHANGED <<req, reply, sse, outcome, chan, logger, audit, errlog>>
        /\ handler.at = "stream" /\ handler' = HandlerAt("over")
        /\ open' = FALSE /\ active' = 0
        /\ client' = [client EXCEPT !.left = TRUE]
    BY DEF Leave, Close, traces
  <1>3. client' \in ClientType' /\ client'.left = TRUE
        /\ client'.text = client.text /\ client'.ends = client.ends
    BY <1>1, <1>2 DEF ClientType
  <1> QED BY <1>2, <1>3, HandlerPlaces DEF Places

LEMMA DisconnectSteps ==
    ASSUME Shape, Disconnect
    PROVE  /\ UNCHANGED <<req, reply, sse, outcome, sent, chan, open, logger, audit, errlog>>
           /\ handler.at \in {"arrived", "send", "body", "next"}
           /\ handler' \in HandlerType /\ handler'.at = "over" /\ active' = 0
           /\ client' \in ClientType' /\ client'.left = TRUE
           /\ client'.text = client.text /\ client'.ends = client.ends
           /\ client'.orderly = client.orderly
  <1>1. client \in ClientType
    BY ShapeTypes
  <1>2. /\ UNCHANGED <<req, reply, sse, outcome, sent, chan, open, logger, audit, errlog>>
        /\ handler.at \in {"arrived", "send", "body", "next"}
        /\ handler' = HandlerAt("over") /\ active' = 0
        /\ client' = [client EXCEPT !.left = TRUE]
    BY DEF Disconnect, traces
  <1>3. client' \in ClientType' /\ client'.left = TRUE
        /\ client'.text = client.text /\ client'.ends = client.ends
        /\ client'.orderly = client.orderly
    BY <1>1, <1>2 DEF ClientType
  <1> QED BY <1>2, <1>3, HandlerPlaces DEF Places

LEMMA AnswerSteps ==
    ASSUME Shape, NEW m, NEW null, NEW usage, AnswerWhole(m, null, usage)
    PROVE  /\ UNCHANGED <<req, sse, outcome, chan, open, audit, errlog>>
           /\ handler.at = "body" /\ ~req.streaming
           /\ handler' \in HandlerType /\ handler'.at = "reply" /\ reply' = 200
           /\ client' \in ClientType' /\ client'.ends = <<"whole">>
           /\ client'.left = client.left
           /\ logger' \in LoggerType' /\ logger'.at = "whole"
           /\ logger'.text = client'.text /\ logger'.terminal = logger.terminal
  <1> DEFINE text == transform_message(apply_prefix_to_json(m, null), req.target)
  <1>1. client \in ClientType /\ logger \in LoggerType
    BY ShapeTypes
  <1>2. /\ UNCHANGED <<req, sse, outcome, chan, open, audit, errlog>>
        /\ handler.at = "body" /\ ~req.streaming
        /\ handler' = HandlerAt("reply") /\ reply' = 200
        /\ client' = [client EXCEPT !.text = text, !.ends = <<"whole">>]
        /\ logger' = [logger EXCEPT !.at = "whole", !.text = text]
    BY DEF AnswerWhole
  <1> HIDE DEF text
  <1>3. client' = [text |-> text, ends |-> <<"whole">>, left |-> client.left,
                   orderly |-> client.orderly]
    BY <1>1, <1>2 DEF ClientType
  <1>4. <<"whole">> \in Seq(Ends_)
    BY DEF Ends_
  <1>5. client' \in ClientType' /\ client'.ends = <<"whole">>
        /\ client'.left = client.left /\ client'.text = text
    BY <1>1, <1>3, <1>4 DEF ClientType
  <1>6. logger' = [at |-> "whole", text |-> text, some |-> logger.some,
                   failed |-> logger.failed, terminal |-> logger.terminal,
                   error |-> logger.error]
    BY <1>1, <1>2 DEF LoggerType
  <1>7. logger' \in LoggerType' /\ logger'.at = "whole"
        /\ logger'.text = text /\ logger'.terminal = logger.terminal
    BY <1>1, <1>6 DEF LoggerType
  <1> QED BY <1>2, <1>5, <1>7, HandlerPlaces DEF Places

(* The handler and the client are not concerned by what the logger does. *)
Served == UNCHANGED <<req, handler, reply, sse, outcome, client, open, errlog, active>>

LEMMA HearSteps ==
    ASSUME Shape, Hear
    PROVE  /\ Served /\ UNCHANGED audit
           /\ logger.at = "reading" /\ chan # <<>>
           /\ chan' = Tail(chan)
           /\ logger' \in LoggerType' /\ logger'.at \in {"reading", "closing"}
           /\ logger'.text = Put(logger.text, chan[1].d)
           /\ logger'.terminal = (logger.terminal \/ chan[1].kind = "final")
           /\ logger'.at = "closing" => req.api \notin OpenAI /\ logger'.terminal
  <1>1. logger \in LoggerType /\ IsSeq(chan)
    BY ShapeTypes DEF Shape
  <1>2. ASSUME NEW notable, NEW final, Receive(notable, final),
               final = {} \/ final = {"final"}
        PROVE  /\ Served /\ UNCHANGED audit
               /\ logger.at = "reading" /\ chan # <<>>
               /\ chan' = Tail(chan)
               /\ logger' \in LoggerType' /\ logger'.at \in {"reading", "closing"}
               /\ logger'.text = Put(logger.text, chan[1].d)
               /\ logger'.terminal = (logger.terminal \/ chan[1].kind = "final")
               /\ logger'.at = "closing" => final # {} /\ logger'.terminal
    <2> DEFINE e == chan[1]
    <2>1. Served /\ UNCHANGED audit /\ logger.at = "reading" /\ chan # <<>>
          /\ chan' = Tail(chan)
      BY <1>2 DEF Receive, Served, traces
    <2>2. Head(chan) = e
      BY <1>1, <2>1, SeqTail
    <2>3. logger' = [logger EXCEPT
              !.text = Put(@, e.d), !.some = @ \/ e.kind \in notable,
              !.failed = @ \/ e.kind = "sentinel", !.terminal = @ \/ e.kind = "final",
              !.at = IF e.kind \in final THEN "closing" ELSE @]
      BY <1>2, <2>2 DEF Receive
    <2> HIDE DEF e
    <2>4. logger' = [at |-> IF e.kind \in final THEN "closing" ELSE logger.at,
                     text |-> Put(logger.text, e.d),
                     some |-> logger.some \/ e.kind \in notable,
                     failed |-> logger.failed \/ e.kind = "sentinel",
                     terminal |-> logger.terminal \/ e.kind = "final",
                     error |-> logger.error]
      BY <1>1, <2>3 DEF LoggerType
    <2>5. /\ logger' \in LoggerType' /\ logger'.at \in {"reading", "closing"}
          /\ logger'.text = Put(logger.text, e.d)
          /\ logger'.terminal = (logger.terminal \/ e.kind = "final")
          /\ logger'.at = "closing" => e.kind \in final
      BY <1>1, <2>1, <2>4 DEF LoggerType
    <2>6. logger'.at = "closing" => final # {} /\ logger'.terminal
      BY <1>2, <2>5
    <2> QED BY <2>1, <2>5, <2>6 DEF e
  <1>3. CASE ReceiveChat
    BY <1>2, <1>3 DEF ReceiveChat
  <1>4. CASE ReceiveResponses
    BY <1>2, <1>4 DEF ReceiveResponses
  <1>5. CASE ReceiveAnthropic
    BY <1>2, <1>5 DEF ReceiveAnthropic, OpenAI
  <1> QED BY <1>3, <1>4, <1>5 DEF Hear

LEMMA VerdictSteps ==
    ASSUME Shape, LogVerdict
    PROVE  /\ Served /\ UNCHANGED <<audit, chan>>
           /\ logger.at = "closing" \/ (logger.at = "reading" /\ chan = <<>> /\ ~open)
           /\ logger' \in LoggerType' /\ logger'.at = "verdict"
           /\ logger'.text = logger.text /\ logger'.terminal = logger.terminal
  <1>1. logger \in LoggerType
    BY ShapeTypes
  <1>2. /\ Served /\ UNCHANGED <<audit, chan>>
        /\ logger.at = "closing" \/ (logger.at = "reading" /\ chan = <<>> /\ ~open)
        /\ logger' = [logger EXCEPT !.at = "verdict", !.error = outcome = "error"]
    BY DEF LogVerdict, Served, stream, traces
  <1>3. logger' = [at |-> "verdict", text |-> logger.text, some |-> logger.some,
                   failed |-> logger.failed, terminal |-> logger.terminal,
                   error |-> (outcome = "error")]
    BY <1>1, <1>2 DEF LoggerType
  <1>4. logger' \in LoggerType' /\ logger'.at = "verdict"
        /\ logger'.text = logger.text /\ logger'.terminal = logger.terminal
    BY <1>1, <1>3 DEF LoggerType
  <1> QED BY <1>2, <1>4

LEMMA RecordSteps ==
    ASSUME Shape, CountFits, Record \/ LogWhole
    PROVE  /\ Served /\ UNCHANGED chan
           /\ logger' \in LoggerType' /\ logger'.at = "done"
           /\ logger'.text = logger.text /\ logger'.terminal = logger.terminal
           /\ LogWhole => logger.at = "whole" /\ audit' = <<[status |-> 200, text |-> logger.text]>>
           /\ Record => logger.at = "verdict" /\
                 \/ audit' = <<>>
                 \/ \E terminal \in {FALSE, logger.terminal} :
                       /\ req.api \notin OpenAI => terminal = logger.terminal
                       /\ req.api \in OpenAI => terminal = FALSE
                       /\ audit' = <<[status |-> outcome_to_status(outcome, terminal),
                                      text |-> logger.text]>>
  <1>1. logger \in LoggerType
    BY ShapeTypes
  <1>2. logger.at # "done" => audit = <<>>
    BY DEF CountFits
  <1>3. logger' = [logger EXCEPT !.at = "done"]
    BY DEF Record, LogWhole, WriteChat, WriteResponses, WriteAnthropic, Write
  <1>4. /\ logger' \in LoggerType' /\ logger'.at = "done"
        /\ logger'.text = logger.text /\ logger'.terminal = logger.terminal
    BY <1>1, <1>3 DEF LoggerType
  <1>5. CASE LogWhole
    <2>1. Served /\ UNCHANGED chan /\ logger.at = "whole"
          /\ audit' = Append(audit, [status |-> 200, text |-> logger.text])
      BY <1>5 DEF LogWhole, Served, stream
    <2>2. audit' = <<[status |-> 200, text |-> logger.text]>>
      BY <1>2, <2>1
    <2>3. ~Record
      BY <2>1 DEF Record, WriteChat, WriteResponses, WriteAnthropic, Write
    <2> QED BY <1>4, <2>1, <2>2, <2>3
  <1>6. ASSUME NEW terminal, NEW success, Write(terminal, success)
        PROVE  /\ Served /\ UNCHANGED chan /\ logger.at = "verdict"
               /\ \/ audit' = <<>>
                  \/ audit' = <<[status |-> outcome_to_status(outcome, terminal),
                                 text |-> logger.text]>>
    <2>1. Served /\ UNCHANGED chan /\ logger.at = "verdict"
      BY <1>6 DEF Write, Served, stream
    <2>2. \/ audit' = audit
          \/ audit' = Append(audit, [status |-> outcome_to_status(outcome, terminal),
                                     text |-> logger.text])
      BY <1>6 DEF Write
    <2> QED BY <1>2, <2>1, <2>2
  <1>7. CASE Record
    <2>1. ~LogWhole
      BY <1>7 DEF Record, WriteChat, WriteResponses, WriteAnthropic, Write, LogWhole
    <2>2. CASE WriteChat
      BY <1>4, <1>6, <2>1, <2>2 DEF WriteChat
    <2>3. CASE WriteResponses \/ WriteAnthropic
      BY <1>4, <1>6, <2>1, <2>3 DEF WriteResponses, WriteAnthropic, OpenAI
    <2> QED BY <1>7, <2>2, <2>3 DEF Record
  <1> QED BY <1>5, <1>7

-----------------------------------------------------------------------------
(* The parts of the invariant, step by step.                               *)

LEMMA ShapeNext == Shape /\ CountFits /\ [Next]_vars => Shape'
  <1> SUFFICES ASSUME Shape, CountFits, [Next]_vars PROVE Shape'
    OBVIOUS
  <1>0. /\ logger \in LoggerType /\ client \in ClientType /\ sse \in SseType
        /\ req \in Requests /\ handler \in HandlerType /\ IsSeq(chan) /\ open \in BOOLEAN
        /\ outcome \in {"running", "completed", "error"} /\ SseFits
    BY ShapeTypes DEF Shape
  <1>1. /\ logger' = logger => logger' \in LoggerType'
        /\ client' = client => client' \in ClientType'
        /\ sse' = sse => sse' \in SseType'
        /\ sse' = sse /\ req' = req => SseFits'
    BY <1>0 DEF LoggerType, ClientType, SseType, SseFits
  <1>2. ASSUME req' = req, handler' \in HandlerType, sse' \in SseType', SseFits',
               outcome' \in {"running", "completed", "error"}, client' \in ClientType',
               IsSeq(chan'), open' \in BOOLEAN, logger' \in LoggerType'
        PROVE  Shape'
    BY <1>0, <1>2 DEF Shape, LoggerType, ClientType, SseType
  <1>3. CASE Early
    BY <1>0, <1>1, <1>2, <1>3, EarlySteps
  <1>4. CASE Start
    BY <1>0, <1>1, <1>2, <1>4, StartSteps
  <1>5. CASE Deliver
    BY <1>0, <1>1, <1>2, <1>5, DeliverSteps
  <1>6. CASE Finish
    BY <1>0, <1>1, <1>2, <1>6, EndSteps
  <1>7. CASE Leave
    BY <1>0, <1>1, <1>2, <1>7, LeaveSteps
  <1>d. CASE Disconnect
    BY <1>0, <1>1, <1>2, <1>d, DisconnectSteps
  <1>8. ASSUME NEW m, NEW null, NEW usage, AnswerWhole(m, null, usage) PROVE Shape'
    BY <1>0, <1>1, <1>2, <1>8, AnswerSteps
  <1>9. CASE Hear
    <2>1. IsSeq(chan')
      BY <1>0, <1>9, HearSteps, SeqTail
    <2> QED BY <1>0, <1>1, <1>2, <1>9, <2>1, HearSteps DEF Served
  <1>10. CASE LogVerdict
    BY <1>0, <1>1, <1>2, <1>10, VerdictSteps DEF Served
  <1>11. CASE Record \/ LogWhole
    BY <1>0, <1>1, <1>2, <1>11, RecordSteps DEF Served
  <1>12. CASE UNCHANGED vars
    BY <1>0, <1>1, <1>2, <1>12 DEF vars, stream
  <1> QED BY <1>3, <1>4, <1>5, <1>6, <1>7, <1>d, <1>8, <1>9, <1>10, <1>11, <1>12, NextSteps

LEMMA CountNext == Shape /\ CountFits /\ [Next]_vars => CountFits'
  <1> SUFFICES ASSUME Shape, CountFits, [Next]_vars PROVE CountFits'
    OBVIOUS
  <1>0. handler.at \in Places /\ (open <=> handler.at = "stream")
    BY DEF Shape, HandlerType, CountFits
  <1>1. CASE Early
    <2> USE <1>1, EarlySteps
    <2>1. /\ UNCHANGED <<req, open, logger, audit, client>> /\ handler.at # "stream"
          /\ handler'.at \in {"send", "body", "next", "reply", "over"}
      OBVIOUS
    <2>2. CASE handler'.at \in {"send", "body", "next"}
      <3>1. /\ handler.at \in {"arrived", "send", "body", "next"}
            /\ reply' = reply /\ errlog' = errlog
            /\ active' # 0 => handler'.last # 0
            /\ handler'.at = "body" =>
                  handler'.status # 0 /\ (req.streaming => handler'.status # 200)
        BY <2>2
      <3> QED BY <2>1, <2>2, <3>1 DEF CountFits
    <2>3. CASE handler'.at \in {"reply", "over"}
      <3>1. CASE /\ handler.at \in {"arrived", "send", "body", "next"}
                 /\ reply' \in {422, 400, 429, 500} /\ errlog' = errlog + 1
                 /\ handler'.at = "over" => active' = 0
        BY <2>1, <2>3, <3>1 DEF CountFits
      <3>2. CASE handler.at = "reply" /\ active' = 0 /\ reply' = reply /\ errlog' = errlog
        BY <2>1, <2>3, <3>2 DEF CountFits
      <3> QED BY <2>3, <3>1, <3>2
    <2> QED BY <2>1, <2>2, <2>3
  <1>2. CASE Start
    <2>1. /\ UNCHANGED <<req, audit>> /\ handler.at = "send" /\ req.streaming
          /\ handler'.at = "stream" /\ reply' = 200 /\ errlog' = 0 /\ open' = TRUE
          /\ logger'.at = "reading"
      BY <1>2, StartSteps
    <2> QED BY <2>1 DEF CountFits
  <1>3. CASE Deliver
    <2>1. /\ UNCHANGED <<req, handler, reply, open, logger, audit, errlog, active>>
          /\ client'.left = client.left
      BY <1>3, DeliverSteps
    <2> QED BY <2>1 DEF CountFits
  <1>4. CASE Finish \/ Leave
    <2>1. /\ UNCHANGED <<req, reply, logger, audit, errlog>> /\ handler.at = "stream"
          /\ handler'.at = "over" /\ open' = FALSE /\ active' = 0
      BY <1>4, EndSteps, LeaveSteps
    <2> QED BY <2>1 DEF CountFits
  <1>d. CASE Disconnect
    <2>1. /\ UNCHANGED <<req, reply, open, logger, audit, errlog>>
          /\ handler.at \in {"arrived", "send", "body", "next"}
          /\ handler'.at = "over" /\ active' = 0 /\ client'.left
      BY <1>d, DisconnectSteps
    <2> QED BY <2>1 DEF CountFits
  <1>5. ASSUME NEW m, NEW null, NEW usage, AnswerWhole(m, null, usage) PROVE CountFits'
    <2>1. /\ UNCHANGED <<req, open, audit, errlog>> /\ handler.at = "body"
          /\ ~req.streaming /\ handler'.at = "reply" /\ reply' = 200
          /\ logger'.at = "whole"
      BY <1>5, AnswerSteps
    <2> QED BY <2>1 DEF CountFits
  <1>6. CASE Hear \/ LogVerdict
    <2>1. /\ UNCHANGED <<req, handler, reply, open, errlog, active, audit, client>>
          /\ logger.at \in {"reading", "closing"}
          /\ logger'.at \in {"reading", "closing", "verdict"}
      BY <1>6, HearSteps, VerdictSteps DEF Served
    <2> QED BY <2>1 DEF CountFits
  <1>7. CASE Record \/ LogWhole
    <2>1. /\ UNCHANGED <<req, handler, reply, open, errlog, active, client>>
          /\ logger'.at = "done" /\ logger.at \in {"verdict", "whole"}
          /\ \/ audit' = <<>> /\ logger.at = "verdict"
             \/ \E r : audit' = <<r>>
      BY <1>7, RecordSteps DEF Served
    <2>2. (audit' = <<>> /\ req.streaming) \/ audit' = <<audit'[1]>>
      BY <2>1 DEF CountFits
    <2> QED BY <2>1, <2>2 DEF CountFits
  <1>8. CASE UNCHANGED vars
    BY <1>8 DEF vars, stream, traces, CountFits
  <1> QED BY <1>1, <1>2, <1>3, <1>4, <1>d, <1>5, <1>6, <1>7, <1>8, NextSteps

LEMMA EndsNext == Shape /\ CountFits /\ EndsFit /\ LoggerFits /\ [Next]_vars => EndsFit'
  <1> SUFFICES ASSUME Shape, CountFits, EndsFit, LoggerFits, [Next]_vars PROVE EndsFit'
    OBVIOUS
  <1>0. /\ handler.at \in Places /\ (open <=> handler.at = "stream") /\ IsSeq(chan)
        /\ client.ends \in Seq(Ends_)
        /\ outcome \in {"running", "completed", "error"}
        /\ handler.at = "stream" => req.streaming /\ logger.at # "none"
        /\ SseFits
    BY DEF Shape, HandlerType, CountFits
  <1>h. Early => handler'.at = "over" \/ handler.at # "over"
    <2> SUFFICES ASSUME Early PROVE handler'.at = "over" \/ handler.at # "over"
      OBVIOUS
    <2> QED BY EarlySteps
  <1>g. client'.ends = client.ends => EndsGiven' = EndsGiven
    BY DEF EndsGiven
  <1>1. CASE Early \/ UNCHANGED vars
    <2>1. /\ UNCHANGED <<req, sse, outcome, client, chan, open, logger>>
          /\ handler'.at # "over" => handler.at # "over"
      BY <1>1, <1>h, EarlySteps DEF vars, stream
    <2> QED BY <1>g, <2>1 DEF EndsFit
  <1>2. CASE Start
    <2>1. /\ UNCHANGED <<req, sse, outcome, client, chan>> /\ req.streaming
          /\ open' = TRUE /\ logger'.terminal = logger.terminal
          /\ handler.at # "over"
      BY <1>2, StartSteps
    <2> QED BY <1>g, <2>1 DEF EndsFit
  <1>3. CASE Deliver
    <2>0. /\ UNCHANGED <<req, handler, open, logger>> /\ handler.at = "stream"
          /\ req.streaming /\ open /\ open'
          /\ req.api \in OpenAI => ChatText /\ ChatEnds
          /\ req.api \notin OpenAI => OtherEnds
      BY <1>0, <1>3, DeliverSteps
    <2>c. ASSUME NEW e, chan' = Append(chan, e)
          PROVE  /\ Len(chan') = Len(chan) + 1 /\ Len(chan) \in Nat
                 /\ \A k \in 1..Len(chan) : chan'[k] = chan[k]
                 /\ chan'[Len(chan) + 1] = e
      BY <1>0, <2>c, SeqAppend DEF IsSeq
    <2>1. CASE req.api \in OpenAI
      <3>1. \A k \in 1..Len(chan') : chan'[k].kind # "final"
        <4>1. CASE UNCHANGED chan
          BY <2>0, <2>1, <4>1 DEF EndsFit
        <4>2. ASSUME NEW kind \in {"delta", "bad", "sentinel"}, NEW d,
                     chan' = Append(chan, Event(kind, d))
              PROVE  \A k \in 1..Len(chan') : chan'[k].kind # "final"
          <5>1. Event(kind, d).kind # "final"
            BY DEF Event
          <5>2. \A k \in 1..Len(chan) : chan[k].kind # "final"
            BY <2>0, <2>1 DEF EndsFit
          <5> QED BY <2>c, <4>2, <5>1, <5>2
        <4> QED BY <2>0, <2>1, <4>1, <4>2 DEF ChatText
      <3>e. /\ outcome = "running" <=> client.ends = <<>> /\ ~sse.pending
            /\ outcome = "completed" => client.ends = <<>> \/ client.ends[1] = "done"
            /\ outcome = "error" => client.ends # <<>> /\ client.ends[1] = "error"
            /\ Ended <=> outcome # "running"
            /\ "whole" \notin EndsGiven /\ ~logger.terminal
        BY <2>0, <2>1 DEF EndsFit, Ended
      <3>f. ASSUME /\ outcome' = "running" <=> client'.ends = <<>> /\ ~sse'.pending
                   /\ outcome' = "completed" => client'.ends = <<>> \/ client'.ends[1] = "done"
                   /\ outcome' = "error" => client'.ends # <<>> /\ client'.ends[1] = "error"
                   /\ Ended' <=> outcome' # "running"
                   /\ "whole" \notin EndsGiven'
            PROVE  EndsFit'
        BY <2>0, <2>1, <3>1, <3>e, <3>f DEF EndsFit, Ended
      <3>2. CASE /\ client'.ends = client.ends /\ outcome' = outcome /\ Ended' = Ended
                 /\ sse'.pending = sse.pending
        BY <1>g, <3>2, <3>e, <3>f
      <3>3. ASSUME NEW e \in {<<"done", "completed">>, <<"error", "error">>},
                   client'.ends = Append(client.ends, e[1]), Mark(e[2]), Ended',
                   ~sse.pending, ~sse'.pending
            PROVE  EndsFit'
        <4>1. e[1] \in {"done", "error"} /\ e[1] \in Ends_ /\ e[1] # "whole"
              /\ e[2] = (IF e[1] = "done" THEN "completed" ELSE "error")
          BY DEF Ends_
        <4>2. /\ client'.ends # <<>> /\ EndsGiven' = EndsGiven \cup {e[1]}
              /\ client.ends # <<>> => client'.ends[1] = client.ends[1]
              /\ client.ends = <<>> => client'.ends[1] = e[1]
          BY <3>3, <4>1, EndAdded
        <4>3. /\ client.ends = <<>> => outcome' = e[2]
              /\ client.ends # <<>> => outcome' = outcome /\ outcome # "running"
          BY <3>3, <3>e DEF Mark
        <4>4. "whole" \notin EndsGiven'
          BY <3>e, <4>1, <4>2
        <4>5. outcome' # "running"
          BY <4>1, <4>3
        <4> QED BY <3>3, <3>e, <3>f, <4>1, <4>2, <4>3, <4>4, <4>5
      <3>4. CASE /\ client'.ends = client.ends /\ Mark("completed") /\ Ended'
                 /\ ~sse.pending /\ sse'.pending
        <4>1. outcome' # "running" /\ (outcome # "running" => outcome' = outcome)
              /\ (outcome = "running" => outcome' = "completed")
          BY <1>0, <3>4 DEF Mark
        <4> QED BY <1>g, <3>4, <3>e, <3>f, <4>1
      <3>5. CASE /\ client'.ends = Append(client.ends, "done") /\ outcome' = outcome
                 /\ Ended' = Ended /\ sse.pending /\ ~sse'.pending
        <4>1. /\ client'.ends # <<>> /\ EndsGiven' = EndsGiven \cup {"done"}
              /\ client.ends # <<>> => client'.ends[1] = client.ends[1]
              /\ client.ends = <<>> => client'.ends[1] = "done"
          BY <3>5, EndAdded DEF Ends_
        <4> QED BY <3>5, <3>e, <3>f, <4>1
      <3> QED BY <2>0, <2>1, <3>2, <3>3, <3>4, <3>5 DEF ChatEnds
    <2>2. CASE req.api \notin OpenAI
      <3>0. /\ outcome = "running" => EndsGiven \subseteq {"final"}
            /\ outcome = "completed" => "end" \in EndsGiven
            /\ outcome = "error" => "error" \in EndsGiven
            /\ "done" \notin EndsGiven /\ "whole" \notin EndsGiven
            /\ "final" \in EndsGiven <=>
                  logger.terminal \/ \E k \in 1..Len(chan) : chan[k].kind = "final"
        BY <2>0, <2>2 DEF EndsFit
      <3>1. ASSUME NEW kind \in {"start", "final", "bad", "delta"}, NEW d,
                   UNCHANGED outcome, chan' = Append(chan, Event(kind, d)),
                   client'.ends = IF kind = "final" THEN Append(client.ends, "final")
                                  ELSE client.ends
            PROVE  EndsFit'
        <4>1. EndsGiven' = EndsGiven \cup (IF kind = "final" THEN {"final"} ELSE {})
          BY <1>g, <3>1, EndAdded DEF Ends_
        <4>2. (\E k \in 1..Len(chan') : chan'[k].kind = "final") <=>
                 kind = "final" \/ \E k \in 1..Len(chan) : chan[k].kind = "final"
          <5>1. Event(kind, d).kind = kind
            BY DEF Event
          <5>2. \A k \in 1..Len(chan') : k \in 1..Len(chan) \/ k = Len(chan) + 1
            BY <2>c, <3>1
          <5>3. \A k \in 1..Len(chan) : k \in 1..Len(chan')
            BY <2>c, <3>1
          <5>4. Len(chan) + 1 \in 1..Len(chan')
            BY <2>c, <3>1
          <5> QED BY <2>c, <3>1, <5>1, <5>2, <5>3, <5>4
        <4> QED BY <2>0, <2>2, <3>0, <3>1, <4>1, <4>2 DEF EndsFit
      <3>2. CASE /\ UNCHANGED chan /\ Mark("error")
                 /\ client'.ends = Append(client.ends, "error")
        <4>1. EndsGiven' = EndsGiven \cup {"error"}
          BY <3>2, EndAdded DEF Ends_
        <4>2. outcome' = "error" \/ (outcome' = outcome /\ outcome # "running")
          BY <3>2 DEF Mark
        <4> QED BY <2>0, <2>2, <3>0, <3>2, <4>1, <4>2 DEF EndsFit
      <3> QED BY <2>0, <2>2, <3>1, <3>2 DEF OtherEnds
    <2> QED BY <2>1, <2>2
  <1>4. CASE Finish
    <2>0. /\ UNCHANGED <<req, sse, chan, logger>> /\ handler.at = "stream"
          /\ handler'.at = "over" /\ req.streaming /\ ~sse.pending
      BY <1>0, <1>4, EndSteps
    <2>2. CASE req.api \notin OpenAI
      <3>1. Mark("completed") /\ client'.ends = Append(client.ends, "end")
        BY <1>4, <2>2, EndSteps
      <3>2. outcome' \in {"completed", "error"} /\ (outcome # "running" => outcome' = outcome)
            /\ (outcome = "running" => outcome' = "completed")
        BY <1>0, <3>1 DEF Mark
      <3>3. EndsGiven' = EndsGiven \cup {"end"}
        BY <3>1, EndAdded DEF Ends_
      <3> QED BY <2>0, <2>2, <3>2, <3>3 DEF EndsFit
    <2>3. CASE req.api \in OpenAI
      <3>1. Ended /\ client'.ends = client.ends /\ (outcome' = outcome \/ Mark("completed"))
        BY <1>4, <2>3, EndSteps
      <3>2. outcome # "running"
        BY <2>0, <2>3, <3>1 DEF EndsFit, Ended
      <3>3. outcome' = outcome
        BY <3>1, <3>2 DEF Mark
      <3> QED BY <1>g, <2>0, <2>3, <3>1, <3>2, <3>3 DEF EndsFit
    <2> QED BY <2>2, <2>3
  <1>5. CASE Leave
    <2>1. /\ UNCHANGED <<req, sse, outcome, chan, logger>> /\ handler.at = "stream"
          /\ handler'.at = "over" /\ client'.left = TRUE /\ client'.ends = client.ends
      BY <1>5, LeaveSteps
    <2> QED BY <1>0, <1>g, <2>1 DEF EndsFit
  <1>d. CASE Disconnect
    <2>1. /\ UNCHANGED <<req, sse, outcome, chan, logger>> /\ handler.at # "over"
          /\ handler'.at = "over" /\ client'.left = TRUE /\ client'.ends = client.ends
      BY <1>d, DisconnectSteps
    <2> QED BY <1>0, <1>g, <2>1 DEF EndsFit
  <1>6. ASSUME NEW m, NEW null, NEW usage, AnswerWhole(m, null, usage) PROVE EndsFit'
    <2>1. UNCHANGED <<req, chan, sse>> /\ ~req.streaming /\ client'.ends = <<"whole">>
      BY <1>6, AnswerSteps
    <2> QED BY <2>1 DEF EndsFit
  <1>7. CASE Hear
    <2>0. /\ UNCHANGED <<req, handler, sse, outcome, client, open>> /\ chan # <<>>
          /\ chan' = Tail(chan)
          /\ logger'.terminal = (logger.terminal \/ chan[1].kind = "final")
          /\ logger.at # "none"
      BY <1>7, HearSteps DEF Served
    <2>1. /\ Len(chan) \in Nat \ {0} /\ Len(chan') = Len(chan) - 1
          /\ \A k \in 1..(Len(chan) - 1) : chan'[k] = chan[k + 1]
      BY <1>0, <2>0, SeqTail
    <2>2. (\E k \in 1..Len(chan) : chan[k].kind = "final") <=>
             chan[1].kind = "final" \/ \E k \in 1..Len(chan') : chan'[k].kind = "final"
      <3>1. \A k \in 1..Len(chan') : k + 1 \in 1..Len(chan) /\ chan'[k] = chan[k + 1]
        BY <2>1
      <3>2. \A k \in 1..Len(chan) : k = 1 \/ (k - 1 \in 1..Len(chan') /\ chan'[k - 1] = chan[k])
        BY <2>1
      <3>3. 1 \in 1..Len(chan)
        BY <2>1
      <3> QED BY <3>1, <3>2, <3>3
    <2>3. req.streaming
      BY <2>0 DEF EndsFit
    <2> QED BY <1>0, <1>g, <2>0, <2>2, <2>3 DEF EndsFit
  <1>8. CASE LogVerdict \/ Record \/ LogWhole
    <2>1. /\ UNCHANGED <<req, handler, sse, outcome, client, chan, open>>
          /\ logger'.terminal = logger.terminal /\ logger.at # "none"
      BY <1>8, VerdictSteps, RecordSteps DEF Served
    <2> QED BY <1>g, <2>1 DEF EndsFit
  <1> QED BY <1>1, <1>2, <1>3, <1>4, <1>5, <1>d, <1>6, <1>7, <1>8, NextSteps

LEMMA LoggerNext ==
    Shape /\ CountFits /\ EndsFit /\ LoggerFits /\ [Next]_vars => LoggerFits'
  <1> SUFFICES ASSUME Shape, CountFits, EndsFit, LoggerFits, [Next]_vars
               PROVE  LoggerFits'
    OBVIOUS
  <1>0. /\ open <=> handler.at = "stream"
        /\ logger.at # "done" => audit = <<>>
        /\ handler.at \in {"send", "body"} => logger.at = "none"
        /\ logger.at = "whole" => ~req.streaming
    BY DEF CountFits
  <1>1. CASE Early \/ Disconnect \/ UNCHANGED vars
    <2>1. UNCHANGED <<req, chan, open, logger, audit>>
      BY <1>1, EarlySteps, DisconnectSteps DEF vars, stream, traces
    <2> QED BY <2>1 DEF LoggerFits
  <1>2. CASE Start
    BY <1>0, <1>2, StartSteps DEF LoggerFits
  <1>3. CASE Deliver
    <2>1. UNCHANGED <<req, open, logger, audit>> /\ handler.at = "stream"
      BY <1>3, DeliverSteps
    <2> QED BY <1>0, <2>1 DEF LoggerFits
  <1>4. CASE Finish \/ Leave
    <2>1. UNCHANGED <<req, chan, logger, audit>> /\ open' = FALSE
      BY <1>4, EndSteps, LeaveSteps
    <2> QED BY <2>1 DEF LoggerFits
  <1>5. ASSUME NEW m, NEW null, NEW usage, AnswerWhole(m, null, usage) PROVE LoggerFits'
    <2>1. UNCHANGED <<req, audit>> /\ ~req.streaming /\ logger'.at = "whole"
      BY <1>5, AnswerSteps
    <2> QED BY <2>1 DEF LoggerFits
  <1>6. CASE Hear
    <2>1. /\ UNCHANGED <<req, open, audit>> /\ logger.at = "reading"
          /\ logger'.at \in {"reading", "closing"}
          /\ logger'.at = "closing" => logger'.terminal
      BY <1>6, HearSteps DEF Served
    <2> QED BY <1>0, <2>1 DEF LoggerFits
  <1>7. CASE LogVerdict
    <2>1. /\ UNCHANGED <<req, open, audit, chan>>
          /\ logger.at = "closing" \/ (logger.at = "reading" /\ chan = <<>> /\ ~open)
          /\ logger'.at = "verdict" /\ logger'.terminal = logger.terminal
      BY <1>7, VerdictSteps DEF Served
    <2> QED BY <1>0, <2>1 DEF LoggerFits
  <1>8. CASE LogWhole
    <2>1. UNCHANGED req /\ logger.at = "whole" /\ logger'.at = "done"
      BY <1>8, RecordSteps DEF Served
    <2> QED BY <1>0, <2>1 DEF LoggerFits
  <1>9. CASE Record
    <2>1. /\ UNCHANGED <<req, open, chan>> /\ logger.at = "verdict"
          /\ logger'.at = "done" /\ logger'.terminal = logger.terminal
      BY <1>9, RecordSteps DEF Served
    <2>2. /\ req.streaming /\ audit' # <<>> /\ audit'[1].status = 499 => ~open
      <3> SUFFICES ASSUME req.streaming, audit' # <<>>, audit'[1].status = 499
                   PROVE  ~open
        OBVIOUS
      <3>1. PICK terminal \in {FALSE, logger.terminal} :
               /\ req.api \notin OpenAI => terminal = logger.terminal
               /\ req.api \in OpenAI => terminal = FALSE
               /\ audit' = <<[status |-> outcome_to_status(outcome, terminal),
                              text |-> logger.text]>>
        BY <1>9, RecordSteps
      <3>2. outcome_to_status(outcome, terminal) = 499
        BY <3>1
      <3>3. ~terminal
        BY <3>2 DEF outcome_to_status
      <3>4. ~logger.terminal
        BY <3>1, <3>3 DEF EndsFit
      <3> QED BY <2>1, <3>4 DEF LoggerFits
    <2> QED BY <2>1, <2>2 DEF LoggerFits
  <1> QED BY <1>1, <1>2, <1>3, <1>4, <1>5, <1>6, <1>7, <1>8, <1>9, NextSteps

(* The chain that TextChain speaks of, for a channel and its two ends. *)
Chain(c, from, to, t) ==
    /\ t[1] = from /\ t[Len(c) + 1] = to
    /\ \A k \in 1..Len(c) : t[k + 1] = Put(t[k], c[k].d)

LEMMA TextChains == TextChain <=> \E t : Chain(chan, logger.text, client.text, t)
  BY DEF TextChain, Chain

(* A piece of text that is put at the end of the channel and given to the  *)
(* client makes the chain longer, and so does one that the logger takes.   *)
LEMMA ChainAppend ==
    ASSUME NEW c, IsSeq(c), NEW e, NEW from, NEW to, NEW t, Chain(c, from, to, t)
    PROVE  \E u : Chain(Append(c, e), from, Put(to, e.d), u)
  <1> DEFINE u == [k \in 1..Len(c) + 2 |-> IF k = Len(c) + 2 THEN Put(to, e.d) ELSE t[k]]
  <1>1. /\ Len(c) \in Nat /\ Len(Append(c, e)) = Len(c) + 1
        /\ \A k \in 1..Len(c) : Append(c, e)[k] = c[k]
        /\ Append(c, e)[Len(c) + 1] = e
    BY SeqAppend DEF IsSeq
  <1>2. u[1] = from /\ u[Len(c) + 2] = Put(to, e.d) /\ u[Len(c) + 1] = to
    BY <1>1 DEF Chain
  <1>3. \A k \in 1..Len(c) : u[k] = t[k] /\ u[k + 1] = t[k + 1]
    BY <1>1
  <1>4. \A k \in 1..Len(c) : t[k + 1] = Put(t[k], c[k].d)
    BY DEF Chain
  <1> HIDE DEF u
  <1>5. ASSUME NEW k \in 1..(Len(c) + 1)
        PROVE  u[k + 1] = Put(u[k], Append(c, e)[k].d)
    <2>1. CASE k \in 1..Len(c)
      BY <1>1, <1>3, <1>4, <2>1
    <2>2. CASE k = Len(c) + 1
      <3>1. k + 1 = Len(c) + 2
        BY <1>1, <2>2
      <3> QED BY <1>1, <1>2, <2>2, <3>1
    <2> QED BY <1>1, <2>1, <2>2
  <1>6. Len(Append(c, e)) + 1 = Len(c) + 2
    BY <1>1
  <1> QED BY <1>1, <1>2, <1>5, <1>6 DEF Chain

LEMMA ChainTail ==
    ASSUME NEW c, IsSeq(c), c # <<>>, NEW from, NEW to, NEW t, Chain(c, from, to, t)
    PROVE  \E u : Chain(Tail(c), Put(from, c[1].d), to, u)
  <1> DEFINE u == [k \in 1..Len(c) |-> t[k + 1]]
  <1>1. /\ Len(c) \in Nat \ {0} /\ Len(Tail(c)) = Len(c) - 1
        /\ \A k \in 1..(Len(c) - 1) : Tail(c)[k] = c[k + 1]
    BY SeqTail
  <1>2. t[1] = from /\ t[Len(c) + 1] = to
        /\ \A k \in 1..Len(c) : t[k + 1] = Put(t[k], c[k].d)
    BY DEF Chain
  <1>3. u[1] = Put(from, c[1].d)
    BY <1>1, <1>2
  <1>4. Len(Tail(c)) + 1 = Len(c) /\ u[Len(c)] = to
    BY <1>1, <1>2
  <1>5. ASSUME NEW k \in 1..(Len(c) - 1)
        PROVE  u[k + 1] = Put(u[k], Tail(c)[k].d)
    <2>1. k + 1 \in 1..Len(c) /\ k \in 1..Len(c)
      BY <1>1
    <2>2. u[k + 1] = t[(k + 1) + 1] /\ u[k] = t[k + 1] /\ Tail(c)[k] = c[k + 1]
      BY <1>1, <2>1
    <2> QED BY <1>2, <2>1, <2>2
  <1> HIDE DEF u
  <1> QED BY <1>1, <1>3, <1>4, <1>5 DEF Chain

LEMMA TextNext == Shape /\ CountFits /\ TextFits /\ [Next]_vars => TextFits'
  <1> SUFFICES ASSUME Shape, CountFits, TextFits, [Next]_vars PROVE TextFits'
    OBVIOUS
  <1>0. /\ handler.at \in {"send", "body", "stream"} => logger.at \notin {"whole", "done"}
                                                        \/ req.streaming
        /\ handler.at \in {"send", "body"} => logger.at = "none"
        /\ logger.at # "done" => audit = <<>>
        /\ logger.at = "whole" => ~req.streaming
        /\ logger.at \in {"reading", "closing", "verdict"} => req.streaming
        /\ handler.at = "stream" => req.streaming
    BY DEF CountFits
  <1>1. IsSeq(chan)
    BY DEF Shape
  <1>c. TextChain' <=> \E t : Chain(chan', logger'.text, client'.text, t)
    BY DEF TextChain, Chain
  <1>u. ASSUME UNCHANGED <<chan>>, logger'.text = logger.text, client'.text = client.text,
               TextChain
        PROVE  TextChain'
    BY <1>c, <1>u, TextChains
  <1>2. CASE Early \/ UNCHANGED vars
    <2>1. UNCHANGED <<req, chan, logger, audit, client>>
      BY <1>2, EarlySteps DEF vars, stream, traces
    <2> QED BY <1>u, <2>1 DEF TextFits
  <1>d. CASE Disconnect
    <2>1. /\ UNCHANGED <<req, chan, logger, audit>> /\ client'.text = client.text
      BY <1>d, DisconnectSteps
    <2> QED BY <1>u, <2>1 DEF TextFits
  <1>3. CASE Start
    <2>1. /\ UNCHANGED <<req, client, chan, audit>> /\ handler.at = "send"
          /\ logger'.text = logger.text /\ req.streaming
      BY <1>3, StartSteps
    <2> QED BY <1>0, <1>u, <2>1 DEF TextFits
  <1>4. CASE Deliver
    <2>1. /\ UNCHANGED <<req, logger, audit>> /\ req.streaming
          /\ req.api \in OpenAI => ChatText
      BY <1>0, <1>4, DeliverSteps
    <2>2. ASSUME req.api \in OpenAI PROVE TextChain'
      <3>1. CASE UNCHANGED chan /\ client'.text = client.text
        BY <1>u, <2>1, <2>2, <3>1 DEF TextFits
      <3>2. CASE ~(UNCHANGED chan /\ client'.text = client.text)
        <4>1. PICK kind, d : chan' = Append(chan, Event(kind, d))
                             /\ client'.text = Put(client.text, d)
          BY <2>1, <2>2, <3>2 DEF ChatText
        <4>2. PICK t : Chain(chan, logger.text, client.text, t)
          BY <2>1, <2>2, TextChains DEF TextFits
        <4>3. Event(kind, d).d = d
          BY DEF Event
        <4>4. \E u : Chain(chan', logger.text, Put(client.text, d), u)
          BY <1>1, <4>1, <4>2, <4>3, ChainAppend
        <4> QED BY <1>c, <2>1, <4>1, <4>4
      <3> QED BY <3>1, <3>2
    <2> QED BY <2>1, <2>2 DEF TextFits
  <1>5. CASE Finish \/ Leave
    <2>1. /\ UNCHANGED <<req, chan, logger, audit>> /\ client'.text = client.text
      BY <1>5, EndSteps, LeaveSteps
    <2> QED BY <1>u, <2>1 DEF TextFits
  <1>6. ASSUME NEW m, NEW null, NEW usage, AnswerWhole(m, null, usage) PROVE TextFits'
    <2>1. /\ UNCHANGED <<req, audit>> /\ handler.at = "body" /\ ~req.streaming
          /\ logger'.text = client'.text
      BY <1>6, AnswerSteps
    <2> QED BY <1>0, <2>1 DEF TextFits
  <1>7. CASE Hear
    <2>1. /\ UNCHANGED <<req, audit, client>> /\ logger.at = "reading"
          /\ chan # <<>> /\ chan' = Tail(chan)
          /\ logger'.text = Put(logger.text, chan[1].d)
      BY <1>7, HearSteps DEF Served
    <2>2. ASSUME req.api \in OpenAI PROVE TextChain'
      <3>1. PICK t : Chain(chan, logger.text, client.text, t)
        BY <1>0, <2>1, <2>2, TextChains DEF TextFits
      <3>2. \E u : Chain(chan', logger'.text, client.text, u)
        BY <1>1, <2>1, <3>1, ChainTail
      <3> QED BY <1>c, <2>1, <3>2
    <2> QED BY <1>0, <2>1, <2>2 DEF TextFits
  <1>8. CASE LogVerdict
    <2>1. /\ UNCHANGED <<req, audit, client, chan>> /\ logger'.text = logger.text
          /\ logger'.at = "verdict"
      BY <1>8, VerdictSteps DEF Served
    <2> QED BY <1>u, <2>1 DEF TextFits
  <1>9. CASE Record \/ LogWhole
    <2>1. /\ UNCHANGED <<req, client, chan>> /\ logger'.text = logger.text
          /\ logger.at \in {"verdict", "whole"}
      BY <1>9, RecordSteps DEF Served
    <2>2. audit' # <<>> => audit'[1].text = logger.text
      <3>1. CASE LogWhole
        <4>1. audit' = <<[status |-> 200, text |-> logger.text]>>
          BY <3>1, RecordSteps
        <4> QED BY <4>1
      <3>2. CASE Record
        <4>1. \/ audit' = <<>>
              \/ \E s : audit' = <<[status |-> s, text |-> logger.text]>>
          BY <3>2, RecordSteps
        <4> QED BY <4>1
      <3> QED BY <1>9, <3>1, <3>2
    <2> QED BY <1>0, <1>u, <2>1, <2>2 DEF TextFits
  <1> QED BY <1>2, <1>d, <1>3, <1>4, <1>5, <1>6, <1>7, <1>8, <1>9, NextSteps

(* What the status of a stream's record stands for. *)
Judged == IF req.api \in OpenAI /\ client.ends # <<>> THEN {client.ends[1]} ELSE EndsGiven

Told(s) == /\ s = 499 => client.left /\ Judged = {}
           /\ s = 502 => "error" \in Judged
           /\ s = 200 => Judged \ {"error"} # {} \/ (client.left /\ sse.pending)

LEMMA VerdictTold ==
    ASSUME client.ends \in Seq(Ends_), audit = <<>> \/ audit = <<audit[1]>>
    PROVE  VerdictTruthful <=> (req.streaming /\ audit # <<>> => Told(audit[1].status))
  <1> DEFINE Ends1 == IF req.api \in OpenAI /\ client.ends # <<>> THEN {Head(client.ends)}
                      ELSE EndsGiven
             Told1(s) == /\ s = 499 => client.left /\ Ends1 = {}
                         /\ s = 502 => "error" \in Ends1
                         /\ s = 200 => Ends1 \ {"error"} # {} \/ (client.left /\ sse.pending)
  <1>1. VerdictTruthful <=> (req.streaming => \A k \in 1..Len(audit) : Told1(audit[k].status))
    BY Zenon DEF VerdictTruthful
  <1>2. Ends1 = Judged
    BY DEF Judged
  <1> HIDE DEF Ends1
  <1>3. \A s : Told(s) <=> Told1(s)
    BY <1>2 DEF Told
  <1> HIDE DEF Told1
  <1>4. CASE audit = <<>>
    BY <1>1, <1>4
  <1>5. CASE audit = <<audit[1]>>
    <2>1. PICK a : audit = <<a>>
      BY <1>5
    <2>2. 1..Len(audit) = {1} /\ audit # <<>>
      BY <2>1
    <2> QED BY <1>1, <1>3, <2>2
  <1> QED BY <1>4, <1>5

(* Another end does not change what a record stands for, unless the client *)
(* was recorded to have left without one.                                  *)
LEMMA ToldStill ==
    ASSUME Shape, req' = req, NEW e \in Ends_, client'.left = client.left,
           client'.ends = client.ends \/ client'.ends = Append(client.ends, e),
           NEW s, s # 499, ~sse.pending, Told(s)
    PROVE  Told(s)'
  <1>1. CASE client'.ends = client.ends
    <2>1. EndsGiven' = EndsGiven
      BY <1>1 DEF EndsGiven
    <2>2. Judged' = Judged
      BY <1>1, <2>1 DEF Judged
    <2> QED BY <2>2 DEF Told
  <1>2. CASE client'.ends = Append(client.ends, e)
    <2>1. /\ client'.ends # <<>> /\ EndsGiven' = EndsGiven \cup {e}
          /\ client.ends # <<>> => client'.ends[1] = client.ends[1]
          /\ client.ends = <<>> => EndsGiven = {}
      BY <1>2, EndAdded
    <2>2. Judged \subseteq Judged'
      BY <2>1 DEF Judged
    <2> QED BY <2>2 DEF Told
  <1> QED BY <1>1, <1>2

LEMMA VerdictNext == IInv /\ Shape' /\ CountFits' /\ [Next]_vars => VerdictTruthful'
  <1> SUFFICES ASSUME IInv, Shape', CountFits', [Next]_vars PROVE VerdictTruthful'
    OBVIOUS
  <1>i. Shape /\ CountFits /\ EndsFit /\ LoggerFits
    BY DEF IInv
  <1>0. /\ open <=> handler.at = "stream"
        /\ logger.at # "done" => audit = <<>>
        /\ handler.at = "send" => logger.at = "none"
        /\ logger.at = "whole" => ~req.streaming
        /\ audit = <<>> \/ audit = <<audit[1]>>
        /\ client.ends \in Seq(Ends_)
    BY <1>i DEF CountFits, Shape
  <1>w. (audit = <<>> \/ audit = <<audit[1]>>)' /\ (client.ends \in Seq(Ends_))'
    BY DEF CountFits, Shape
  <1>t. req.streaming /\ audit # <<>> => Told(audit[1].status)
    BY <1>0, VerdictTold DEF IInv
  <1>v. SUFFICES (req.streaming /\ audit # <<>> => Told(audit[1].status))'
    <2>1. (client.ends \in Seq(Ends_) /\ (audit = <<>> \/ audit = <<audit[1]>>)
             => (VerdictTruthful <=>
                   (req.streaming /\ audit # <<>> => Told(audit[1].status))))'
      BY VerdictTold, PTL
    <2> QED BY <1>w, <2>1
  <1>1. ASSUME UNCHANGED <<req, client, sse, audit>>
        PROVE  (req.streaming /\ audit # <<>> => Told(audit[1].status))'
    <2>1. EndsGiven' = EndsGiven
      BY <1>1 DEF EndsGiven
    <2>2. Judged' = Judged
      BY <1>1, <2>1 DEF Judged
    <2> QED BY <1>1, <1>t, <2>2 DEF Told
  <1>2. CASE Early \/ UNCHANGED vars
    BY <1>i, <1>1, <1>2, EarlySteps DEF vars, stream, traces
  <1>3. CASE Start
    BY <1>i, <1>0, <1>3, StartSteps
  <1>4. CASE Deliver \/ Finish
    <2>1. /\ UNCHANGED <<req, audit>> /\ handler.at = "stream" /\ client'.left = client.left
      BY <1>i, <1>4, DeliverSteps, EndSteps
    <2>2. \E e \in Ends_ :
             client'.ends = client.ends \/ client'.ends = Append(client.ends, e)
      <3>1. CASE Deliver /\ req.api \in OpenAI
        <4>1. client'.ends = client.ends \/ client'.ends = Append(client.ends, "done")
                 \/ client'.ends = Append(client.ends, "error")
          <5>1. ASSUME NEW e \in {<<"done", "completed">>, <<"error", "error">>}
                PROVE  e[1] = "done" \/ e[1] = "error"
            OBVIOUS
          <5> QED BY <1>i, <3>1, <5>1, DeliverSteps DEF ChatEnds
        <4> QED BY <4>1 DEF Ends_
      <3>2. CASE Deliver /\ req.api \notin OpenAI
        <4>1. client'.ends = client.ends \/ client'.ends = Append(client.ends, "final")
                 \/ client'.ends = Append(client.ends, "error")
          BY <1>i, <3>2, DeliverSteps DEF OtherEnds
        <4> QED BY <4>1 DEF Ends_
      <3>3. CASE Finish
        BY <1>i, <3>3, EndSteps DEF Ends_
      <3> QED BY <1>4, <3>1, <3>2, <3>3
    <2>3. ASSUME req.streaming, audit # <<>> PROVE Told(audit[1].status)'
      <3>1. Told(audit[1].status) /\ audit[1].status # 499
        BY <1>i, <1>0, <1>t, <2>1, <2>3 DEF LoggerFits
      <3>p. ~sse.pending
        <4>1. logger.terminal
          BY <1>i, <1>0, <2>1, <2>3 DEF LoggerFits
        <4>2. req.api \notin OpenAI
          BY <1>i, <2>3, <4>1 DEF EndsFit
        <4> QED BY <1>i, <4>2 DEF Shape, SseFits
      <3>2. PICK s : s = audit[1].status
        OBVIOUS
      <3>3. Told(s) /\ s # 499 /\ (audit[1].status)' = s
        BY <2>1, <3>1, <3>2
      <3>4. PICK e \in Ends_ :
               client'.ends = client.ends \/ client'.ends = Append(client.ends, e)
        BY <2>2
      <3>5. Told(s)'
        BY <1>i, <2>1, <3>p, <3>3, <3>4, ToldStill
      <3> QED BY <3>3, <3>5 DEF Told
    <2> QED BY <2>1, <2>3
  <1>5. CASE Leave
    <2>1. /\ UNCHANGED <<req, sse, audit>> /\ client'.left = TRUE /\ client'.ends = client.ends
      BY <1>i, <1>5, LeaveSteps
    <2>2. EndsGiven' = EndsGiven
      BY <2>1 DEF EndsGiven
    <2>3. Judged' = Judged
      BY <2>1, <2>2 DEF Judged
    <2> QED BY <1>t, <2>1, <2>3 DEF Told
  <1>d. CASE Disconnect
    <2>1. logger.at = "none" /\ audit' = audit
      BY <1>i, <1>d, DisconnectSteps DEF CountFits
    <2> QED BY <1>0, <2>1
  <1>6. ASSUME NEW m, NEW null, NEW usage, AnswerWhole(m, null, usage)
        PROVE  (req.streaming /\ audit # <<>> => Told(audit[1].status))'
    BY <1>i, <1>6, AnswerSteps
  <1>7. CASE Hear \/ LogVerdict
    BY <1>i, <1>1, <1>7, HearSteps, VerdictSteps DEF Served
  <1>8. CASE LogWhole
    BY <1>i, <1>0, <1>8, RecordSteps DEF Served
  <1>9. CASE Record
    <2>1. /\ UNCHANGED <<req, client, sse, handler>> /\ logger.at = "verdict"
      BY <1>i, <1>9, RecordSteps DEF Served
    <2>2. ASSUME req.streaming, audit' # <<>> PROVE Told(audit[1].status)'
      <3>1. PICK terminal \in {FALSE, logger.terminal} :
               /\ req.api \notin OpenAI => terminal = logger.terminal
               /\ req.api \in OpenAI => terminal = FALSE
               /\ audit' = <<[status |-> outcome_to_status(outcome, terminal),
                              text |-> logger.text]>>
        BY <1>i, <1>9, <2>2, RecordSteps
      <3>2. audit'[1].status = outcome_to_status(outcome, terminal)
        BY <3>1
      <3>3. /\ logger.terminal \/ (chan = <<>> /\ ~open)
            /\ ~open => client.left \/ outcome # "running"
        BY <1>i, <2>1, <2>2 DEF LoggerFits, EndsFit
      <3>4. outcome \in {"running", "completed", "error"} /\ logger.terminal \in BOOLEAN
        BY <1>i DEF Shape
      <3>5. EndsGiven' = EndsGiven
        BY <2>1 DEF EndsGiven
      <3>6. Judged' = Judged
        BY <2>1, <3>5 DEF Judged
      <3>7. Told(outcome_to_status(outcome, terminal))
        <4>1. CASE req.api \in OpenAI
          <5>1. /\ ~terminal /\ ~open /\ ~logger.terminal
                /\ outcome = "running" <=> client.ends = <<>> /\ ~sse.pending
                /\ outcome = "completed" => client.ends = <<>> \/ client.ends[1] = "done"
                /\ outcome = "error" => client.ends # <<>> /\ client.ends[1] = "error"
                /\ sse.pending => client.left
            BY <1>i, <2>2, <3>1, <3>3, <4>1 DEF EndsFit
          <5>2. client.ends = <<>> => EndsGiven = {}
            BY DEF EndsGiven
          <5>3. CASE outcome = "running"
            <6>1. Judged = {} /\ client.left /\ outcome_to_status(outcome, terminal) = 499
              BY <3>3, <5>1, <5>2, <5>3 DEF Judged, outcome_to_status
            <6> QED BY <6>1 DEF Told
          <5>4. CASE outcome = "completed"
            <6>1. outcome_to_status(outcome, terminal) = 200
              BY <5>4 DEF outcome_to_status
            <6>2. CASE client.ends # <<>>
              <7>1. Judged = {"done"}
                BY <4>1, <5>1, <5>4, <6>2 DEF Judged
              <7> QED BY <6>1, <7>1 DEF Told
            <6>3. CASE client.ends = <<>>
              BY <5>1, <5>4, <6>1, <6>3 DEF Told
            <6> QED BY <6>2, <6>3
          <5>5. CASE outcome = "error"
            <6>1. Judged = {"error"} /\ outcome_to_status(outcome, terminal) = 502
              BY <4>1, <5>1, <5>5 DEF Judged, outcome_to_status
            <6> QED BY <6>1 DEF Told
          <5> QED BY <3>4, <5>3, <5>4, <5>5
        <4>2. CASE req.api \notin OpenAI
          <5>1. /\ outcome = "running" => EndsGiven \subseteq {"final"}
                /\ outcome = "completed" => "end" \in EndsGiven
                /\ outcome = "error" => "error" \in EndsGiven
                /\ "final" \in EndsGiven <=>
                      logger.terminal \/ \E k \in 1..Len(chan) : chan[k].kind = "final"
                /\ terminal = logger.terminal /\ Judged = EndsGiven
            BY <1>i, <2>2, <3>1, <4>2 DEF EndsFit, Judged
          <5>2. CASE outcome = "error"
            <6>1. outcome_to_status(outcome, terminal) = 502
              BY <5>2 DEF outcome_to_status
            <6> QED BY <5>1, <5>2, <6>1 DEF Told
          <5>3. CASE outcome = "completed"
            <6>1. outcome_to_status(outcome, terminal) = 200
              BY <5>3 DEF outcome_to_status
            <6> QED BY <5>1, <5>3, <6>1 DEF Told
          <5>4. CASE outcome = "running" /\ logger.terminal
            <6>1. outcome_to_status(outcome, terminal) = 200 /\ "final" \in Judged
              BY <5>1, <5>4 DEF outcome_to_status
            <6> QED BY <6>1 DEF Told
          <5>5. CASE outcome = "running" /\ ~logger.terminal
            <6>1. outcome_to_status(outcome, terminal) = 499
              BY <5>1, <5>5 DEF outcome_to_status
            <6>2. chan = <<>> /\ client.left
              BY <3>3, <5>5
            <6>3. "final" \notin EndsGiven
              BY <5>1, <5>5, <6>2, SeqEmpty
            <6> QED BY <5>1, <5>5, <6>1, <6>2, <6>3 DEF Told
          <5> QED BY <3>4, <5>2, <5>3, <5>4, <5>5
        <4> QED BY <4>1, <4>2
      <3> QED BY <2>1, <3>2, <3>6, <3>7 DEF Told
    <2> QED BY <2>1, <2>2
  <1> QED BY <1>2, <1>3, <1>4, <1>5, <1>d, <1>6, <1>7, <1>8, <1>9, <1>i, NextSteps

LEMMA InitInv == Init => IInv
  <1> SUFFICES ASSUME Init PROVE IInv
    OBVIOUS
  <1>1. Shape
    <2>1. handler \in HandlerType
      BY HandlerPlaces DEF Init, Places
    <2>2. IsSeq(chan)
      BY SeqEmpty DEF Init
    <2>3. /\ client.ends = <<>>
          /\ sse \in [tf : {sse.tf}, prefixed : BOOLEAN, flag : BOOLEAN,
                      pending : BOOLEAN, terminated : BOOLEAN, events : Int]
          /\ SseFits
          /\ client \in [text : {client.text}, ends : Seq(Ends_), left : BOOLEAN,
                         orderly : BOOLEAN]
          /\ logger \in [at : {"none", "whole", "reading", "closing", "verdict", "done"},
                         text : {logger.text}, some : BOOLEAN, failed : BOOLEAN,
                         terminal : BOOLEAN, error : BOOLEAN]
      BY DEF Init, SseFits
    <2> QED BY <2>1, <2>2, <2>3 DEF Init, Shape
  <1>2. /\ handler.at = "arrived" /\ handler.last = 0 /\ client.ends = <<>> /\ chan = <<>>
        /\ logger.at = "none" /\ ~logger.terminal /\ ~open /\ audit = <<>> /\ ~sse.flag
        /\ ~sse.pending /\ ~sse.terminated
        /\ outcome = "running" /\ logger.text = NoText /\ client.text = NoText
        /\ reply = 0 /\ errlog = 0 /\ active = 0
    BY DEF Init, HandlerAt
  <1>3. CountFits
    BY <1>2 DEF CountFits
  <1>4. EndsGiven = {}
    BY <1>2 DEF EndsGiven
  <1>5. EndsFit
    BY <1>2, <1>4, SeqEmpty DEF EndsFit
  <1>6. LoggerFits
    BY <1>2 DEF LoggerFits
  <1>7. TextChain
    <2> DEFINE t == [k \in 1..1 |-> NoText]
    <2>1. Chain(chan, logger.text, client.text, t)
      BY <1>2, SeqEmpty DEF Chain
    <2> QED BY <2>1, TextChains
  <1>8. TextFits
    BY <1>2, <1>7 DEF TextFits
  <1>9. VerdictTruthful
    <2>1. Len(audit) = 0
      BY <1>2, SeqEmpty
    <2> QED BY <2>1 DEF VerdictTruthful
  <1> QED BY <1>1, <1>3, <1>5, <1>6, <1>8, <1>9 DEF IInv

LEMMA NextInv == IInv /\ [Next]_vars => IInv'
  <1> SUFFICES ASSUME IInv, [Next]_vars PROVE IInv'
    OBVIOUS
  <1>1. Shape /\ CountFits /\ EndsFit /\ LoggerFits /\ TextFits
    BY DEF IInv
  <1>2. Shape' /\ CountFits' /\ EndsFit' /\ LoggerFits' /\ TextFits'
    BY <1>1, ShapeNext, CountNext, EndsNext, LoggerNext, TextNext
  <1>3. VerdictTruthful'
    BY <1>2, VerdictNext
  <1> QED BY <1>2, <1>3 DEF IInv

LEMMA Invariance == Spec => []IInv
  BY InitInv, NextInv, PTL DEF Spec

-----------------------------------------------------------------------------
(* What is promised.                                                       *)

(* A request that has run its course has a record or a line in the error   *)
(* log, and never both; only a stream of status 200 may leave neither, and *)
(* a request whose client left before there was an answer leaves neither;  *)
(* and no guard is left in ACTIVE_REQUESTS.                                *)
THEOREM RequestsCountedOnce == Spec => []CountedOnce
  <1>1. ASSUME IInv PROVE CountedOnce
    <2> SUFFICES ASSUME Settled
                 PROVE  /\ Len(audit) + errlog <= 1
                        /\ reply = 0 => client.left /\ Len(audit) + errlog = 0
                        /\ reply # 0 /\ (~req.streaming \/ reply # 200) =>
                              Len(audit) + errlog = 1
                        /\ active = 0
      BY DEF CountedOnce
    <2>1. CountFits /\ handler.at = "over" /\ logger.at \in {"none", "done"}
      BY <1>1 DEF IInv, Settled
    <2>2. Len(audit) = IF audit = <<>> THEN 0 ELSE 1
      <3>1. CASE audit = <<>>
        BY <3>1, SeqEmpty
      <3>2. CASE audit # <<>>
        <4>1. PICK a : audit = <<a>>
          BY <2>1, <3>2 DEF CountFits
        <4> QED BY <3>2, <4>1
      <3> QED BY <3>1, <3>2
    <2>3. CASE reply \in {422, 400, 429, 500} /\ errlog = 1 /\ logger.at = "none"
      BY <2>1, <2>2, <2>3 DEF CountFits
    <2>4. CASE reply = 200 /\ errlog = 0 /\ logger.at # "none"
      BY <2>1, <2>2, <2>4 DEF CountFits
    <2>5. CASE reply = 0 /\ errlog = 0 /\ logger.at = "none" /\ client.left
      BY <2>1, <2>2, <2>5 DEF CountFits
    <2> QED BY <2>1, <2>3, <2>4, <2>5 DEF CountFits
  <1> QED BY <1>1, Invariance, PTL

(* The record of a stream has the status of what its client experienced,   *)
(* however far the logger is behind when the client leaves or an end is    *)
(* given.                                                                  *)
THEOREM VerdictsTruthful == Spec => []VerdictTruthful
  <1>1. IInv => VerdictTruthful
    BY DEF IInv
  <1> QED BY <1>1, Invariance, PTL

(* The record of an answer that was given to its end has the text that the *)
(* client was given: nothing is lost in the channel.                       *)
THEOREM RecordsAsServed == Spec => []RecordedAsServed
  <1>1. ASSUME IInv PROVE RecordedAsServed
    <2> SUFFICES ASSUME Settled, audit # <<>>, EndsGiven \cap {"done", "whole"} # {}
                 PROVE  audit[1].text = client.text
      BY DEF RecordedAsServed
    <2>0. Shape /\ CountFits /\ EndsFit /\ LoggerFits /\ TextFits
      BY <1>1 DEF IInv
    <2>1. logger.at = "done" /\ audit[1].text = logger.text
      BY <2>0 DEF CountFits, TextFits
    <2>2. CASE ~req.streaming
      BY <2>0, <2>1, <2>2 DEF TextFits
    <2>3. CASE req.streaming
      <3>1. req.api \in OpenAI
        BY <2>0, <2>3 DEF EndsFit
      <3>2. chan = <<>>
        BY <2>0, <2>1, <2>3, <3>1 DEF EndsFit, LoggerFits
      <3>3. PICK t : Chain(chan, logger.text, client.text, t)
        BY <2>0, <2>3, <3>1, TextChains DEF TextFits
      <3>4. logger.text = client.text
        BY <3>2, <3>3, SeqEmpty DEF Chain
      <3> QED BY <2>1, <3>4
    <2> QED BY <2>2, <2>3
  <1> QED BY <1>1, Invariance, PTL

-----------------------------------------------------------------------------
(* Recursion on a size that is a natural number.                           *)

LEMMA LeastNatural ==
    ASSUME NEW S, S \subseteq Nat, S # {}
    PROVE  \E m \in S : \A k \in S : m <= k
  <1> DEFINE Below == {p \in Nat \X Nat : p[1] < p[2]}
  <1>1. Below = OpToRel(<, Nat)
    BY DEF OpToRel
  <1>2. IsWellFoundedOn(Below, Nat)
    BY <1>1, NatLessThanWellFounded
  <1>3. \A k, m \in Nat : k < m => <<k, m>> \in Below
    OBVIOUS
  <1> HIDE DEF Below
  <1>4. PICK m \in S : \A k \in S : ~(<<k, m>> \in Below)
    BY <1>2, WFMin
  <1>5. ASSUME NEW k \in S PROVE ~(k < m)
    <2>1. ~(<<k, m>> \in Below)
      BY <1>4
    <2> QED BY <2>1, <1>3
  <1>6. \A k \in S : m <= k
    BY <1>5
  <1> QED BY <1>6

(* Induction on a size.                                                    *)
LEMMA SizeInduction ==
    ASSUME NEW D, NEW size \in [D -> Nat], NEW S,
           \A t \in D : (\A u \in D : size[u] < size[t] => u \in S) => t \in S
    PROVE  D \subseteq S
  <1> DEFINE B == {t \in D : t \notin S}
             Z == {size[t] : t \in B}
  <1>1. SUFFICES ASSUME B # {} PROVE FALSE
    OBVIOUS
  <1>2. Z \subseteq Nat /\ Z # {}
    BY <1>1
  <1>3. PICK m \in Z : \A l \in Z : m <= l
    BY <1>2, LeastNatural
  <1>4. PICK t \in B : size[t] = m
    BY <1>3
  <1>5. ASSUME NEW u \in D, size[u] < size[t] PROVE u \in S
    <2>1. ASSUME u \in B PROVE FALSE
      <3>1. size[u] \in Z /\ size[u] \in Nat /\ m \in Nat
        BY <1>2, <1>3, <2>1
      <3>2. m <= size[u]
        BY <1>3, <3>1
      <3> QED BY <1>4, <1>5, <3>1, <3>2
    <2> QED BY <2>1
  <1>6. t \in S
    BY <1>4, <1>5
  <1> QED BY <1>4, <1>6

(* f is made by recursion on a size: next is smaller, and comb makes the   *)
(* value of t from that of next.                                           *)
Follows(f, D, C, stop, base, next, comb) ==
    /\ f \in [D -> C]
    /\ \A t \in D : f[t] = IF t \in stop THEN base[t] ELSE comb[<<t, f[next[t]]>>]

LEMMA SizeRecursion ==
    ASSUME NEW D, NEW size \in [D -> Nat], NEW C, NEW stop, NEW base \in [D -> C],
           NEW next \in [D -> D], NEW comb \in [D \X C -> C],
           \A t \in D : t \notin stop => size[next[t]] < size[t]
    PROVE  \E f : Follows(f, D, C, stop, base, next, comb)
  <1> DEFINE Upto(n) == {t \in D : size[t] < n}
             Good(g, n) == /\ g \in [Upto(n) -> C]
                           /\ \A t \in Upto(n) :
                                 g[t] = IF t \in stop THEN base[t]
                                        ELSE comb[<<t, g[next[t]]>>]
  <1>1. ASSUME NEW g, NEW h, NEW n \in Nat, NEW k \in Nat, Good(g, n), Good(h, k),
               NEW t \in D, size[t] < n, size[t] < k
        PROVE  g[t] = h[t]
    <2> DEFINE B == {u \in D : size[u] < n /\ size[u] < k /\ g[u] # h[u]}
               Z == {size[u] : u \in B}
    <2>1. SUFFICES ASSUME B # {} PROVE FALSE
      BY <1>1
    <2>2. Z \subseteq Nat /\ Z # {}
      BY <2>1
    <2>3. PICK m \in Z : \A l \in Z : m <= l
      BY <2>2, LeastNatural
    <2>4. PICK u \in B : size[u] = m
      BY <2>3
    <2>5. u \notin stop
      BY <1>1, <2>4
    <2>6. next[u] \in D /\ size[next[u]] \in Nat /\ size[next[u]] < size[u] /\ size[u] \in Nat
      BY <2>4, <2>5
    <2>7. next[u] \notin B
      <3>1. ASSUME next[u] \in B PROVE FALSE
        <4>1. size[next[u]] \in Z
          BY <3>1
        <4>2. m <= size[next[u]]
          BY <2>3, <4>1
        <4> QED BY <2>4, <2>6, <4>2
      <3> QED BY <3>1
    <2>8. g[next[u]] = h[next[u]]
      BY <2>4, <2>6, <2>7
    <2>9. g[u] = comb[<<u, g[next[u]]>>] /\ h[u] = comb[<<u, h[next[u]]>>]
      BY <1>1, <2>4, <2>5
    <2> QED BY <2>4, <2>8, <2>9
  <1>2. \A n \in Nat : \E g : Good(g, n)
    <2> DEFINE Bad == {n \in Nat : ~\E g : Good(g, n)}
    <2>1. SUFFICES ASSUME Bad # {} PROVE FALSE
      OBVIOUS
    <2>2. PICK m \in Bad : \A l \in Bad : m <= l
      <3>1. Bad \subseteq Nat
        OBVIOUS
      <3> HIDE DEF Bad
      <3> QED BY <2>1, <3>1, LeastNatural
    <2>3. m \in Nat /\ ~\E g : Good(g, m)
      BY <2>2
    <2>4. CASE m = 0
      <3>1. Upto(0) = {}
        OBVIOUS
      <3> DEFINE g == [t \in {} |-> t]
      <3>2. g \in [{} -> C]
        OBVIOUS
      <3>3. Good(g, 0)
        BY <3>1, <3>2
      <3> QED BY <2>3, <2>4, <3>3
    <2>5. CASE m # 0
      <3>1. m - 1 \in Nat /\ ~(m <= m - 1)
        BY <2>3, <2>5
      <3>2. m - 1 \notin Bad
        BY <2>2, <3>1
      <3>3. PICK g : Good(g, m - 1)
        BY <3>1, <3>2
      <3> DEFINE h == [t \in Upto(m) |-> IF t \in stop THEN base[t]
                                        ELSE comb[<<t, g[next[t]]>>]]
      <3>4. ASSUME NEW t \in Upto(m), t \notin stop
            PROVE  /\ next[t] \in Upto(m - 1) /\ next[t] \in Upto(m)
                   /\ h[next[t]] = g[next[t]] /\ g[next[t]] \in C
        <4>1. /\ t \in D /\ size[t] \in Nat /\ size[t] < m /\ next[t] \in D
              /\ size[next[t]] \in Nat /\ size[next[t]] < size[t]
          BY <3>4
        <4>2. next[t] \in Upto(m - 1) /\ next[t] \in Upto(m)
          BY <2>3, <4>1
        <4>3. g[next[t]] = IF next[t] \in stop THEN base[next[t]]
                           ELSE comb[<<next[t], g[next[next[t]]]>>]
          BY <3>3, <4>2
        <4>4. g[next[t]] \in C
          BY <3>3, <4>2
        <4> QED BY <4>2, <4>3, <4>4
      <3>5. h \in [Upto(m) -> C]
        <4>1. ASSUME NEW t \in Upto(m)
              PROVE  (IF t \in stop THEN base[t] ELSE comb[<<t, g[next[t]]>>]) \in C
          BY <3>4
        <4> HIDE DEF Good, Upto
        <4> QED BY <4>1
      <3>6. ASSUME NEW t \in Upto(m)
            PROVE  h[t] = IF t \in stop THEN base[t] ELSE comb[<<t, h[next[t]]>>]
        BY <3>4
      <3>7. Good(h, m)
        <4> HIDE DEF h
        <4> QED BY <3>5, <3>6
      <3> QED BY <2>3, <3>7
    <2> QED BY <2>4, <2>5
  <1> DEFINE F(n) == CHOOSE g : Good(g, n)
             f == [t \in D |-> F(size[t] + 1)[t]]
  <1>3. \A n \in Nat : Good(F(n), n)
    <2> HIDE DEF Good
    <2> QED BY <1>2
  <1> HIDE DEF F
  <1>4. ASSUME NEW t \in D
        PROVE  /\ f[t] \in C
               /\ f[t] = IF t \in stop THEN base[t] ELSE comb[<<t, f[next[t]]>>]
    <2>1. size[t] \in Nat /\ size[t] + 1 \in Nat /\ size[t] < size[t] + 1
      OBVIOUS
    <2>2. Good(F(size[t] + 1), size[t] + 1)
      BY <1>3, <2>1
    <2>3. /\ f[t] = F(size[t] + 1)[t] /\ F(size[t] + 1)[t] \in C
          /\ f[t] = IF t \in stop THEN base[t]
                    ELSE comb[<<t, F(size[t] + 1)[next[t]]>>]
      BY <2>1, <2>2
    <2>4. ASSUME t \notin stop
          PROVE  f[next[t]] = F(size[t] + 1)[next[t]]
      <3>1. /\ next[t] \in D /\ size[next[t]] \in Nat /\ size[next[t]] + 1 \in Nat
            /\ size[next[t]] < size[t] + 1 /\ size[next[t]] < size[next[t]] + 1
        BY <2>1, <2>4
      <3>2. Good(F(size[next[t]] + 1), size[next[t]] + 1)
        BY <1>3, <3>1
      <3>3. F(size[next[t]] + 1)[next[t]] = F(size[t] + 1)[next[t]]
        <4> HIDE DEF Good
        <4> QED BY <1>1, <2>1, <2>2, <3>1, <3>2
      <3> QED BY <3>1, <3>3
    <2> QED BY <2>3, <2>4
  <1>5. f \in [D -> C]
    BY <1>4
  <1> HIDE DEF f
  <1>6. Follows(f, D, C, stop, base, next, comb)
    BY <1>4, <1>5 DEF Follows
  <1> QED BY <1>6

-----------------------------------------------------------------------------
(* Texts.                                                                  *)

Text == Seq(Characters)
Tags == {OpenTag, CloseTag}

LEMMA TagsAre ==
    ASSUME NEW tag \in Tags
    PROVE  /\ tag \in Text /\ Len(tag) = 2 /\ tag[1] = "<" /\ tag[2] # "<"
           /\ tag[1] \in Characters /\ tag[2] \in Characters /\ tag = <<tag[1], tag[2]>>
  <1>1. PICK c \in {"t", "/"} : tag = <<"<", c>>
    BY DEF Tags, OpenTag, CloseTag
  <1>2. "<" \in Characters /\ c \in Characters /\ c # "<"
    BY <1>1, CharactersAssumption
  <1>3. tag[1] = "<" /\ tag[2] = c /\ Len(tag) = 2
    BY <1>1
  <1>4. tag \in Seq(Characters)
    BY <1>1, <1>2
  <1> QED BY <1>1, <1>2, <1>3, <1>4 DEF Text

LEMMA TextIs ==
    ASSUME NEW t \in Text
    PROVE  /\ Len(t) \in Nat /\ t \in [1..Len(t) -> Characters]
           /\ t = <<>> <=> Len(t) = 0
  BY EmptySeq, LenProperties DEF Text

LEMMA SameText ==
    ASSUME NEW s \in Text, NEW t \in Text, Len(s) = Len(t),
           \A k \in 1..Len(s) : s[k] = t[k]
    PROVE  s = t
  BY SeqEqual DEF Text

LEMMA Cats ==
    ASSUME NEW s \in Text, NEW t \in Text
    PROVE  /\ s \o t \in Text /\ Len(s \o t) = Len(s) + Len(t)
           /\ \A k \in 1..Len(s) : (s \o t)[k] = s[k]
           /\ \A k \in 1..Len(t) : (s \o t)[Len(s) + k] = t[k]
           /\ s \o <<>> = s /\ <<>> \o s = s /\ <<>> \in Text
           /\ (s \o t = <<>> <=> s = <<>> /\ t = <<>>)
  <1>1. s \in Seq(Characters) /\ t \in Seq(Characters) /\ Len(s) \in Nat /\ Len(t) \in Nat
    BY TextIs DEF Text
  <1>2. /\ s \o t \in Text /\ Len(s \o t) = Len(s) + Len(t)
        /\ \A i \in 1 .. Len(s) + Len(t) : (s \o t)[i] =
              IF i <= Len(s) THEN s[i] ELSE t[i - Len(s)]
    BY <1>1, ConcatProperties DEF Text
  <1>3. \A k \in 1..Len(s) : (s \o t)[k] = s[k]
    BY <1>1, <1>2
  <1>4. ASSUME NEW k \in 1..Len(t) PROVE (s \o t)[Len(s) + k] = t[k]
    <2>1. /\ Len(s) + k \in 1 .. Len(s) + Len(t) /\ ~(Len(s) + k <= Len(s))
          /\ Len(s) + k - Len(s) = k
      BY <1>1
    <2> QED BY <1>2, <2>1
  <1>5. /\ s \o <<>> = s /\ <<>> \o s = s /\ <<>> \in Text
        /\ (s \o t = <<>> <=> s = <<>> /\ t = <<>>)
    BY <1>1, ConcatEmptySeq, ConcatEqualIffEmpty, EmptySeq DEF Text
  <1> QED BY <1>2, <1>3, <1>4, <1>5

LEMMA CatsGroup ==
    ASSUME NEW s \in Text, NEW t \in Text, NEW u \in Text
    PROVE  (s \o t) \o u = s \o (t \o u)
  BY ConcatAssociative DEF Text

(* The parts of a text before and from a place.                            *)
LEMMA Parts ==
    ASSUME NEW t \in Text, NEW n \in Nat, n <= Len(t)
    PROVE  /\ SubSeq(t, 1, n) \in Text /\ Len(SubSeq(t, 1, n)) = n
           /\ \A k \in 1..n : SubSeq(t, 1, n)[k] = t[k]
           /\ From(t, n + 1) \in Text /\ Len(From(t, n + 1)) = Len(t) - n
           /\ \A k \in 1..(Len(t) - n) : From(t, n + 1)[k] = t[n + k]
           /\ SubSeq(t, 1, n) \o From(t, n + 1) = t
  <1>1. Len(t) \in Nat /\ \A k \in 1..Len(t) : t[k] \in Characters
    BY TextIs
  <1>2. /\ 1 \in Int /\ n \in Int /\ n + 1 \in Int /\ Len(t) \in Int
        /\ (\A k \in 1..n : t[k] \in Characters)
        /\ (\A k \in (n + 1)..Len(t) : t[k] \in Characters)
    BY <1>1
  <1>3. /\ SubSeq(t, 1, n) \in Seq(Characters)
        /\ Len(SubSeq(t, 1, n)) = IF 1 <= n THEN n - 1 + 1 ELSE 0
        /\ \A k \in 1..(n - 1 + 1) : SubSeq(t, 1, n)[k] = t[1 + k - 1]
    BY <1>2, SubSeqProperties
  <1>4. /\ From(t, n + 1) \in Seq(Characters)
        /\ Len(From(t, n + 1)) = IF n + 1 <= Len(t) THEN Len(t) - (n + 1) + 1 ELSE 0
        /\ \A k \in 1..(Len(t) - (n + 1) + 1) : From(t, n + 1)[k] = t[n + 1 + k - 1]
    BY <1>2, SubSeqProperties DEF From
  <1>5. /\ Len(SubSeq(t, 1, n)) = n /\ \A k \in 1..n : SubSeq(t, 1, n)[k] = t[k]
    BY <1>3
  <1>6. /\ Len(From(t, n + 1)) = Len(t) - n
        /\ \A k \in 1..(Len(t) - n) : From(t, n + 1)[k] = t[n + k]
    BY <1>1, <1>4
  <1>7. SubSeq(t, 1, n) \o From(t, n + 1) = t
    <2> DEFINE a == SubSeq(t, 1, n)
               b == From(t, n + 1)
    <2>1. /\ a \in Text /\ b \in Text /\ Len(a) = n /\ Len(b) = Len(t) - n
          /\ (\A k \in 1..n : a[k] = t[k]) /\ \A k \in 1..(Len(t) - n) : b[k] = t[n + k]
      BY <1>3, <1>4, <1>5, <1>6 DEF Text
    <2> HIDE DEF a, b
    <2>2. a \o b \in Text /\ Len(a \o b) = Len(t)
      <3>1. a \o b \in Text /\ Len(a \o b) = Len(a) + Len(b)
        BY <2>1, Cats
      <3>2. Len(a) + Len(b) = Len(t)
        BY <1>1, <2>1
      <3> QED BY <3>1, <3>2
    <2>3. ASSUME NEW k \in 1..Len(t) PROVE (a \o b)[k] = t[k]
      <3>1. CASE k <= n
        BY <2>1, <3>1, Cats
      <3>2. CASE ~(k <= n)
        <4> DEFINE l == k - n
        <4>1. l \in 1..(Len(t) - n) /\ n + l = k
          BY <1>1, <3>2
        <4> HIDE DEF l
        <4>2. (a \o b)[Len(a) + l] = b[l] /\ b[l] = t[n + l]
          BY <2>1, <4>1, Cats
        <4> QED BY <2>1, <4>1, <4>2
      <3> QED BY <3>1, <3>2
    <2>4. a \o b = t
      BY <2>2, <2>3, SameText
    <2> QED BY <2>4 DEF a, b
  <1>8. SubSeq(t, 1, n) \in Text /\ From(t, n + 1) \in Text
    BY <1>3, <1>4 DEF Text
  <1> QED BY <1>5, <1>6, <1>7, <1>8

(* The parts of two texts put together.                                    *)
LEMMA EndsOfCat ==
    ASSUME NEW s \in Text, NEW t \in Text, NEW n \in Nat
    PROVE  /\ n <= Len(s) => /\ SubSeq(s \o t, 1, n) = SubSeq(s, 1, n)
                             /\ From(s \o t, n + 1) = From(s, n + 1) \o t
           /\ n <= Len(t) => /\ SubSeq(s \o t, 1, Len(s) + n) = s \o SubSeq(t, 1, n)
                             /\ From(s \o t, Len(s) + n + 1) = From(t, n + 1)
  <1> DEFINE w == s \o t
  <1>0. Len(s) \in Nat /\ Len(t) \in Nat /\ w \in Text /\ Len(w) = Len(s) + Len(t)
    BY TextIs, Cats
  <1>1. ASSUME n <= Len(s)
        PROVE  /\ SubSeq(w, 1, n) = SubSeq(s, 1, n)
               /\ From(w, n + 1) = From(s, n + 1) \o t
    <2> DEFINE a == SubSeq(w, 1, n)
               b == SubSeq(s, 1, n)
               c == From(w, n + 1)
               d == From(s, n + 1)
    <2>1. n <= Len(w)
      BY <1>0, <1>1
    <2>10. w = s \o t
      OBVIOUS
    <2> HIDE DEF w
    <2>9. /\ a \in Text /\ Len(a) = n /\ \A k \in 1..n : a[k] = w[k]
          /\ c \in Text /\ Len(c) = Len(w) - n
          /\ \A k \in 1..(Len(w) - n) : c[k] = w[n + k]
      BY <1>0, <2>1, Parts
    <2>2. /\ a \in Text /\ Len(a) = n /\ \A k \in 1..n : a[k] = w[k]
          /\ c \in Text /\ Len(c) = Len(s) + Len(t) - n
          /\ \A k \in 1..(Len(s) + Len(t) - n) : c[k] = w[n + k]
      <3> HIDE DEF a, c
      <3> QED BY <1>0, <2>9
    <2>3. /\ b \in Text /\ Len(b) = n /\ \A k \in 1..n : b[k] = s[k]
          /\ d \in Text /\ Len(d) = Len(s) - n /\ \A k \in 1..(Len(s) - n) : d[k] = s[n + k]
      BY <1>1, Parts
    <2> HIDE DEF a, b, c, d
    <2>4. a = b
      <3>1. ASSUME NEW k \in 1..n PROVE a[k] = b[k]
        <4>1. k \in 1..Len(s)
          BY <1>0, <1>1
        <4> QED BY <2>2, <2>3, <2>10, <4>1, Cats
      <3> QED BY <2>2, <2>3, <3>1, SameText
    <2>5. d \o t \in Text /\ Len(d \o t) = Len(s) + Len(t) - n
      <3>1. d \o t \in Text /\ Len(d \o t) = Len(d) + Len(t)
        BY <2>3, Cats
      <3> QED BY <1>0, <2>3, <3>1
    <2>6. ASSUME NEW k \in 1..(Len(s) + Len(t) - n) PROVE c[k] = (d \o t)[k]
      <3>1. CASE n + k <= Len(s)
        <4>1. n + k \in 1..Len(s) /\ k \in 1..(Len(s) - n) /\ k \in 1..Len(d)
          BY <1>0, <2>3, <3>1
        <4>2. (d \o t)[k] = d[k]
          BY <2>3, <4>1, Cats
        <4>3. w[n + k] = s[n + k]
          BY <2>10, <4>1, Cats
        <4> QED BY <2>2, <2>3, <4>1, <4>2, <4>3
      <3>2. CASE ~(n + k <= Len(s))
        <4> DEFINE l == n + k - Len(s)
        <4>1. l \in 1..Len(t) /\ n + k = Len(s) + l /\ k = Len(s) - n + l
          BY <1>0, <3>2
        <4> HIDE DEF l
        <4>2. w[Len(s) + l] = t[l] /\ (d \o t)[Len(d) + l] = t[l]
          BY <2>3, <2>10, <4>1, Cats
        <4> QED BY <2>2, <2>3, <4>1, <4>2
      <3> QED BY <3>1, <3>2
    <2>7. c = d \o t
      BY <2>2, <2>5, <2>6, SameText
    <2> QED BY <2>4, <2>7 DEF a, b, c, d
  <1>2. ASSUME n <= Len(t)
        PROVE  /\ SubSeq(w, 1, Len(s) + n) = s \o SubSeq(t, 1, n)
               /\ From(w, Len(s) + n + 1) = From(t, n + 1)
    <2> DEFINE m == Len(s) + n
               a == SubSeq(w, 1, m)
               b == SubSeq(t, 1, n)
               c == From(w, m + 1)
               d == From(t, n + 1)
    <2>1. m \in Nat /\ m <= Len(w) /\ m = Len(s) + n
      BY <1>0, <1>2
    <2>10. w = s \o t
      OBVIOUS
    <2> HIDE DEF m, w
    <2>11. /\ a \in Text /\ Len(a) = m /\ \A k \in 1..m : a[k] = w[k]
           /\ c \in Text /\ Len(c) = Len(w) - m
           /\ \A k \in 1..(Len(w) - m) : c[k] = w[m + k]
      BY <1>0, <2>1, Parts
    <2>2. /\ a \in Text /\ Len(a) = m /\ \A k \in 1..m : a[k] = w[k]
          /\ c \in Text /\ Len(c) = Len(s) + Len(t) - m
          /\ \A k \in 1..(Len(s) + Len(t) - m) : c[k] = w[m + k]
      <3> HIDE DEF a, c
      <3> QED BY <1>0, <2>11
    <2>3. /\ b \in Text /\ Len(b) = n /\ \A k \in 1..n : b[k] = t[k]
          /\ d \in Text /\ Len(d) = Len(t) - n /\ \A k \in 1..(Len(t) - n) : d[k] = t[n + k]
      BY <1>2, Parts
    <2> HIDE DEF a, b, c, d
    <2>4. s \o b \in Text /\ Len(s \o b) = m
      BY <1>0, <2>1, <2>3, Cats
    <2>5. ASSUME NEW k \in 1..m PROVE a[k] = (s \o b)[k]
      <3>1. CASE k <= Len(s)
        <4>1. k \in 1..Len(s)
          BY <1>0, <3>1
        <4> QED BY <2>2, <2>3, <2>10, <4>1, Cats
      <3>2. CASE ~(k <= Len(s))
        <4> DEFINE l == k - Len(s)
        <4>1. l \in 1..n /\ l \in 1..Len(t) /\ k = Len(s) + l
          BY <1>0, <1>2, <2>1, <3>2
        <4> HIDE DEF l
        <4>2. w[Len(s) + l] = t[l] /\ (s \o b)[Len(s) + l] = b[l]
          BY <2>3, <2>10, <4>1, Cats
        <4> QED BY <2>2, <2>3, <4>1, <4>2
      <3> QED BY <3>1, <3>2
    <2>6. a = s \o b
      BY <2>2, <2>4, <2>5, SameText
    <2>7. ASSUME NEW k \in 1..(Len(t) - n) PROVE c[k] = d[k]
      <3>1. /\ k \in 1..(Len(s) + Len(t) - m) /\ n + k \in 1..Len(t)
            /\ m + k = Len(s) + (n + k)
        BY <1>0, <2>1
      <3>2. w[Len(s) + (n + k)] = t[n + k]
        BY <2>10, <3>1, Cats
      <3> QED BY <2>2, <2>3, <3>1, <3>2
    <2>8. c = d
      <3>1. Len(c) = Len(t) - n
        BY <1>0, <2>1, <2>2
      <3> QED BY <2>2, <2>3, <2>7, <3>1, SameText
    <2>9. Len(s) + n + 1 = m + 1
      BY <2>1
    <2> QED BY <2>1, <2>6, <2>8, <2>9 DEF a, b, c, d
  <1> QED BY <1>1, <1>2

-----------------------------------------------------------------------------
(* Tags in texts.                                                          *)

At(tag, t, i) == i \in 1..(Len(t) - 1) /\ t[i] = tag[1] /\ t[i + 1] = tag[2]

LEMMA PlacesOfTag ==
    ASSUME NEW tag \in Tags, NEW t \in Text
    PROVE  {i \in 1..(Len(t) - Len(tag) + 1) : OccursAt(tag, t, i)}
              = {i \in Nat : At(tag, t, i)}
  <1>1. /\ Len(t) \in Nat /\ (\A k \in 1..Len(t) : t[k] \in Characters)
        /\ tag \in Text /\ Len(tag) = 2
    BY TextIs, TagsAre
  <1>2. Len(t) - Len(tag) + 1 = Len(t) - 1
    BY <1>1
  <1>3. ASSUME NEW i \in 1..(Len(t) - 1)
        PROVE  OccursAt(tag, t, i) <=> At(tag, t, i)
    <2> DEFINE s == SubSeq(t, i, i + 1)
    <2>1. /\ i \in Int /\ i + 1 \in Int /\ \A k \in i..(i + 1) : t[k] \in Characters
      BY <1>1
    <2>2. /\ s \in Seq(Characters) /\ Len(s) = IF i <= i + 1 THEN i + 1 - i + 1 ELSE 0
          /\ \A k \in 1..(i + 1 - i + 1) : s[k] = t[i + k - 1]
      BY <2>1, SubSeqProperties
    <2> HIDE DEF s
    <2>3. s \in Text /\ Len(s) = 2
      BY <2>2 DEF Text
    <2>4. 1 \in 1..(i + 1 - i + 1) /\ 2 \in 1..(i + 1 - i + 1) /\ i + 1 - 1 = i /\ i + 2 - 1 = i + 1
      OBVIOUS
    <2>5. s[1] = t[i] /\ s[2] = t[i + 1]
      BY <2>2, <2>4
    <2>6. s = tag <=> s[1] = tag[1] /\ s[2] = tag[2]
      <3>1. ASSUME s[1] = tag[1], s[2] = tag[2] PROVE s = tag
        <4>1. \A k \in 1..Len(s) : s[k] = tag[k]
          <5>1. \A k \in 1..Len(s) : k = 1 \/ k = 2
            BY <2>3
          <5> QED BY <3>1, <5>1
        <4> QED BY <1>1, <2>3, <4>1, SameText
      <3> QED BY <3>1
    <2>7. OccursAt(tag, t, i) <=> s = tag
      <3>1. i + Len(tag) - 1 = i + 1
        BY <1>1
      <3> QED BY <3>1 DEF OccursAt, s
    <2> QED BY <2>5, <2>6, <2>7 DEF At
  <1>4. \A i \in Nat : At(tag, t, i) => i \in 1..(Len(t) - 1)
    BY DEF At
  <1>5. \A i \in 1..(Len(t) - 1) : i \in Nat
    BY <1>1
  <1> QED BY <1>2, <1>3, <1>4, <1>5

(* Find gives the first place.                                             *)
LEMMA FindIs ==
    ASSUME NEW tag \in Tags, NEW t \in Text
    PROVE  /\ Find(tag, t) \in Nat
           /\ Find(tag, t) = 0 => \A i \in Nat : ~At(tag, t, i)
           /\ Find(tag, t) # 0 => /\ At(tag, t, Find(tag, t))
                                  /\ \A i \in Nat : At(tag, t, i) => Find(tag, t) <= i
  <1> DEFINE S == {i \in Nat : At(tag, t, i)}
             least == CHOOSE i \in S : \A j \in S : i <= j
  <1>1. Find(tag, t) = IF S = {} THEN 0 ELSE least
    <2> DEFINE P == {i \in 1..(Len(t) - Len(tag) + 1) : OccursAt(tag, t, i)}
    <2>1. Find(tag, t) = IF P = {} THEN 0 ELSE CHOOSE i \in P : \A j \in P : i <= j
      BY DEF Find
    <2>2. P = S
      BY PlacesOfTag
    <2> HIDE DEF P, S
    <2> QED BY <2>1, <2>2
  <1>2. S # {} => least \in S /\ \A j \in S : least <= j
    <2>1. ASSUME S # {} PROVE \E i \in S : \A j \in S : i <= j
      <3>1. S \subseteq Nat
        OBVIOUS
      <3> HIDE DEF S
      <3> QED BY <2>1, <3>1, LeastNatural
    <2> HIDE DEF S
    <2> QED BY <2>1
  <1>3. \A i \in S : i # 0
    BY DEF At
  <1>4. CASE S = {}
    <2>1. Find(tag, t) = 0
      BY <1>1, <1>4
    <2> QED BY <1>4, <2>1
  <1>5. CASE S # {}
    <2>1. Find(tag, t) = least
      <3> HIDE DEF S, least
      <3> QED BY <1>1, <1>5
    <2>2. Find(tag, t) \in S /\ \A j \in S : Find(tag, t) <= j
      <3> HIDE DEF S, least
      <3> QED BY <1>2, <1>5, <2>1
    <2> QED BY <1>3, <2>2
  <1> QED BY <1>4, <1>5

LEMMA FoundAt ==
    ASSUME NEW tag \in Tags, NEW t \in Text, NEW i \in Nat, At(tag, t, i),
           \A j \in Nat : j < i => ~At(tag, t, j)
    PROVE  Find(tag, t) = i
  <1>1. Find(tag, t) \in Nat /\ Find(tag, t) # 0 /\ At(tag, t, Find(tag, t)) /\ Find(tag, t) <= i
    BY FindIs
  <1>2. ~(Find(tag, t) < i)
    BY <1>1
  <1> QED BY <1>1, <1>2

LEMMA NotFound ==
    ASSUME NEW tag \in Tags, NEW t \in Text, \A i \in Nat : ~At(tag, t, i)
    PROVE  Find(tag, t) = 0
  BY FindIs

(* Where a tag is found, and what is left after it.                        *)
LEMMA FoundIn ==
    ASSUME NEW tag \in Tags, NEW t \in Text, Find(tag, t) # 0
    PROVE  /\ Find(tag, t) \in 1..(Len(t) - 1) /\ Len(t) \in Nat
           /\ From(t, Find(tag, t) + Len(tag)) \in Text
           /\ Len(From(t, Find(tag, t) + Len(tag))) = Len(t) - Find(tag, t) - 1
           /\ SubSeq(t, 1, Find(tag, t) - 1) \in Text
  <1> DEFINE i == Find(tag, t)
  <1>1. i \in 1..(Len(t) - 1)
    BY FindIs DEF At
  <1> HIDE DEF i
  <1>2. Len(t) \in Nat /\ Len(tag) = 2
    BY TextIs, TagsAre
  <1>3. i + 1 \in Nat /\ i + 1 <= Len(t) /\ i + Len(tag) = (i + 1) + 1 /\ i \in Nat
        /\ i - 1 \in Nat /\ i - 1 <= Len(t)
    BY <1>1, <1>2
  <1>4. From(t, (i + 1) + 1) \in Text /\ Len(From(t, (i + 1) + 1)) = Len(t) - (i + 1)
    BY <1>3, Parts
  <1>5. SubSeq(t, 1, i - 1) \in Text
    BY <1>3, Parts
  <1> QED BY <1>1, <1>2, <1>3, <1>4, <1>5 DEF i

LEMMA PartialIs ==
    ASSUME NEW tag \in Tags, NEW t \in Text
    PROVE  partial_marker_len(t, tag) =
              IF Len(t) # 0 /\ t[Len(t)] = tag[1] THEN 1 ELSE 0
  <1> DEFINE K == {k \in 0..(Len(tag) - 1) :
                    k <= Len(t) /\ From(t, Len(t) - k + 1) = SubSeq(tag, 1, k)}
  <1>1. Len(t) \in Nat /\ tag \in Text /\ Len(tag) = 2
    BY TextIs, TagsAre
  <1>2. 0..(Len(tag) - 1) = {0, 1}
    BY <1>1
  <1>3. 0 \in K
    <2>1. From(t, Len(t) + 1) \in Text /\ Len(From(t, Len(t) + 1)) = 0
      BY <1>1, Parts
    <2>2. SubSeq(tag, 1, 0) \in Text /\ Len(SubSeq(tag, 1, 0)) = 0
      BY <1>1, Parts
    <2>3. From(t, Len(t) + 1) = SubSeq(tag, 1, 0)
      BY <2>1, <2>2, TextIs
    <2>4. Len(t) - 0 + 1 = Len(t) + 1
      BY <1>1
    <2> QED BY <1>1, <1>2, <2>3, <2>4
  <1>4. 1 \in K <=> Len(t) # 0 /\ t[Len(t)] = tag[1]
    <2>1. CASE Len(t) = 0
      BY <2>1
    <2>2. CASE Len(t) # 0
      <3> DEFINE n == Len(t) - 1
                 a == From(t, n + 1)
                 b == SubSeq(tag, 1, 1)
      <3>1. n \in Nat /\ n <= Len(t) /\ Len(t) - n = 1 /\ n + 1 = Len(t)
        BY <1>1, <2>2
      <3>2. a \in Text /\ Len(a) = Len(t) - n /\ \A k \in 1..(Len(t) - n) : a[k] = t[n + k]
        <4> HIDE DEF n
        <4> QED BY <3>1, Parts
      <3>3. b \in Text /\ Len(b) = 1 /\ \A k \in 1..1 : b[k] = tag[k]
        <4>1. 1 \in Int /\ \A k \in 1..1 : tag[k] \in Characters
          BY TagsAre
        <4>2. /\ b \in Seq(Characters) /\ Len(b) = IF 1 <= 1 THEN 1 - 1 + 1 ELSE 0
              /\ \A k \in 1..(1 - 1 + 1) : b[k] = tag[1 + k - 1]
          BY <4>1, SubSeqProperties
        <4> HIDE DEF b
        <4> QED BY <4>2 DEF Text
      <3>4. Len(t) - 1 + 1 = n + 1
        OBVIOUS
      <3> HIDE DEF n
      <3>5. a = From(t, n + 1) /\ b = SubSeq(tag, 1, 1)
        OBVIOUS
      <3> HIDE DEF a, b
      <3>6. Len(a) = 1 /\ a[1] = t[Len(t)] /\ b[1] = tag[1] /\ \A k \in 1..1 : k = 1
        BY <3>1, <3>2, <3>3
      <3>7. a = b <=> a[1] = b[1]
        <4>1. ASSUME a[1] = b[1] PROVE a = b
          <5>1. \A k \in 1..Len(a) : a[k] = b[k]
            BY <3>6, <4>1
          <5> QED BY <3>2, <3>3, <3>6, <5>1, SameText
        <4> QED BY <4>1
      <3>8. 1 \in K <=> From(t, Len(t) - 1 + 1) = SubSeq(tag, 1, 1)
        BY <1>1, <1>2, <2>2
      <3> QED BY <2>2, <3>4, <3>5, <3>6, <3>7, <3>8
    <2> QED BY <2>1, <2>2
  <1>5. partial_marker_len(t, tag) = CHOOSE k \in K : \A l \in K : l <= k
    BY DEF partial_marker_len
  <1>6. K \subseteq {0, 1}
    BY <1>2
  <1> HIDE DEF K
  <1>7. CASE 1 \in K
    <2>1. \A l \in K : l <= 1
      BY <1>6
    <2>2. \A k \in K : (\A l \in K : l <= k) => k = 1
      BY <1>6, <1>7
    <2>3. partial_marker_len(t, tag) = 1
      BY <1>5, <1>7, <2>1, <2>2
    <2> QED BY <1>4, <1>7, <2>3
  <1>8. CASE 1 \notin K
    <2>1. K = {0}
      BY <1>3, <1>6, <1>8
    <2>2. partial_marker_len(t, tag) = 0
      BY <1>5, <2>1
    <2> QED BY <1>4, <1>8, <2>2
  <1> QED BY <1>7, <1>8

-----------------------------------------------------------------------------
(* The blocks of a message.                                                *)

Inner(t)    == From(t, Find(OpenTag, t) + Len(OpenTag))
After(t)    == From(Inner(t), Find(CloseTag, Inner(t)) + Len(CloseTag))
Unpaired(t) == Find(OpenTag, t) = 0 \/ Find(CloseTag, Inner(t)) = 0

BlockType == [inside : Text, joined : Text, outside : Text, open : BOOLEAN]

NoBlock(t) ==
    [inside |-> <<>>, joined |-> <<>>, outside |-> t, open |-> Find(OpenTag, t) > 0]

Piece(t) == SubSeq(Inner(t), 1, Find(CloseTag, Inner(t)) - 1)
Break(t, rest) == IF Piece(t) = <<>> \/ rest.inside = <<>> THEN <<>> ELSE <<"\n">>

AddBlock(t, rest) ==
    [inside |-> Piece(t) \o Break(t, rest) \o rest.inside,
     joined |-> Piece(t) \o rest.joined,
     outside |-> SubSeq(t, 1, Find(OpenTag, t) - 1) \o rest.outside,
     open |-> rest.open]

LEMMA BlockParts ==
    ASSUME NEW t \in Text
    PROVE  /\ NoBlock(t) \in BlockType
           /\ ~Unpaired(t) =>
                 /\ Inner(t) \in Text /\ After(t) \in Text /\ Len(After(t)) < Len(t)
                 /\ \A rest \in BlockType : AddBlock(t, rest) \in BlockType
  <1>1. OpenTag \in Tags /\ CloseTag \in Tags
    BY DEF Tags
  <1>2. NoBlock(t) \in BlockType
    <2>1. <<>> \in Text
      BY Cats
    <2>2. (Find(OpenTag, t) > 0) \in BOOLEAN
      OBVIOUS
    <2> QED BY <2>1, <2>2 DEF NoBlock, BlockType
  <1>3. ASSUME ~Unpaired(t)
        PROVE  /\ Inner(t) \in Text /\ After(t) \in Text /\ Len(After(t)) < Len(t)
               /\ \A rest \in BlockType : AddBlock(t, rest) \in BlockType
    <2>1. /\ Find(OpenTag, t) \in 1..(Len(t) - 1) /\ Len(t) \in Nat
          /\ Inner(t) \in Text /\ Len(Inner(t)) = Len(t) - Find(OpenTag, t) - 1
          /\ SubSeq(t, 1, Find(OpenTag, t) - 1) \in Text
      BY <1>1, <1>3, FoundIn DEF Unpaired, Inner
    <2>2. /\ Find(CloseTag, Inner(t)) \in 1..(Len(Inner(t)) - 1)
          /\ After(t) \in Text
          /\ Len(After(t)) = Len(Inner(t)) - Find(CloseTag, Inner(t)) - 1
          /\ Piece(t) \in Text
      BY <1>1, <1>3, <2>1, FoundIn DEF Unpaired, After, Piece
    <2>3. Len(After(t)) < Len(t)
      BY <2>1, <2>2
    <2>4. ASSUME NEW rest \in BlockType PROVE AddBlock(t, rest) \in BlockType
      <3>1. /\ rest.inside \in Text /\ rest.joined \in Text /\ rest.outside \in Text
            /\ rest.open \in BOOLEAN
        BY DEF BlockType
      <3>b. Break(t, rest) \in Text
        <4>1. <<"\n">> \in Text /\ <<>> \in Text
          BY CharactersAssumption, Cats DEF Text
        <4> QED BY <4>1 DEF Break
      <3>c. Piece(t) \o Break(t, rest) \in Text
        BY <2>2, <3>b, Cats
      <3>2. /\ Piece(t) \o Break(t, rest) \o rest.inside \in Text
            /\ Piece(t) \o rest.joined \in Text
            /\ SubSeq(t, 1, Find(OpenTag, t) - 1) \o rest.outside \in Text
        BY <2>1, <2>2, <3>1, <3>c, Cats
      <3> QED BY <3>1, <3>2 DEF AddBlock, BlockType
    <2> QED BY <2>1, <2>2, <2>3, <2>4
  <1> QED BY <1>2, <1>3

(* extract_think_blocks computes what its definition says.                 *)
LEMMA BlocksAre ==
    /\ Blocks \in [Text -> BlockType]
    /\ \A t \in Text :
          Blocks[t] = IF Unpaired(t) THEN NoBlock(t) ELSE AddBlock(t, Blocks[After(t)])
  <1> DEFINE size == [t \in Text |-> Len(t)]
             stop == {t \in Text : Unpaired(t)}
             base == [t \in Text |-> NoBlock(t)]
             next == [t \in Text |-> IF t \in stop THEN t ELSE After(t)]
             comb == [p \in Text \X BlockType |->
                        IF p[1] \in stop THEN p[2] ELSE AddBlock(p[1], p[2])]
  <1>1. size \in [Text -> Nat]
    BY TextIs
  <1>2. base \in [Text -> BlockType] /\ next \in [Text -> Text]
    BY BlockParts
  <1>3. comb \in [Text \X BlockType -> BlockType]
    <2>1. ASSUME NEW p \in Text \X BlockType
          PROVE  (IF p[1] \in stop THEN p[2] ELSE AddBlock(p[1], p[2])) \in BlockType
      BY BlockParts
    <2> QED BY <2>1
  <1>4. \A t \in Text : t \notin stop => size[next[t]] < size[t]
    BY BlockParts
  <1>5. /\ \A t \in Text : base[t] = NoBlock(t)
        /\ \A t \in Text : t \notin stop => next[t] = After(t)
        /\ \A t \in Text, r \in BlockType : t \notin stop => comb[<<t, r>>] = AddBlock(t, r)
        /\ \A t \in Text : t \in stop <=> Unpaired(t)
    OBVIOUS
  <1> HIDE DEF size, stop, base, next, comb
  <1>6. PICK f : Follows(f, Text, BlockType, stop, base, next, comb)
    BY <1>1, <1>2, <1>3, <1>4, SizeRecursion
  <1>7. ASSUME NEW t \in Text
        PROVE  f[t] = IF Unpaired(t) THEN NoBlock(t) ELSE AddBlock(t, f[After(t)])
    <2>1. f \in [Text -> BlockType]
          /\ f[t] = IF t \in stop THEN base[t] ELSE comb[<<t, f[next[t]]>>]
      BY <1>6 DEF Follows
    <2>2. CASE Unpaired(t)
      BY <1>5, <2>1, <2>2
    <2>3. CASE ~Unpaired(t)
      <3>1. next[t] = After(t) /\ f[next[t]] \in BlockType
        BY <1>2, <1>5, <2>1, <2>3
      <3> QED BY <1>5, <2>1, <2>3, <3>1
    <2> QED BY <2>2, <2>3
  <1> DEFINE Step(t, g) == IF Unpaired(t) THEN NoBlock(t) ELSE AddBlock(t, g[After(t)])
  <1>8. f = [t \in Text |-> Step(t, f)]
    <2>1. f \in [Text -> BlockType]
      BY <1>6 DEF Follows
    <2>2. f = [t \in Text |-> f[t]]
      BY <2>1
    <2> QED BY <1>7, <2>2
  <1>9. Blocks = CHOOSE g : g = [t \in Text |-> Step(t, g)]
    BY DEF Blocks, Unpaired, NoBlock, AddBlock, Piece, Break, Inner, After, Text
  <1>10. Blocks = [t \in Text |-> Step(t, Blocks)]
    BY <1>8, <1>9
  <1>11. \A t \in Text : Blocks[t] = Step(t, Blocks)
    BY <1>10
  <1> DEFINE S == {t \in Text : Blocks[t] \in BlockType}
             length == [t \in Text |-> Len(t)]
  <1>12. ASSUME NEW t \in Text, \A u \in Text : length[u] < length[t] => u \in S
         PROVE  t \in S
    <2>1. CASE Unpaired(t)
      BY <1>11, <2>1, BlockParts
    <2>2. CASE ~Unpaired(t)
      <3>1. After(t) \in Text /\ Len(After(t)) < Len(t)
        BY <2>2, BlockParts
      <3>2. Blocks[After(t)] \in BlockType
        BY <1>12, <3>1
      <3> QED BY <1>11, <2>2, <3>2, BlockParts
    <2> QED BY <2>1, <2>2
  <1>13. length \in [Text -> Nat]
    BY TextIs
  <1>14. Text \subseteq S
    <2> HIDE DEF S, length
    <2> QED BY <1>12, <1>13, SizeInduction
  <1>15. Blocks \in [Text -> BlockType]
    <2> HIDE DEF Step
    <2> QED BY <1>10, <1>14
  <1> QED BY <1>11, <1>15

-----------------------------------------------------------------------------
(* The pieces of a stream.                                                 *)

TagIn(inside) == IF inside THEN CloseTag ELSE OpenTag

ParseType == [inside : BOOLEAN, carry : Text, delta : [c : Text, r : Text]]

(* What is parsed from s on, with the text s before it.                    *)
Prepend(inside, s, x) ==
    IF inside THEN [x EXCEPT !.delta.r = s \o @] ELSE [x EXCEPT !.delta.c = s \o @]

Kept(inside, t) == Len(t) - partial_marker_len(t, TagIn(inside))

Untagged(inside, t) ==
    Prepend(inside, SubSeq(t, 1, Kept(inside, t)),
            [inside |-> inside, carry |-> From(t, Kept(inside, t) + 1), delta |-> NoText])

Beyond(inside, t) == From(t, Find(TagIn(inside), t) + Len(TagIn(inside)))

LEMMA Prepends ==
    ASSUME NEW inside \in BOOLEAN, NEW s \in Text, NEW x \in ParseType
    PROVE  /\ Prepend(inside, s, x) \in ParseType
           /\ Prepend(inside, s, x).inside = x.inside
           /\ Prepend(inside, s, x).carry = x.carry
           /\ Prepend(inside, s, x).delta =
                 IF inside THEN [c |-> x.delta.c, r |-> s \o x.delta.r]
                 ELSE [c |-> s \o x.delta.c, r |-> x.delta.r]
  <1>1. /\ x = [inside |-> x.inside, carry |-> x.carry, delta |-> x.delta]
        /\ x.delta = [c |-> x.delta.c, r |-> x.delta.r]
        /\ x.inside \in BOOLEAN /\ x.carry \in Text
        /\ x.delta.c \in Text /\ x.delta.r \in Text
    BY DEF ParseType
  <1>2. s \o x.delta.c \in Text /\ s \o x.delta.r \in Text
    BY <1>1, Cats
  <1>3. CASE inside
    <2>1. Prepend(inside, s, x) = [inside |-> x.inside, carry |-> x.carry,
                                   delta |-> [c |-> x.delta.c, r |-> s \o x.delta.r]]
      BY <1>1, <1>3 DEF Prepend
    <2>2. Prepend(inside, s, x) \in ParseType
      BY <1>1, <1>2, <2>1 DEF ParseType
    <2>3. /\ Prepend(inside, s, x).inside = x.inside
          /\ Prepend(inside, s, x).carry = x.carry
          /\ Prepend(inside, s, x).delta = [c |-> x.delta.c, r |-> s \o x.delta.r]
      BY <2>1
    <2> QED BY <1>3, <2>2, <2>3
  <1>4. CASE ~inside
    <2>1. Prepend(inside, s, x) = [inside |-> x.inside, carry |-> x.carry,
                                   delta |-> [c |-> s \o x.delta.c, r |-> x.delta.r]]
      BY <1>1, <1>4 DEF Prepend
    <2>2. Prepend(inside, s, x) \in ParseType
      BY <1>1, <1>2, <2>1 DEF ParseType
    <2>3. /\ Prepend(inside, s, x).inside = x.inside
          /\ Prepend(inside, s, x).carry = x.carry
          /\ Prepend(inside, s, x).delta = [c |-> s \o x.delta.c, r |-> x.delta.r]
      BY <2>1
    <2> QED BY <1>4, <2>2, <2>3
  <1> QED BY <1>3, <1>4

LEMMA ParseParts ==
    ASSUME NEW inside \in BOOLEAN, NEW t \in Text
    PROVE  /\ TagIn(inside) \in Tags
           /\ Kept(inside, t) \in Nat /\ Kept(inside, t) <= Len(t)
           /\ Untagged(inside, t) \in ParseType
           /\ Find(TagIn(inside), t) # 0 =>
                 /\ Beyond(inside, t) \in Text /\ Len(Beyond(inside, t)) < Len(t)
                 /\ SubSeq(t, 1, Find(TagIn(inside), t) - 1) \in Text
  <1>1. TagIn(inside) \in Tags
    BY DEF TagIn, Tags
  <1>2. Kept(inside, t) \in Nat /\ Kept(inside, t) <= Len(t)
    <2>1. partial_marker_len(t, TagIn(inside)) =
             IF Len(t) # 0 /\ t[Len(t)] = TagIn(inside)[1] THEN 1 ELSE 0
      BY <1>1, PartialIs
    <2>2. Len(t) \in Nat
      BY TextIs
    <2> QED BY <2>1, <2>2 DEF Kept
  <1>3. Untagged(inside, t) \in ParseType
    <2>1. SubSeq(t, 1, Kept(inside, t)) \in Text /\ From(t, Kept(inside, t) + 1) \in Text
      BY <1>2, Parts
    <2>2. NoText \in [c : Text, r : Text]
      BY Cats DEF NoText
    <2>3. [inside |-> inside, carry |-> From(t, Kept(inside, t) + 1), delta |-> NoText]
             \in ParseType
      BY <2>1, <2>2 DEF ParseType
    <2> QED BY <2>1, <2>3, Prepends DEF Untagged
  <1>4. ASSUME Find(TagIn(inside), t) # 0
        PROVE  /\ Beyond(inside, t) \in Text /\ Len(Beyond(inside, t)) < Len(t)
               /\ SubSeq(t, 1, Find(TagIn(inside), t) - 1) \in Text
    <2>1. /\ Find(TagIn(inside), t) \in 1..(Len(t) - 1) /\ Len(t) \in Nat
          /\ Beyond(inside, t) \in Text
          /\ Len(Beyond(inside, t)) = Len(t) - Find(TagIn(inside), t) - 1
          /\ SubSeq(t, 1, Find(TagIn(inside), t) - 1) \in Text
      BY <1>1, <1>4, FoundIn DEF Beyond
    <2> QED BY <2>1
  <1> QED BY <1>1, <1>2, <1>3, <1>4

(* So does parse_content_source.                                           *)
LEMMA ParsedIs ==
    ASSUME NEW inside \in BOOLEAN, NEW t \in Text
    PROVE  /\ Parsed[<<inside, t>>] \in ParseType
           /\ Find(TagIn(inside), t) = 0 => Parsed[<<inside, t>>] = Untagged(inside, t)
           /\ Find(TagIn(inside), t) # 0 =>
                 Parsed[<<inside, t>>] =
                    Prepend(inside, SubSeq(t, 1, Find(TagIn(inside), t) - 1),
                            Parsed[<<~inside, Beyond(inside, t)>>])
  <1> DEFINE D == BOOLEAN \X Text
             Cut(p) == SubSeq(p[2], 1, Find(TagIn(p[1]), p[2]) - 1)
             size == [p \in D |-> Len(p[2])]
             stop == {p \in D : Find(TagIn(p[1]), p[2]) = 0}
             base == [p \in D |-> Untagged(p[1], p[2])]
             next == [p \in D |-> IF p \in stop THEN p ELSE <<~p[1], Beyond(p[1], p[2])>>]
             comb == [q \in D \X ParseType |->
                        IF q[1] \in stop THEN q[2] ELSE Prepend(q[1][1], Cut(q[1]), q[2])]
             Step(p, g) == IF Find(TagIn(p[1]), p[2]) = 0 THEN Untagged(p[1], p[2])
                           ELSE Prepend(p[1], Cut(p), g[<<~p[1], Beyond(p[1], p[2])>>])
  <1>1. \A p \in D : p[1] \in BOOLEAN /\ p[2] \in Text /\ p = <<p[1], p[2]>>
    OBVIOUS
  <1>2. \A p \in D : Find(TagIn(p[1]), p[2]) # 0 =>
           /\ <<~p[1], Beyond(p[1], p[2])>> \in D /\ Cut(p) \in Text
           /\ Len(Beyond(p[1], p[2])) < Len(p[2])
    BY <1>1, ParseParts
  <1>3. size \in [D -> Nat]
    BY <1>1, TextIs
  <1>4. base \in [D -> ParseType]
    BY <1>1, ParseParts
  <1>5. next \in [D -> D]
    BY <1>2
  <1>6. comb \in [D \X ParseType -> ParseType]
    <2>1. ASSUME NEW q \in D \X ParseType
          PROVE  (IF q[1] \in stop THEN q[2] ELSE Prepend(q[1][1], Cut(q[1]), q[2]))
                    \in ParseType
      <3>1. q[1] \in D /\ q[2] \in ParseType
        OBVIOUS
      <3>2. CASE q[1] \in stop
        BY <3>1, <3>2
      <3>3. CASE q[1] \notin stop
        <4>1. Cut(q[1]) \in Text /\ q[1][1] \in BOOLEAN
          BY <1>1, <1>2, <3>1, <3>3
        <4>2. Prepend(q[1][1], Cut(q[1]), q[2]) \in ParseType
          <5> HIDE DEF Cut
          <5> QED BY <3>1, <4>1, Prepends
        <4> QED BY <3>3, <4>2
      <3> QED BY <3>2, <3>3
    <2> HIDE DEF D, stop, Cut
    <2> QED BY <2>1
  <1>7. \A p \in D : p \notin stop => size[next[p]] < size[p]
    <2>1. ASSUME NEW p \in D, p \notin stop PROVE size[next[p]] < size[p]
      <3>1. next[p] = <<~p[1], Beyond(p[1], p[2])>> /\ next[p] \in D
        BY <1>2, <2>1
      <3>2. size[next[p]] = Len(next[p][2])
        BY <3>1
      <3> QED BY <1>2, <2>1, <3>1, <3>2
    <2> QED BY <2>1
  <1>8. /\ \A p \in D : base[p] = Untagged(p[1], p[2])
        /\ \A p \in D : p \notin stop => next[p] = <<~p[1], Beyond(p[1], p[2])>>
        /\ \A p \in D, r \in ParseType : p \notin stop => comb[<<p, r>>] = Prepend(p[1], Cut(p), r)
        /\ \A p \in D : p \in stop <=> Find(TagIn(p[1]), p[2]) = 0
    <2> HIDE DEF Cut
    <2> QED OBVIOUS
  <1> HIDE DEF size, stop, base, next, comb, Cut, D
  <1>9. PICK f : Follows(f, D, ParseType, stop, base, next, comb)
    BY <1>3, <1>4, <1>5, <1>6, <1>7, SizeRecursion
  <1>10. ASSUME NEW p \in D PROVE f[p] = Step(p, f)
    <2>1. f \in [D -> ParseType]
          /\ f[p] = IF p \in stop THEN base[p] ELSE comb[<<p, f[next[p]]>>]
      BY <1>9 DEF Follows
    <2>2. CASE p \in stop
      BY <1>8, <2>1, <2>2
    <2>3. CASE p \notin stop
      <3>1. f[next[p]] \in ParseType
        BY <1>5, <2>1
      <3> QED BY <1>8, <2>1, <2>3, <3>1
    <2> QED BY <2>2, <2>3
  <1>11. f = [p \in D |-> Step(p, f)]
    <2>1. f \in [D -> ParseType]
      BY <1>9 DEF Follows
    <2>2. f = [p \in D |-> f[p]]
      BY <2>1
    <2> QED BY <1>10, <2>2
  <1> DEFINE Body(p, g) ==
               LET ins  == p[1]
                   u    == p[2]
                   tag  == IF ins THEN CloseTag ELSE OpenTag
                   i    == Find(tag, u)
                   cut  == IF i > 0 THEN i - 1 ELSE Len(u) - partial_marker_len(u, tag)
                   rest == IF i > 0 THEN g[<<~ins, From(u, i + Len(tag))>>]
                           ELSE [inside |-> ins, carry |-> From(u, cut + 1), delta |-> NoText]
               IN  IF ins THEN [rest EXCEPT !.delta.r = SubSeq(u, 1, cut) \o @]
                          ELSE [rest EXCEPT !.delta.c = SubSeq(u, 1, cut) \o @]
  <1>12. ASSUME NEW g, NEW p \in D PROVE Body(p, g) = Step(p, g)
    <2>1. Find(TagIn(p[1]), p[2]) \in Nat
      BY <1>1, ParseParts, FindIs
    <2>2. CASE Find(TagIn(p[1]), p[2]) = 0
      <3>1. ~(Find(TagIn(p[1]), p[2]) > 0)
        BY <2>2
      <3> QED BY <2>2, <3>1 DEF Untagged, Prepend, Kept, TagIn
    <2>3. CASE Find(TagIn(p[1]), p[2]) # 0
      <3>1. Find(TagIn(p[1]), p[2]) > 0
        BY <2>1, <2>3
      <3> QED BY <2>3, <3>1 DEF Prepend, Beyond, Cut, TagIn
    <2> QED BY <2>2, <2>3
  <1>13. Parsed = CHOOSE g : g = [p \in D |-> Body(p, g)]
    BY DEF Parsed, Text, D
  <1>14. f = [p \in D |-> Body(p, f)]
    <2> HIDE DEF Body, Step
    <2> QED BY <1>11, <1>12
  <1> HIDE DEF Body
  <1>15. Parsed = [p \in D |-> Body(p, Parsed)]
    BY <1>13, <1>14
  <1>16. \A p \in D : Parsed[p] = Step(p, Parsed)
    <2> HIDE DEF Step
    <2> QED BY <1>12, <1>15
  <1> DEFINE S == {p \in D : Parsed[p] \in ParseType}
  <1>17. ASSUME NEW p \in D, \A q \in D : size[q] < size[p] => q \in S
         PROVE  p \in S
    <2>1. CASE Find(TagIn(p[1]), p[2]) = 0
      <3>1. p[1] \in BOOLEAN /\ p[2] \in Text
        BY <1>1
      <3>2. Untagged(p[1], p[2]) \in ParseType
        BY <3>1, ParseParts
      <3>3. Parsed[p] = Untagged(p[1], p[2])
        BY <1>16, <2>1
      <3> QED BY <3>2, <3>3
    <2>2. CASE Find(TagIn(p[1]), p[2]) # 0
      <3> DEFINE q == <<~p[1], Beyond(p[1], p[2])>>
      <3>1. q \in D /\ Cut(p) \in Text /\ p \notin stop /\ next[p] = q
        BY <1>2, <1>8, <2>2
      <3>2. size[q] < size[p]
        BY <1>7, <3>1
      <3>3. Parsed[q] \in ParseType
        BY <1>17, <3>1, <3>2
      <3>4. Parsed[p] = Prepend(p[1], Cut(p), Parsed[q])
        BY <1>16, <2>2
      <3>5. p[1] \in BOOLEAN
        BY <1>1
      <3> HIDE DEF q
      <3>6. Parsed[p] \in ParseType
        BY <3>1, <3>3, <3>4, <3>5, Prepends
      <3> QED BY <3>6
    <2> QED BY <2>1, <2>2
  <1>18. D \subseteq S
    <2> HIDE DEF S
    <2> QED BY <1>3, <1>17, SizeInduction
  <1>19. <<inside, t>> \in D /\ <<inside, t>>[1] = inside /\ <<inside, t>>[2] = t
    BY DEF D
  <1>20. Parsed[<<inside, t>>] \in ParseType
    BY <1>18, <1>19
  <1>21. Parsed[<<inside, t>>] = Step(<<inside, t>>, Parsed)
    BY <1>16, <1>19
  <1> QED BY <1>19, <1>20, <1>21 DEF Cut

Parse(inside, t) == Parsed[<<inside, t>>]

(* What is parsed of a text and then of the rest.                          *)
Join(x, y) ==
    [inside |-> y.inside, carry |-> y.carry,
     delta |-> [c |-> x.delta.c \o y.delta.c, r |-> x.delta.r \o y.delta.r]]

LEMMA ParseFields ==
    ASSUME NEW x \in ParseType
    PROVE  /\ x = [inside |-> x.inside, carry |-> x.carry, delta |-> x.delta]
           /\ x.delta = [c |-> x.delta.c, r |-> x.delta.r]
           /\ x.inside \in BOOLEAN /\ x.carry \in Text
           /\ x.delta.c \in Text /\ x.delta.r \in Text
  BY DEF ParseType

LEMMA PrependTwice ==
    ASSUME NEW inside \in BOOLEAN, NEW s \in Text, NEW t \in Text, NEW x \in ParseType
    PROVE  Prepend(inside, s \o t, x) = Prepend(inside, s, Prepend(inside, t, x))
  <1> DEFINE y == Prepend(inside, t, x)
             a == Prepend(inside, s \o t, x)
             b == Prepend(inside, s, y)
  <1>1. s \o t \in Text /\ y \in ParseType
    BY Cats, Prepends
  <1>2. /\ y.inside = x.inside /\ y.carry = x.carry
        /\ y.delta = IF inside THEN [c |-> x.delta.c, r |-> t \o x.delta.r]
                     ELSE [c |-> t \o x.delta.c, r |-> x.delta.r]
    BY Prepends
  <1>3. /\ a \in ParseType /\ a.inside = x.inside /\ a.carry = x.carry
        /\ a.delta = IF inside THEN [c |-> x.delta.c, r |-> (s \o t) \o x.delta.r]
                     ELSE [c |-> (s \o t) \o x.delta.c, r |-> x.delta.r]
    BY <1>1, Prepends
  <1> HIDE DEF y
  <1>4. /\ b \in ParseType /\ b.inside = y.inside /\ b.carry = y.carry
        /\ b.delta = IF inside THEN [c |-> y.delta.c, r |-> s \o y.delta.r]
                     ELSE [c |-> s \o y.delta.c, r |-> y.delta.r]
    BY <1>1, Prepends
  <1>5. b = Prepend(inside, s, y)
    OBVIOUS
  <1> HIDE DEF a, b
  <1>6. /\ (s \o t) \o x.delta.r = s \o (t \o x.delta.r)
        /\ (s \o t) \o x.delta.c = s \o (t \o x.delta.c)
    <2>1. x.delta.c \in Text /\ x.delta.r \in Text
      BY ParseFields
    <2> QED BY <2>1, CatsGroup
  <1>7. a.delta = b.delta
    <2>1. CASE inside
      BY <1>2, <1>3, <1>4, <1>6, <2>1
    <2>2. CASE ~inside
      BY <1>2, <1>3, <1>4, <1>6, <2>2
    <2> QED BY <2>1, <2>2
  <1>8. a = b
    <2>1. /\ a = [inside |-> a.inside, carry |-> a.carry, delta |-> a.delta]
          /\ b = [inside |-> b.inside, carry |-> b.carry, delta |-> b.delta]
      BY <1>3, <1>4, ParseFields
    <2> QED BY <1>2, <1>3, <1>4, <1>7, <2>1
  <1> QED BY <1>8 DEF a, b, y

LEMMA PrependJoins ==
    ASSUME NEW inside \in BOOLEAN, NEW s \in Text, NEW x \in ParseType, NEW y \in ParseType
    PROVE  /\ Join(x, y) \in ParseType
           /\ Prepend(inside, s, Join(x, y)) = Join(Prepend(inside, s, x), y)
           /\ x.delta = NoText => Join(x, y) = y
  <1> DEFINE j == Join(x, y)
             p == Prepend(inside, s, x)
             a == Prepend(inside, s, j)
             b == Join(p, y)
  <1>1. /\ x.delta.c \in Text /\ x.delta.r \in Text /\ y.delta.c \in Text
        /\ y.delta.r \in Text /\ y.inside \in BOOLEAN /\ y.carry \in Text
        /\ x.delta.c \o y.delta.c \in Text /\ x.delta.r \o y.delta.r \in Text
    BY ParseFields, Cats
  <1>2. j \in ParseType
    BY <1>1 DEF Join, ParseType
  <1>3. /\ j.inside = y.inside /\ j.carry = y.carry
        /\ j.delta.c = x.delta.c \o y.delta.c /\ j.delta.r = x.delta.r \o y.delta.r
    BY DEF Join
  <1>4. ASSUME x.delta = NoText PROVE j = y
    <2>1. x.delta.c = <<>> /\ x.delta.r = <<>>
      BY <1>4 DEF NoText
    <2>2. x.delta.c \o y.delta.c = y.delta.c /\ x.delta.r \o y.delta.r = y.delta.r
      BY <1>1, <2>1, Cats
    <2>3. y = [inside |-> y.inside, carry |-> y.carry,
               delta |-> [c |-> y.delta.c, r |-> y.delta.r]]
      BY ParseFields
    <2> QED BY <2>2, <2>3 DEF Join
  <1>5. /\ p.delta = IF inside THEN [c |-> x.delta.c, r |-> s \o x.delta.r]
                     ELSE [c |-> s \o x.delta.c, r |-> x.delta.r]
    BY Prepends
  <1>6. b = [inside |-> y.inside, carry |-> y.carry,
             delta |-> [c |-> p.delta.c \o y.delta.c, r |-> p.delta.r \o y.delta.r]]
    BY DEF Join
  <1> HIDE DEF j
  <1>7. /\ a \in ParseType /\ a.inside = j.inside /\ a.carry = j.carry
        /\ a.delta = IF inside THEN [c |-> j.delta.c, r |-> s \o j.delta.r]
                     ELSE [c |-> s \o j.delta.c, r |-> j.delta.r]
    BY <1>2, Prepends
  <1>8. /\ (s \o x.delta.c) \o y.delta.c = s \o (x.delta.c \o y.delta.c)
        /\ (s \o x.delta.r) \o y.delta.r = s \o (x.delta.r \o y.delta.r)
    BY <1>1, CatsGroup
  <1> HIDE DEF a, b, p
  <1>9. a.delta = [c |-> p.delta.c \o y.delta.c, r |-> p.delta.r \o y.delta.r]
    <2>1. CASE inside
      <3>1. p.delta.c = x.delta.c /\ p.delta.r = s \o x.delta.r
        BY <1>5, <2>1
      <3>2. a.delta = [c |-> j.delta.c, r |-> s \o j.delta.r]
        BY <1>7, <2>1
      <3> QED BY <1>3, <1>8, <3>1, <3>2
    <2>2. CASE ~inside
      <3>1. p.delta.c = s \o x.delta.c /\ p.delta.r = x.delta.r
        BY <1>5, <2>2
      <3>2. a.delta = [c |-> s \o j.delta.c, r |-> j.delta.r]
        BY <1>7, <2>2
      <3> QED BY <1>3, <1>8, <3>1, <3>2
    <2> QED BY <2>1, <2>2
  <1>10. a = b
    <2>1. a = [inside |-> a.inside, carry |-> a.carry, delta |-> a.delta]
      BY <1>7, ParseFields
    <2> QED BY <1>3, <1>6, <1>7, <1>9, <2>1
  <1> QED BY <1>2, <1>4, <1>10 DEF a, b, p, j

(* A beginning that has no tag and does not reach into one is put before   *)
(* what the rest is parsed to.                                             *)
LEMMA Peel ==
    ASSUME NEW inside \in BOOLEAN, NEW h \in Text, NEW u \in Text,
           \A j \in Nat : j <= Len(h) => ~At(TagIn(inside), h \o u, j),
           u = <<>> => Kept(inside, h) = Len(h)
    PROVE  Parse(inside, h \o u) = Prepend(inside, h, Parse(inside, u))
  <1> DEFINE tag == TagIn(inside)
             w == h \o u
  <1>1. /\ tag \in Tags /\ Len(tag) = 2 /\ w \in Text /\ Len(w) = Len(h) + Len(u)
        /\ Len(h) \in Nat /\ Len(u) \in Nat
    BY ParseParts, TagsAre, Cats, TextIs
  <1>2. \A k \in 1..Len(u) : w[Len(h) + k] = u[k]
    BY Cats
  <1>3. \A n \in Nat : n <= Len(u) =>
           /\ SubSeq(w, 1, Len(h) + n) = h \o SubSeq(u, 1, n)
           /\ From(w, Len(h) + n + 1) = From(u, n + 1)
    BY EndsOfCat
  <1>4. \A j \in Nat : j <= Len(h) => ~At(tag, w, j)
    OBVIOUS
  <1>5. u = <<>> => w = h
    BY Cats
  <1> HIDE DEF w
  <1>6. ASSUME NEW j \in Nat PROVE At(tag, w, Len(h) + j) <=> At(tag, u, j)
    <2>1. CASE j = 0
      <3>1. Len(h) + j = Len(h) /\ ~(j \in 1..(Len(u) - 1))
        BY <1>1, <2>1
      <3> QED BY <1>1, <1>4, <3>1 DEF At
    <2>2. CASE j # 0
      <3>1. Len(h) + j \in 1..(Len(w) - 1) <=> j \in 1..(Len(u) - 1)
        BY <1>1, <2>2
      <3>2. ASSUME j \in 1..(Len(u) - 1)
            PROVE  w[Len(h) + j] = u[j] /\ w[Len(h) + j + 1] = u[j + 1]
        <4>1. j \in 1..Len(u) /\ j + 1 \in 1..Len(u) /\ Len(h) + j + 1 = Len(h) + (j + 1)
          BY <1>1, <3>2
        <4> QED BY <1>2, <4>1
      <3> QED BY <3>1, <3>2 DEF At
    <2> QED BY <2>1, <2>2
  <1>7. ASSUME NEW i \in Nat, ~(i <= Len(h))
        PROVE  \E j \in Nat : i = Len(h) + j /\ (At(tag, w, i) <=> At(tag, u, j))
    <2> DEFINE j == i - Len(h)
    <2>1. j \in Nat /\ i = Len(h) + j
      BY <1>1, <1>7
    <2> HIDE DEF j
    <2> QED BY <1>6, <2>1
  <1>8. CASE Find(tag, u) = 0
    <2>1. \A j \in Nat : ~At(tag, u, j)
      BY <1>1, <1>8, FindIs
    <2>2. ASSUME NEW i \in Nat PROVE ~At(tag, w, i)
      BY <1>4, <1>7, <2>1
    <2>3. Find(tag, w) = 0
      BY <1>1, <2>2, NotFound
    <2>4. Parse(inside, w) = Untagged(inside, w) /\ Parse(inside, u) = Untagged(inside, u)
      BY <1>1, <1>8, <2>3, ParsedIs DEF Parse
    <2>5. Kept(inside, u) \in Nat /\ Kept(inside, u) <= Len(u)
      BY ParseParts
    <2>6. Kept(inside, w) = Len(h) + Kept(inside, u)
      <3>1. CASE u = <<>>
        <4>1. Kept(inside, w) = Len(h)
          BY <1>5, <3>1
        <4>2. Len(u) = 0
          BY <3>1, TextIs
        <4> QED BY <1>1, <2>5, <4>1, <4>2
      <3>2. CASE u # <<>>
        <4>1. Len(u) # 0
          BY <3>2, TextIs
        <4>2. Len(u) \in 1..Len(u) /\ Len(w) # 0
          BY <1>1, <4>1
        <4>3. w[Len(w)] = u[Len(u)]
          BY <1>1, <1>2, <4>2
        <4>4. partial_marker_len(w, tag) = partial_marker_len(u, tag)
          BY <1>1, <4>1, <4>2, <4>3, PartialIs
        <4>5. partial_marker_len(u, tag) \in {0, 1}
          BY <1>1, PartialIs
        <4> QED BY <1>1, <4>4, <4>5 DEF Kept
      <3> QED BY <3>1, <3>2
    <2>7. /\ SubSeq(w, 1, Kept(inside, w)) = h \o SubSeq(u, 1, Kept(inside, u))
          /\ From(w, Kept(inside, w) + 1) = From(u, Kept(inside, u) + 1)
      BY <1>3, <2>5, <2>6
    <2> DEFINE s == SubSeq(u, 1, Kept(inside, u))
               x == [inside |-> inside, carry |-> From(u, Kept(inside, u) + 1),
                     delta |-> NoText]
    <2>8. s \in Text /\ From(u, Kept(inside, u) + 1) \in Text
      BY <2>5, Parts
    <2>9. x \in ParseType
      <3>1. NoText \in [c : Text, r : Text]
        BY <1>1, Cats DEF NoText
      <3> QED BY <2>8, <3>1 DEF ParseType
    <2>10. /\ Untagged(inside, w) = Prepend(inside, h \o s, x)
           /\ Untagged(inside, u) = Prepend(inside, s, x)
      BY <2>7 DEF Untagged
    <2> HIDE DEF s, x
    <2>11. Prepend(inside, h \o s, x) = Prepend(inside, h, Prepend(inside, s, x))
      BY <2>8, <2>9, PrependTwice
    <2> QED BY <2>4, <2>10, <2>11 DEF w
  <1>9. CASE Find(tag, u) # 0
    <2> DEFINE j == Find(tag, u)
    <2>1. /\ j \in Nat /\ At(tag, u, j) /\ \A i \in Nat : At(tag, u, i) => j <= i
      BY <1>1, <1>9, FindIs
    <2>2. j = Find(tag, u)
      OBVIOUS
    <2> HIDE DEF j
    <2>3. At(tag, w, Len(h) + j) /\ Len(h) + j \in Nat
      BY <1>1, <1>6, <2>1
    <2>4. ASSUME NEW i \in Nat, i < Len(h) + j PROVE ~At(tag, w, i)
      <3>1. CASE i <= Len(h)
        BY <1>4, <3>1
      <3>2. CASE ~(i <= Len(h))
        <4>1. PICK k \in Nat : i = Len(h) + k /\ (At(tag, w, i) <=> At(tag, u, k))
          BY <1>7, <3>2
        <4>2. ~(j <= k)
          BY <1>1, <2>1, <2>4, <4>1
        <4> QED BY <2>1, <4>1, <4>2
      <3> QED BY <3>1, <3>2
    <2>5. Find(tag, w) = Len(h) + j
      BY <1>1, <2>3, <2>4, FoundAt
    <2>6. j \in 1..(Len(u) - 1)
      BY <2>1 DEF At
    <2>7. /\ j - 1 \in Nat /\ j - 1 <= Len(u) /\ j + 1 \in Nat /\ j + 1 <= Len(u)
          /\ Len(h) + j - 1 = Len(h) + (j - 1)
          /\ Len(h) + j + Len(tag) = Len(h) + (j + 1) + 1
          /\ j + Len(tag) = (j + 1) + 1
      BY <1>1, <2>6
    <2>8. SubSeq(w, 1, Len(h) + j - 1) = h \o SubSeq(u, 1, j - 1)
      BY <1>3, <2>7
    <2>9. From(w, Len(h) + j + Len(tag)) = From(u, j + Len(tag))
      <3>1. From(w, Len(h) + (j + 1) + 1) = From(u, (j + 1) + 1)
        BY <1>3, <2>7
      <3> QED BY <2>7, <3>1
    <2>10. Beyond(inside, w) = Beyond(inside, u)
      BY <2>2, <2>5, <2>9 DEF Beyond
    <2> DEFINE s == SubSeq(u, 1, j - 1)
               x == Parse(~inside, Beyond(inside, u))
    <2>11. s \in Text /\ Beyond(inside, u) \in Text
      BY <1>9, <2>2, ParseParts
    <2>12. x \in ParseType
      BY <2>11, ParsedIs DEF Parse
    <2>13. Parse(inside, u) = Prepend(inside, s, x)
      BY <1>9, <2>2, ParsedIs DEF Parse
    <2>14. Parse(inside, w) = Prepend(inside, h \o s, x)
      <3>1. Find(tag, w) # 0
        BY <1>1, <2>5, <2>6
      <3>2. SubSeq(w, 1, Find(tag, w) - 1) = h \o s
        <4> HIDE DEF s
        <4>1. Find(tag, w) - 1 = Len(h) + (j - 1)
          BY <1>1, <2>1, <2>5
        <4>2. SubSeq(w, 1, Len(h) + (j - 1)) = h \o SubSeq(u, 1, j - 1)
          BY <1>3, <2>7
        <4> QED BY <4>1, <4>2 DEF s
      <3>3. Parsed[<<inside, w>>] = Prepend(inside, SubSeq(w, 1, Find(tag, w) - 1),
                                            Parsed[<<~inside, Beyond(inside, w)>>])
        BY <1>1, <3>1, ParsedIs
      <3> QED BY <2>10, <3>2, <3>3 DEF Parse
    <2> HIDE DEF s, x
    <2>15. Prepend(inside, h \o s, x) = Prepend(inside, h, Prepend(inside, s, x))
      BY <2>11, <2>12, PrependTwice
    <2> QED BY <2>13, <2>14, <2>15 DEF w
  <1> QED BY <1>8, <1>9

(* What is kept of an untagged text, and what is held back.                *)
LEMMA UntaggedIs ==
    ASSUME NEW inside \in BOOLEAN, NEW t \in Text, Find(TagIn(inside), t) = 0
    PROVE  LET h == SubSeq(t, 1, Kept(inside, t))
               x == Parse(inside, t)
           IN  /\ h \in Text /\ x \in ParseType
               /\ x.inside = inside /\ x.carry = From(t, Kept(inside, t) + 1)
               /\ x.delta = IF inside THEN [c |-> <<>>, r |-> h] ELSE [c |-> h, r |-> <<>>]
               /\ h \o x.carry = t
               /\ \A y \in ParseType : Join(x, y) = Prepend(inside, h, y)
  <1> DEFINE h == SubSeq(t, 1, Kept(inside, t))
             x == Parse(inside, t)
             z == [inside |-> inside, carry |-> From(t, Kept(inside, t) + 1),
                   delta |-> NoText]
  <1>1. h \in Text /\ From(t, Kept(inside, t) + 1) \in Text
        /\ h \o From(t, Kept(inside, t) + 1) = t
    BY ParseParts, Parts
  <1>2. <<>> \in Text /\ h \o <<>> = h
    BY <1>1, Cats
  <1>3. z \in ParseType /\ z.delta = NoText /\ z.inside = inside
        /\ z.carry = From(t, Kept(inside, t) + 1)
        /\ z.delta.c = <<>> /\ z.delta.r = <<>>
    BY <1>1, <1>2 DEF ParseType, NoText
  <1>4. x = Prepend(inside, h, z)
    BY ParsedIs DEF Parse, Untagged
  <1> HIDE DEF h, x, z
  <1>5. /\ x \in ParseType /\ x.inside = z.inside /\ x.carry = z.carry
        /\ x.delta = IF inside THEN [c |-> z.delta.c, r |-> h \o z.delta.r]
                     ELSE [c |-> h \o z.delta.c, r |-> z.delta.r]
    BY <1>1, <1>3, <1>4, Prepends
  <1>6. x.delta = IF inside THEN [c |-> <<>>, r |-> h] ELSE [c |-> h, r |-> <<>>]
    BY <1>2, <1>3, <1>5
  <1>7. ASSUME NEW y \in ParseType PROVE Join(x, y) = Prepend(inside, h, y)
    <2>1. Join(z, y) = y /\ Prepend(inside, h, Join(z, y)) = Join(Prepend(inside, h, z), y)
      BY <1>1, <1>3, PrependJoins
    <2> QED BY <1>4, <2>1
  <1>8. h \o x.carry = t
    BY <1>1, <1>3, <1>5
  <1> QED BY <1>1, <1>3, <1>5, <1>6, <1>7, <1>8 DEF h, x

(* A text may be cut anywhere: what was held back goes before the rest.    *)
Composes(inside, a, b) ==
    LET x == Parse(inside, a)
    IN  Parse(inside, a \o b) = Join(x, Parse(x.inside, x.carry \o b))

LEMMA ComposesUntagged ==
    ASSUME NEW inside \in BOOLEAN, NEW a \in Text, NEW b \in Text,
           Find(TagIn(inside), a) = 0
    PROVE  Composes(inside, a, b)
  <1> DEFINE tag == TagIn(inside)
             n == Kept(inside, a)
             h == SubSeq(a, 1, n)
             x == Parse(inside, a)
             u == x.carry \o b
             y == Parse(inside, u)
  <1>1. /\ h \in Text /\ x \in ParseType /\ x.inside = inside
        /\ x.carry = From(a, n + 1) /\ h \o x.carry = a
        /\ \A z \in ParseType : Join(x, z) = Prepend(inside, h, z)
    BY UntaggedIs
  <1>2. /\ tag \in Tags /\ n \in Nat /\ n <= Len(a) /\ Len(a) \in Nat
        /\ x.carry \in Text /\ Len(h) = n /\ Len(x.carry) = Len(a) - n
    <2>1. tag \in Tags /\ n \in Nat /\ n <= Len(a)
      BY ParseParts
    <2>2. Len(a) \in Nat
      BY TextIs
    <2> HIDE DEF n, x
    <2>3. Len(h) = n /\ From(a, n + 1) \in Text /\ Len(From(a, n + 1)) = Len(a) - n
      BY <2>1, Parts
    <2> QED BY <1>1, <2>1, <2>2, <2>3
  <1> HIDE DEF h, x
  <1>3. /\ u \in Text /\ h \o u = a \o b /\ a \o b \in Text /\ Len(a \o b) = Len(a) + Len(b)
        /\ \A k \in 1..Len(a) : (a \o b)[k] = a[k]
    <2>1. u \in Text
      BY <1>2, Cats
    <2>2. h \o u = (h \o x.carry) \o b
      BY <1>1, <1>2, CatsGroup
    <2>3. a \o b \in Text /\ Len(a \o b) = Len(a) + Len(b)
          /\ \A k \in 1..Len(a) : (a \o b)[k] = a[k]
      BY Cats
    <2> HIDE DEF u
    <2> QED BY <1>1, <2>1, <2>2, <2>3
  <1>4. \A j \in Nat : ~At(tag, a, j)
    BY <1>2, FindIs
  <1>5. partial_marker_len(a, tag) = IF Len(a) # 0 /\ a[Len(a)] = tag[1] THEN 1 ELSE 0
    BY <1>2, PartialIs
  <1>6. n = Len(a) - partial_marker_len(a, tag)
    BY DEF Kept
  <1> HIDE DEF n
  <1>7. ASSUME NEW j \in Nat, j <= Len(h), At(tag, a \o b, j) PROVE FALSE
    <2>1. j \in 1..Len(a) /\ j <= n /\ (a \o b)[j] = tag[1] /\ (a \o b)[j + 1] = tag[2]
      BY <1>2, <1>7 DEF At
    <2>2. a[j] = tag[1]
      BY <1>3, <2>1
    <2>3. CASE j = Len(a)
      BY <1>2, <1>5, <1>6, <2>1, <2>2, <2>3
    <2>4. CASE j # Len(a)
      <3>1. j \in 1..(Len(a) - 1) /\ j + 1 \in 1..Len(a)
        BY <1>2, <2>1, <2>4
      <3>2. a[j + 1] = tag[2]
        BY <1>3, <2>1, <3>1
      <3>3. At(tag, a, j)
        BY <2>2, <3>1, <3>2 DEF At
      <3> QED BY <1>4, <3>3
    <2> QED BY <2>3, <2>4
  <1>8. ASSUME u = <<>> PROVE Kept(inside, h) = Len(h)
    <2>1. x.carry = <<>>
      BY <1>2, <1>8, Cats
    <2>2. h = a
      BY <1>1, <2>1, Cats
    <2>3. Len(x.carry) = 0
      BY <1>2, <2>1, TextIs
    <2>4. n = Len(a)
      BY <1>2, <2>3
    <2> QED BY <1>2, <2>2, <2>4 DEF n
  <1>9. Parse(inside, h \o u) = Prepend(inside, h, y)
    <2> HIDE DEF u
    <2>1. \A j \in Nat : j <= Len(h) => ~At(TagIn(inside), h \o u, j)
      BY <1>3, <1>7
    <2> QED BY <1>1, <1>3, <1>8, <2>1, Peel
  <1>10. y \in ParseType
    BY <1>3, ParsedIs DEF Parse
  <1>11. Parse(inside, a \o b) = Join(x, y)
    <2> HIDE DEF u, y
    <2> QED BY <1>1, <1>3, <1>9, <1>10
  <1> QED BY <1>1, <1>11 DEF Composes, x

LEMMA ComposesTagged ==
    ASSUME NEW inside \in BOOLEAN, NEW a \in Text, NEW b \in Text,
           Find(TagIn(inside), a) # 0, Composes(~inside, Beyond(inside, a), b)
    PROVE  Composes(inside, a, b)
  <1> DEFINE tag == TagIn(inside)
             i == Find(tag, a)
             w == a \o b
             h == SubSeq(a, 1, i - 1)
             rest == Beyond(inside, a)
             x == Parse(~inside, rest)
             y == Parse(x.inside, x.carry \o b)
  <1>1. /\ tag \in Tags /\ Len(tag) = 2 /\ h \in Text /\ rest \in Text
        /\ i \in Nat /\ At(tag, a, i) /\ \A j \in Nat : At(tag, a, j) => i <= j
    BY ParseParts, FindIs, TagsAre
  <1>2. /\ w \in Text /\ Len(w) = Len(a) + Len(b) /\ Len(a) \in Nat /\ Len(b) \in Nat
        /\ \A k \in 1..Len(a) : w[k] = a[k]
    BY Cats, TextIs
  <1>3. \A n \in Nat : n <= Len(a) => /\ SubSeq(w, 1, n) = SubSeq(a, 1, n)
                                      /\ From(w, n + 1) = From(a, n + 1) \o b
    BY EndsOfCat
  <1>4. /\ Parse(inside, a) = Prepend(inside, h, x) /\ x \in ParseType
        /\ rest = From(a, i + Len(tag))
    BY <1>1, ParsedIs DEF Parse, Beyond
  <1>5. Parse(~inside, rest \o b) = Join(x, y)
    BY DEF Composes
  <1>6. i \in 1..(Len(a) - 1)
    BY <1>1 DEF At
  <1> HIDE DEF i, w, h
  <1>7. ASSUME NEW j \in 1..(Len(a) - 1) PROVE At(tag, w, j) <=> At(tag, a, j)
    <2>1. j \in 1..(Len(w) - 1) /\ j \in 1..Len(a) /\ j + 1 \in 1..Len(a)
      BY <1>2
    <2> QED BY <1>2, <2>1 DEF At
  <1>8. Find(tag, w) = i
    <2>1. At(tag, w, i)
      BY <1>1, <1>6, <1>7
    <2>2. ASSUME NEW j \in Nat, j < i PROVE ~At(tag, w, j)
      <3>1. CASE j = 0
        BY <3>1 DEF At
      <3>2. CASE j # 0
        <4>1. j \in 1..(Len(a) - 1) /\ ~(i <= j)
          BY <1>1, <1>2, <1>6, <2>2, <3>2
        <4> QED BY <1>1, <1>7, <4>1
      <3> QED BY <3>1, <3>2
    <2> QED BY <1>1, <1>2, <2>1, <2>2, FoundAt
  <1>9. /\ i - 1 \in Nat /\ i - 1 <= Len(a) /\ i + 1 \in Nat /\ i + 1 <= Len(a)
        /\ i + Len(tag) = (i + 1) + 1
    BY <1>1, <1>2, <1>6
  <1>10. SubSeq(w, 1, i - 1) = h
    BY <1>3, <1>9 DEF h
  <1>11. Beyond(inside, w) = rest \o b
    <2>1. From(w, (i + 1) + 1) = From(a, (i + 1) + 1) \o b
      BY <1>3, <1>9
    <2> QED BY <1>4, <1>8, <1>9, <2>1 DEF Beyond
  <1>12. Parse(inside, w) = Prepend(inside, h, Parse(~inside, rest \o b))
    <2>1. Find(tag, w) # 0
      BY <1>6, <1>8
    <2>2. Parsed[<<inside, w>>] = Prepend(inside, SubSeq(w, 1, Find(tag, w) - 1),
                                          Parsed[<<~inside, Beyond(inside, w)>>])
      BY <1>2, <2>1, ParsedIs
    <2> QED BY <1>8, <1>10, <1>11, <2>2 DEF Parse
  <1>13. x.inside \in BOOLEAN /\ x.carry \o b \in Text
    BY <1>4, ParseFields, Cats
  <1>14. y \in ParseType
    BY <1>13, ParsedIs DEF Parse
  <1>15. Prepend(inside, h, x).inside = x.inside /\ Prepend(inside, h, x).carry = x.carry
    <2> HIDE DEF x
    <2> QED BY <1>1, <1>4, Prepends
  <1>16. Prepend(inside, h, Join(x, y)) = Join(Prepend(inside, h, x), y)
    <2> HIDE DEF x, y
    <2> QED BY <1>1, <1>4, <1>14, PrependJoins
  <1> HIDE DEF x
  <1> QED BY <1>4, <1>5, <1>12, <1>15, <1>16 DEF Composes, w

(* Parsing in two pieces is parsing the whole, wherever it is cut.         *)
LEMMA Composition ==
    ASSUME NEW inside \in BOOLEAN, NEW a \in Text, NEW b \in Text
    PROVE  Composes(inside, a, b)
  <1> DEFINE size == [t \in Text |-> Len(t)]
             S == {t \in Text : \A i \in BOOLEAN : Composes(i, t, b)}
  <1>1. ASSUME NEW t \in Text, \A u \in Text : size[u] < size[t] => u \in S
        PROVE  t \in S
    <2>1. ASSUME NEW i \in BOOLEAN PROVE Composes(i, t, b)
      <3>1. CASE Find(TagIn(i), t) = 0
        BY <3>1, ComposesUntagged
      <3>2. CASE Find(TagIn(i), t) # 0
        <4>1. Beyond(i, t) \in Text /\ Len(Beyond(i, t)) < Len(t)
          BY <3>2, ParseParts
        <4>2. Composes(~i, Beyond(i, t), b)
          BY <1>1, <4>1
        <4> QED BY <3>2, <4>2, ComposesTagged
      <3> QED BY <3>1, <3>2
    <2> QED BY <2>1
  <1>2. size \in [Text -> Nat]
    BY TextIs
  <1>3. Text \subseteq S
    <2> HIDE DEF S, size
    <2> QED BY <1>1, <1>2, SizeInduction
  <1> QED BY <1>3

(* Parsing a text whose blocks are all closed takes them apart like the    *)
(* conversion of a whole message, but joins their texts without newlines.  *)
Agree(t) ==
    LET x == Parse(FALSE, t)
    IN  ~Blocks[t].open => /\ ~x.inside /\ x.delta.c \o x.carry = Blocks[t].outside
                           /\ x.delta.r = Blocks[t].joined

LEMMA BlocksAgree ==
    ASSUME NEW text \in Text
    PROVE  Agree(text)
  <1> DEFINE size == [t \in Text |-> Len(t)]
             S == {t \in Text : Agree(t)}
  <1>0. TagIn(FALSE) = OpenTag /\ TagIn(TRUE) = CloseTag
    BY DEF TagIn
  <1>1. ASSUME NEW t \in Text, \A u \in Text : size[u] < size[t] => u \in S
        PROVE  Agree(t)
    <2> DEFINE x == Parse(FALSE, t)
    <2>1. CASE Find(OpenTag, t) = 0
      <3> DEFINE h == SubSeq(t, 1, Kept(FALSE, t))
      <3>1. ~x.inside /\ x.delta = [c |-> h, r |-> <<>>] /\ h \o x.carry = t
        BY <1>0, <2>1, UntaggedIs
      <3>2. Blocks[t] = NoBlock(t)
        BY <2>1, BlocksAre DEF Unpaired
      <3> HIDE DEF h, x
      <3>3. x.delta.c = h /\ x.delta.r = <<>>
        BY <3>1
      <3>4. Blocks[t].joined = <<>> /\ Blocks[t].outside = t
        BY <3>2 DEF NoBlock
      <3>5. ~x.inside /\ x.delta.c \o x.carry = Blocks[t].outside
            /\ x.delta.r = Blocks[t].joined
        BY <3>1, <3>3, <3>4
      <3> QED BY <3>5 DEF Agree, x
    <2>2. CASE Find(OpenTag, t) # 0 /\ Find(CloseTag, Inner(t)) = 0
      <3>1. Blocks[t] = NoBlock(t)
        BY <2>2, BlocksAre DEF Unpaired
      <3>2. Find(OpenTag, t) > 0
        <4>1. OpenTag \in Tags
          BY DEF Tags
        <4>2. Find(OpenTag, t) \in Nat
          BY <4>1, FindIs
        <4> QED BY <2>2, <4>2
      <3>3. Blocks[t].open
        <4> DEFINE o == Find(OpenTag, t) > 0
        <4>1. o = TRUE
          BY <3>2
        <4>2. Blocks[t] = [inside |-> <<>>, joined |-> <<>>, outside |-> t, open |-> o]
          BY <3>1 DEF NoBlock
        <4> HIDE DEF o
        <4>3. Blocks[t].open = o
          BY <4>2
        <4> QED BY <4>1, <4>3
      <3> QED BY <3>3 DEF Agree
    <2>3. CASE ~Unpaired(t)
      <3> DEFINE y == Parse(TRUE, Inner(t))
                 z == Parse(FALSE, After(t))
                 g == SubSeq(t, 1, Find(OpenTag, t) - 1)
                 h == SubSeq(Inner(t), 1, Find(CloseTag, Inner(t)) - 1)
                 rest == Blocks[After(t)]
      <3>1. Inner(t) \in Text /\ After(t) \in Text /\ Len(After(t)) < Len(t)
        BY <2>3, BlockParts
      <3>2. After(t) \in S
        BY <1>1, <3>1
      <3>3. /\ Beyond(FALSE, t) = Inner(t) /\ Beyond(TRUE, Inner(t)) = After(t)
        BY <1>0 DEF Beyond, Inner, After
      <3>4. g \in Text /\ h \in Text
        BY <1>0, <2>3, <3>1, ParseParts DEF Unpaired
      <3>5. x = Prepend(FALSE, g, y)
        <4>1. Parsed[<<FALSE, t>>] = Prepend(FALSE, g, Parsed[<<~FALSE, Inner(t)>>])
          BY <1>0, <2>3, <3>3, ParsedIs DEF Unpaired
        <4>2. ~FALSE = TRUE
          OBVIOUS
        <4> QED BY <4>1, <4>2 DEF Parse
      <3>6. y = Prepend(TRUE, h, z)
        <4>1. Parsed[<<TRUE, Inner(t)>>] = Prepend(TRUE, h, Parsed[<<~TRUE, After(t)>>])
          BY <1>0, <2>3, <3>1, <3>3, ParsedIs DEF Unpaired
        <4>2. ~TRUE = FALSE
          OBVIOUS
        <4> QED BY <4>1, <4>2 DEF Parse
      <3>7. y \in ParseType /\ z \in ParseType
        BY <3>1, ParsedIs DEF Parse
      <3>8. Blocks[t] = AddBlock(t, rest)
        BY <2>3, BlocksAre
      <3>9. Blocks[t].joined = h \o rest.joined /\ Blocks[t].outside = g \o rest.outside
            /\ Blocks[t].open = rest.open
        <4> DEFINE i == h \o Break(t, rest) \o rest.inside
                   p == h \o rest.joined
                   q == g \o rest.outside
                   o == rest.open
        <4>1. AddBlock(t, rest) = [inside |-> i, joined |-> p, outside |-> q, open |-> o]
          BY DEF AddBlock, Piece
        <4>2. Blocks[t] = [inside |-> i, joined |-> p, outside |-> q, open |-> o]
          BY <3>8, <4>1
        <4> HIDE DEF i, p, q, o
        <4>3. Blocks[t].joined = p /\ Blocks[t].outside = q /\ Blocks[t].open = o
          BY <4>2
        <4> QED BY <4>3 DEF p, q, o
      <3>10. ~rest.open => /\ ~z.inside /\ z.delta.c \o z.carry = rest.outside
                           /\ z.delta.r = rest.joined
        BY <3>2 DEF Agree
      <3> HIDE DEF g, h, rest, y, z, x
      <3>11. y.inside = z.inside /\ y.carry = z.carry
             /\ y.delta = [c |-> z.delta.c, r |-> h \o z.delta.r]
        BY <3>4, <3>6, <3>7, Prepends
      <3>12. x.inside = y.inside /\ x.carry = y.carry
             /\ x.delta = [c |-> g \o y.delta.c, r |-> y.delta.r]
        BY <3>4, <3>5, <3>7, Prepends
      <3>13. x.inside = z.inside /\ x.carry = z.carry
             /\ x.delta.c = g \o z.delta.c /\ x.delta.r = h \o z.delta.r
        BY <3>11, <3>12
      <3>14. (g \o z.delta.c) \o z.carry = g \o (z.delta.c \o z.carry)
        <4>1. z.delta.c \in Text /\ z.carry \in Text
          BY <3>7, ParseFields
        <4> QED BY <3>4, <4>1, CatsGroup
      <3>15. ASSUME ~Blocks[t].open
             PROVE  /\ ~x.inside /\ x.delta.c \o x.carry = Blocks[t].outside
                    /\ x.delta.r = Blocks[t].joined
        BY <3>9, <3>10, <3>13, <3>14, <3>15
      <3> QED BY <3>15 DEF Agree, x
    <2> QED BY <2>1, <2>2, <2>3 DEF Unpaired
  <1>2. size \in [Text -> Nat]
    BY TextIs
  <1>3. Text \subseteq S
    <2>1. \A t \in Text : (\A u \in Text : size[u] < size[t] => u \in S) => t \in S
      BY <1>1
    <2> HIDE DEF S, size
    <2> QED BY <1>2, <2>1, SizeInduction
  <1> QED BY <1>3

-----------------------------------------------------------------------------
(* A stream against a whole answer.                                        *)

Message     == [c : Text, r : Text]
Transformer == [phase : {"content", "think"}, carry : Text, open : BOOLEAN,
                closed : BOOLEAN]

Prefixed(p, c) == IF c = <<>> THEN c ELSE p \o c

(* The thoughts in their tags, the second of which is sent with a text.    *)
Thought(m) ==
    IF m.r = <<>> THEN <<>>
    ELSE OpenTag \o m.r \o (IF m.c = <<>> THEN <<>> ELSE CloseTag)

(* What has been given of the message m, whose text with its prefix is w,  *)
(* and what the transformer remembers of it.                               *)
GivenPlain(m, w, text) == text = [c |-> w, r |-> m.r]

GivenTagged(m, w, tf, text) ==
    /\ tf.open <=> m.r # <<>>
    /\ tf.closed <=> m.r # <<>> /\ m.c # <<>>
    /\ text = [c |-> Thought(m) \o w, r |-> <<>>]

GivenParsed(m, w, tf, text) ==
    LET p == Parse(FALSE, w)
    IN  /\ tf.phase = IF p.inside THEN "think" ELSE "content"
        /\ tf.carry = p.carry
        /\ text = [c |-> p.delta.c, r |-> m.r \o p.delta.r]

Given(target, m, w, tf, text) ==
    CASE target = "passthrough" -> GivenPlain(m, w, text)
      [] target = "think_tag" -> GivenTagged(m, w, tf, text)
      [] target = "reasoning" -> GivenParsed(m, w, tf, text)

(* The client has the text that it is to have when it is given [DONE].     *)
AsWhole == client.text = Unbroken(transform_message(Whole, req.target))

(* As long as no end is given or queued, the client has what a whole       *)
(* answer with the text so far begins with.                                *)
OpenFits ==
    req.api \in OpenAI /\ client.ends = <<>> /\ ~sse.pending /\ client.orderly =>
        /\ sent \in Message /\ sse.tf \in Transformer
        /\ sse.prefixed <=> req.prefix # <<>> /\ sent.c # <<>>
        /\ Given(req.target, sent, Prefixed(req.prefix, sent.c), sse.tf, client.text)

(* When [DONE] is queued it has everything; and nothing is flushed twice.  *)
StreamFits ==
    /\ OpenFits
    /\ sse.pending /\ client.ends = <<>> /\ client.orderly /\ Closed => AsWhole
    /\ client.orderly /\ \/ sse.pending /\ client.ends = <<>>
                         \/ sse.flag /\ client.ends = <<"done">>
          => finalize(sse.tf, req.target) = NoText

LEMMA PutIs ==
    ASSUME NEW m, NEW c \in Text, NEW r \in Text, m = [c |-> c, r |-> r], NEW d \in Message
    PROVE  Put(m, d) = [c |-> c \o d.c, r |-> r \o d.r]
  <1>1. m.c = c /\ m.r = r
    OBVIOUS
  <1>2. CASE d = NoText
    <2>1. d.c = <<>> /\ d.r = <<>>
      BY <1>2 DEF NoText
    <2>2. c \o d.c = c /\ r \o d.r = r
      BY <2>1, Cats
    <2> QED BY <1>2, <2>2 DEF Put
  <1>3. CASE d # NoText
    BY <1>1, <1>3 DEF Put
  <1> QED BY <1>2, <1>3

LEMMA MessageIs ==
    ASSUME NEW m \in Message
    PROVE  /\ m.c \in Text /\ m.r \in Text /\ m = [c |-> m.c, r |-> m.r]
           /\ \A n \in Message : n.c = m.c /\ n.r = m.r => n = m
  BY DEF Message

LEMMA PutMessage ==
    ASSUME NEW m \in Message, NEW d \in Message
    PROVE  /\ Put(m, d) \in Message
           /\ Put(m, d).c = m.c \o d.c /\ Put(m, d).r = m.r \o d.r
  <1>1. /\ m = [c |-> m.c, r |-> m.r] /\ m.c \in Text /\ m.r \in Text
        /\ d.c \in Text /\ d.r \in Text
    BY MessageIs
  <1> DEFINE s == m.c \o d.c
             t == m.r \o d.r
             p == Put(m, d)
  <1>2. p = [c |-> s, r |-> t]
    BY <1>1, PutIs
  <1>3. s \in Text /\ t \in Text
    BY <1>1, Cats
  <1> HIDE DEF p, s, t
  <1>4. p.c = s /\ p.r = t /\ p \in Message
    BY <1>2, <1>3 DEF Message
  <1> QED BY <1>4 DEF p, s, t

(* The prefix is put before the first text only, wherever the text is cut. *)
LEMMA PrefixOnce ==
    ASSUME NEW p \in Text, NEW c \in Text, NEW d \in Text, NEW prefixed \in BOOLEAN,
           prefixed <=> p # <<>> /\ c # <<>>
    PROVE  LET first == ~prefixed /\ p # <<>> /\ d # <<>>
               b     == IF first THEN p \o d ELSE d
           IN  /\ b \in Text /\ (b = <<>> <=> d = <<>>)
               /\ Prefixed(p, c) \in Text /\ (Prefixed(p, c) = <<>> <=> c = <<>>)
               /\ Prefixed(p, c \o d) = Prefixed(p, c) \o b
               /\ prefixed \/ first <=> p # <<>> /\ c \o d # <<>>
  <1> DEFINE first == ~prefixed /\ p # <<>> /\ d # <<>>
             b == IF first THEN p \o d ELSE d
  <1>1. /\ p \o d \in Text /\ p \o c \in Text /\ c \o d \in Text /\ <<>> \in Text
        /\ (p \o d = <<>> <=> p = <<>> /\ d = <<>>) /\ (c \o d = <<>> <=> c = <<>> /\ d = <<>>)
        /\ (p \o c = <<>> <=> p = <<>> /\ c = <<>>)
        /\ c \o <<>> = c /\ <<>> \o d = d /\ p \o <<>> = p /\ <<>> \o c = c
    BY Cats
  <1>2. b \in Text /\ (b = <<>> <=> d = <<>>)
    BY <1>1
  <1>3. Prefixed(p, c) \in Text /\ (Prefixed(p, c) = <<>> <=> c = <<>>)
    BY <1>1 DEF Prefixed
  <1>4. prefixed \/ first <=> p # <<>> /\ c \o d # <<>>
    BY <1>1
  <1>5. Prefixed(p, c \o d) = Prefixed(p, c) \o b
    <2>1. CASE d = <<>>
      <3>1. b = <<>> /\ c \o d = c /\ Prefixed(p, c) \o <<>> = Prefixed(p, c)
        BY <1>1, <1>3, <2>1, Cats
      <3> QED BY <3>1
    <2>2. CASE d # <<>> /\ c = <<>>
      <3>1. Prefixed(p, c) = <<>> /\ b = p \o d /\ c \o d = d
        BY <1>1, <2>2 DEF Prefixed
      <3>2. <<>> \o (p \o d) = p \o d
        BY <1>1, Cats
      <3> QED BY <2>2, <3>1, <3>2 DEF Prefixed
    <2>3. CASE d # <<>> /\ c # <<>>
      <3>1. Prefixed(p, c) = p \o c /\ b = d /\ Prefixed(p, c \o d) = p \o (c \o d)
        BY <1>1, <2>3 DEF Prefixed
      <3>2. (p \o c) \o d = p \o (c \o d)
        BY CatsGroup
      <3> QED BY <3>1, <3>2
    <2> QED BY <2>1, <2>2, <2>3
  <1> QED BY <1>2, <1>3, <1>4, <1>5

(* A further delta d, whose text with its prefix is b.                     *)
LEMMA MorePlain ==
    ASSUME NEW m \in Message, NEW d \in Message, NEW w \in Text, NEW b \in Text,
           NEW text, GivenPlain(m, w, text)
    PROVE  GivenPlain(Put(m, d), w \o b, Put(text, [c |-> b, r |-> d.r]))
  <1>1. m = [c |-> m.c, r |-> m.r] /\ m.c \in Text /\ m.r \in Text /\ d.r \in Text
    BY MessageIs
  <1>3. [c |-> b, r |-> d.r] \in Message
    BY <1>1 DEF Message
  <1>4. Put(text, [c |-> b, r |-> d.r]) = [c |-> w \o b, r |-> m.r \o d.r]
    <2>1. [c |-> b, r |-> d.r].c = b /\ [c |-> b, r |-> d.r].r = d.r
      OBVIOUS
    <2>2. text = [c |-> w, r |-> m.r]
      BY DEF GivenPlain
    <2> QED BY <1>1, <1>3, <2>1, <2>2, PutIs
  <1>5. Put(m, d).r = m.r \o d.r
    BY PutMessage
  <1> QED BY <1>4, <1>5 DEF GivenPlain

(* The tags: the first is sent with the first thought, the second with the *)
(* first text after it.                                                    *)
LEMMA MoreTagged ==
    ASSUME NEW m \in Message, NEW d \in Message, d.c = <<>> \/ d.r = <<>>,
           d.r # <<>> => m.c = <<>>,
           NEW w \in Text, w = <<>> <=> m.c = <<>>,
           NEW b \in Text, b = <<>> <=> d.c = <<>>,
           NEW tf \in Transformer, NEW text, GivenTagged(m, w, tf, text)
    PROVE  LET res == transform_delta(tf, [c |-> b, r |-> d.r], "think_tag")
           IN  /\ res.tf \in Transformer
               /\ GivenTagged(Put(m, d), w \o b, res.tf, Put(text, res.delta))
  <1> DEFINE opens  == d.r # <<>> /\ ~tf.open
             opened == tf.open \/ d.r # <<>>
             closes == b # <<>> /\ opened /\ ~tf.closed
             first  == IF opens THEN OpenTag ELSE <<>>
             second == IF closes THEN CloseTag ELSE <<>>
             more   == first \o d.r \o second \o b
             ntf    == [tf EXCEPT !.open = opened, !.closed = @ \/ closes]
             res    == transform_delta(tf, [c |-> b, r |-> d.r], "think_tag")
             n      == Put(m, d)
  <1>1. /\ m = [c |-> m.c, r |-> m.r] /\ m.c \in Text /\ m.r \in Text
        /\ d.c \in Text /\ d.r \in Text /\ d = [c |-> d.c, r |-> d.r]
    BY MessageIs
  <1>3. n.c = m.c \o d.c /\ n.r = m.r \o d.r
    BY PutMessage
  <1>4. res = [tf |-> ntf, delta |-> [c |-> more, r |-> <<>>]]
    <2>1. [c |-> b, r |-> d.r].c = b /\ [c |-> b, r |-> d.r].r = d.r
      OBVIOUS
    <2> QED BY <2>1 DEF transform_delta
  <1>5. res.tf = ntf /\ res.delta = [c |-> more, r |-> <<>>]
    <2> HIDE DEF ntf, more
    <2> QED BY <1>4
  <1>6. OpenTag \in Text /\ CloseTag \in Text /\ <<>> \in Text
    BY TagsAre, Cats DEF Tags
  <1>7. /\ tf.open \in BOOLEAN /\ tf.closed \in BOOLEAN
        /\ tf = [phase |-> tf.phase, carry |-> tf.carry, open |-> tf.open,
                 closed |-> tf.closed]
        /\ tf.phase \in {"content", "think"} /\ tf.carry \in Text
    BY DEF Transformer
  <1>9. /\ (tf.open <=> m.r # <<>>) /\ (tf.closed <=> m.r # <<>> /\ m.c # <<>>)
        /\ text = [c |-> Thought(m) \o w, r |-> <<>>]
    BY DEF GivenTagged
  <1>10. /\ n.r = <<>> <=> m.r = <<>> /\ d.r = <<>>
         /\ n.c = <<>> <=> m.c = <<>> /\ d.c = <<>>
    BY <1>1, <1>3, Cats
  <1>11. ntf \in Transformer /\ ntf.open = opened /\ ntf.closed = (tf.closed \/ closes)
    <2> DEFINE o == opened
               k == tf.closed \/ closes
    <2>1. o \in BOOLEAN /\ k \in BOOLEAN
      BY <1>7
    <2>2. ntf = [tf EXCEPT !.open = o, !.closed = k]
      OBVIOUS
    <2> HIDE DEF o, k, ntf
    <2>4. ntf = [phase |-> tf.phase, carry |-> tf.carry, open |-> o, closed |-> k]
      BY <1>7, <2>2
    <2>3. ntf \in Transformer /\ ntf.open = o /\ ntf.closed = k
      BY <1>7, <2>1, <2>4 DEF Transformer
    <2> QED BY <2>3 DEF o, k
  <1>12. (opened <=> n.r # <<>>) /\ (tf.closed \/ closes <=> n.r # <<>> /\ n.c # <<>>)
    BY <1>9, <1>10
  <1>13. first \in Text /\ second \in Text /\ Thought(m) \in Text
    <2>1. OpenTag \o m.r \in Text
      BY <1>1, <1>6, Cats
    <2>2. OpenTag \o m.r \o CloseTag \in Text /\ OpenTag \o m.r \o <<>> \in Text
      BY <1>6, <2>1, Cats
    <2> QED BY <1>6, <2>2 DEF Thought
  <1>14. (Thought(m) \o w) \o more = Thought(n) \o (w \o b)
    <2>1. CASE d.r # <<>>
      <3>1. w = <<>> /\ b = <<>> /\ second = <<>> /\ m.c = <<>> /\ n.c = <<>>
        BY <1>10, <2>1
      <3>2. OpenTag \o (m.r \o d.r) = (OpenTag \o m.r) \o d.r
            /\ OpenTag \o (m.r \o d.r) \in Text /\ OpenTag \o m.r \in Text
            /\ OpenTag \o d.r \in Text
        <4>1. m.r \o d.r \in Text
          BY <1>1, Cats
        <4>2. OpenTag \o (m.r \o d.r) \in Text /\ OpenTag \o m.r \in Text
              /\ OpenTag \o d.r \in Text
          BY <1>1, <1>6, <4>1, Cats
        <4>3. OpenTag \o (m.r \o d.r) = (OpenTag \o m.r) \o d.r
          <5> DEFINE p == OpenTag
                     u == m.r
                     v == d.r
          <5>1. p \in Text /\ u \in Text /\ v \in Text
            BY <1>1, <1>6
          <5> HIDE DEF p, u, v
          <5>2. (p \o u) \o v = p \o (u \o v)
            BY <5>1, CatsGroup
          <5> QED BY <5>2 DEF p, u, v
        <4> QED BY <4>2, <4>3
      <3>3. Thought(n) = OpenTag \o (m.r \o d.r)
        <4> DEFINE u == m.r \o d.r
        <4>1. (OpenTag \o u) \o <<>> = OpenTag \o u
          BY <3>2, Cats
        <4>2. n.r = u /\ n.r # <<>> /\ n.c = <<>>
          BY <1>3, <1>10, <2>1, <3>1
        <4> HIDE DEF u, n
        <4>3. Thought(n) = OpenTag \o u
          BY <4>1, <4>2 DEF Thought
        <4> QED BY <4>3 DEF u
      <3>4. first \o d.r \in Text
        BY <1>1, <1>13, Cats
      <3>5. more = first \o d.r
        <4> HIDE DEF first, second
        <4>1. (first \o d.r) \o <<>> = first \o d.r
          BY <3>4, Cats
        <4> QED BY <3>1, <4>1
      <3>6. Thought(m) \o w = Thought(m) /\ Thought(n) \o (w \o b) = Thought(n)
        <4>1. Thought(n) \in Text /\ <<>> \o <<>> = <<>>
          BY <1>6, <3>2, <3>3, Cats
        <4> QED BY <1>13, <3>1, <4>1, Cats
      <3>7. Thought(m) \o (first \o d.r) = OpenTag \o (m.r \o d.r)
        <4>1. CASE m.r = <<>>
          <5>1. Thought(m) = <<>> /\ first = OpenTag
            BY <1>9, <2>1, <4>1 DEF Thought
          <5>2. m.r \o d.r = d.r /\ <<>> \o (OpenTag \o d.r) = OpenTag \o d.r
            BY <1>1, <3>2, <4>1, Cats
          <5> HIDE DEF first
          <5> QED BY <5>1, <5>2
        <4>2. CASE m.r # <<>>
          <5>1. Thought(m) = OpenTag \o m.r /\ first = <<>>
            BY <1>9, <3>1, <3>2, <4>2, Cats DEF Thought
          <5>2. <<>> \o d.r = d.r
            BY <1>1, Cats
          <5> HIDE DEF first
          <5> QED BY <3>2, <5>1, <5>2
        <4> QED BY <4>1, <4>2
      <3> HIDE DEF more, first, second, n
      <3> QED BY <3>3, <3>5, <3>6, <3>7
    <2>2. CASE d.r = <<>>
      <3>1. first = <<>> /\ n.r = m.r
        BY <1>1, <1>3, <2>2, Cats
      <3>2. more = second \o b
        <4>1. <<>> \o <<>> = <<>> /\ <<>> \o second = second
          BY <1>6, <1>13, Cats
        <4> HIDE DEF first, second
        <4> QED BY <2>2, <3>1, <4>1
      <3>3. Thought(n) = Thought(m) \o second /\ (second = <<>> \/ w = <<>>)
        <4>1. CASE closes
          <5>1. m.r # <<>> /\ m.c = <<>> /\ second = CloseTag /\ n.c # <<>> /\ w = <<>>
            BY <1>9, <1>10, <2>2, <4>1
          <5>2. OpenTag \o m.r \in Text
            BY <1>1, <1>6, Cats
          <5>3. (OpenTag \o m.r) \o <<>> = OpenTag \o m.r
            BY <5>2, Cats
          <5>4. Thought(m) = OpenTag \o m.r /\ Thought(n) = OpenTag \o m.r \o CloseTag
            BY <3>1, <5>1, <5>3 DEF Thought
          <5> HIDE DEF n, second, closes
          <5> QED BY <5>1, <5>4
        <4>2. CASE ~closes
          <5>1. second = <<>>
            BY <4>2
          <5>2. m.r = <<>> \/ (n.c = <<>> <=> m.c = <<>>)
            BY <1>9, <1>10, <2>2, <4>2
          <5> HIDE DEF n, second, closes
          <5>3. Thought(n) = Thought(m)
            BY <3>1, <5>2 DEF Thought
          <5> QED BY <1>13, <5>1, <5>3, Cats
        <4> QED BY <4>1, <4>2
      <3> HIDE DEF more, first, second, n
      <3> DEFINE h == Thought(m)
      <3>4. h \in Text /\ second \in Text
        BY <1>13
      <3> HIDE DEF h
      <3>5. /\ (h \o w) \o (second \o b) = ((h \o w) \o second) \o b
            /\ (h \o second) \o (w \o b) = ((h \o second) \o w) \o b
        <4>1. h \o w \in Text /\ h \o second \in Text
          BY <3>4, Cats
        <4> HIDE DEF second
        <4>2. (h \o w) \o (second \o b) = ((h \o w) \o second) \o b
          <5> DEFINE p == h \o w
          <5>1. p \in Text
            BY <4>1
          <5> HIDE DEF p
          <5>2. p \o (second \o b) = (p \o second) \o b
            BY <3>4, <5>1, CatsGroup
          <5> QED BY <5>2 DEF p
        <4>3. (h \o second) \o (w \o b) = ((h \o second) \o w) \o b
          <5> DEFINE p == h \o second
          <5>1. p \in Text
            BY <4>1
          <5> HIDE DEF p
          <5>2. p \o (w \o b) = (p \o w) \o b
            BY <5>1, CatsGroup
          <5> QED BY <5>2 DEF p
        <4> QED BY <4>2, <4>3
      <3>6. (h \o w) \o second = (h \o second) \o w
        <4>1. h \o <<>> = h /\ (h \o w) \o <<>> = h \o w /\ (h \o second) \o <<>> = h \o second
          <5>1. h \o w \in Text /\ h \o second \in Text
            BY <3>4, Cats
          <5> QED BY <3>4, <5>1, Cats
        <4> QED BY <3>3, <4>1
      <3>7. (h \o w) \o more = (h \o second) \o (w \o b)
        BY <3>2, <3>5, <3>6
      <3> QED BY <3>3, <3>7 DEF h
    <2> QED BY <2>1, <2>2
  <1>15. Put(text, res.delta) = [c |-> Thought(n) \o (w \o b), r |-> <<>>]
    <2>1. more \in Text
      <3>1. first \o d.r \in Text
        BY <1>1, <1>13, Cats
      <3>2. first \o d.r \o second \in Text
        BY <1>13, <3>1, Cats
      <3> HIDE DEF first, second
      <3> QED BY <3>2, Cats
    <2> HIDE DEF more, n, res
    <2>2. res.delta \in Message /\ res.delta.c = more /\ res.delta.r = <<>>
      BY <1>5, <1>6, <2>1 DEF Message
    <2>3. Thought(m) \o w \in Text /\ <<>> \o <<>> = <<>>
      BY <1>6, <1>13, Cats
    <2> DEFINE a == Thought(m) \o w
               e == res.delta
    <2>4. a \in Text /\ e \in Message /\ text = [c |-> a, r |-> <<>>]
      BY <1>9, <2>2, <2>3
    <2> HIDE DEF a, e
    <2>5. Put(text, e) = [c |-> a \o e.c, r |-> <<>> \o e.r]
      BY <1>6, <2>4, PutIs
    <2>6. a \o e.c = Thought(n) \o (w \o b) /\ <<>> \o e.r = <<>>
      BY <1>14, <2>2, <2>3 DEF a, e
    <2> QED BY <2>5, <2>6 DEF e
  <1> HIDE DEF n, res, ntf, opened, closes
  <1>16. GivenTagged(n, w \o b, res.tf, Put(text, res.delta))
    BY <1>5, <1>11, <1>12, <1>15 DEF GivenTagged
  <1> QED BY <1>5, <1>11, <1>16 DEF n, res

(* The conversion to reasoning: what was held back goes before the new     *)
(* text.                                                                   *)
LEMMA MoreParsed ==
    ASSUME NEW m \in Message, NEW d \in Message, d.c = <<>> \/ d.r = <<>>,
           d.r # <<>> => m.c = <<>>,
           NEW w \in Text, w = <<>> <=> m.c = <<>>,
           NEW b \in Text, b = <<>> <=> d.c = <<>>,
           NEW tf \in Transformer, NEW text, GivenParsed(m, w, tf, text)
    PROVE  LET res == transform_delta(tf, [c |-> b, r |-> d.r], "reasoning")
           IN  /\ res.tf \in Transformer
               /\ GivenParsed(Put(m, d), w \o b, res.tf, Put(text, res.delta))
  <1> DEFINE p   == Parse(FALSE, w)
             res == transform_delta(tf, [c |-> b, r |-> d.r], "reasoning")
             n   == Put(m, d)
  <1>1. /\ m.c \in Text /\ m.r \in Text /\ d.c \in Text /\ d.r \in Text
        /\ n.r = m.r \o d.r
    BY MessageIs, PutMessage
  <1>2. p \in ParseType
    BY ParsedIs DEF Parse
  <1>3. /\ p.inside \in BOOLEAN /\ p.carry \in Text /\ p.delta.c \in Text
        /\ p.delta.r \in Text
    <2> HIDE DEF p
    <2> QED BY <1>2, ParseFields
  <1>4. /\ tf.phase = IF p.inside THEN "think" ELSE "content"
        /\ tf.carry = p.carry /\ text = [c |-> p.delta.c, r |-> m.r \o p.delta.r]
    BY DEF GivenParsed
  <1>5. [c |-> b, r |-> d.r].c = b /\ [c |-> b, r |-> d.r].r = d.r
    OBVIOUS
  <1>6. m.r \o p.delta.r \in Text
    BY <1>1, <1>3, Cats
  <1>7. CASE d.r # <<>>
    <2>1. w = <<>> /\ b = <<>> /\ w \o b = w
      <3>1. w = <<>> /\ b = <<>>
        BY <1>7
      <3> QED BY <3>1, Cats
    <2>2. res = [tf |-> tf, delta |-> [c |-> b, r |-> d.r]]
      BY <1>5, <1>7 DEF transform_delta
    <2>3. res.tf = tf /\ res.delta = [c |-> b, r |-> d.r]
      BY <2>2
    <2>4. p.delta.r = <<>>
      <3>1. OpenTag \in Tags /\ <<>> \in Text /\ TagIn(FALSE) = OpenTag
        BY Cats DEF Tags, TagIn
      <3>2. Find(OpenTag, <<>>) = 0
        <4>1. \A i \in Nat : ~At(OpenTag, <<>>, i)
          BY DEF At
        <4> QED BY <3>1, <4>1, NotFound
      <3>3. p.delta = [c |-> SubSeq(w, 1, Kept(FALSE, w)), r |-> <<>>]
        BY <2>1, <3>1, <3>2, UntaggedIs
      <3> HIDE DEF p
      <3> QED BY <3>3
    <2> DEFINE a == p.delta.c
               e == [c |-> b, r |-> d.r]
    <2>5. a \in Text /\ text = [c |-> a, r |-> m.r]
      <3>1. m.r \o <<>> = m.r
        BY <1>1, Cats
      <3> QED BY <1>3, <1>4, <2>4, <3>1
    <2>6. e \in Message /\ e.c = b /\ e.r = d.r
      BY <1>1 DEF Message
    <2> HIDE DEF a, e
    <2>7. Put(text, e) = [c |-> a \o e.c, r |-> m.r \o e.r]
      <3> DEFINE u == m.r
      <3>1. u \in Text /\ a \in Text /\ e \in Message /\ text = [c |-> a, r |-> u]
        BY <1>1, <2>5, <2>6
      <3> HIDE DEF u
      <3>2. Put(text, e) = [c |-> a \o e.c, r |-> u \o e.r]
        BY <3>1, PutIs
      <3> QED BY <3>2 DEF u
    <2>8. a \o e.c = p.delta.c /\ m.r \o e.r = n.r \o p.delta.r
      <3>1. a \o <<>> = a /\ n.r \in Text
        BY <1>1, <2>5, Cats
      <3>2. n.r \o <<>> = n.r
        BY <3>1, Cats
      <3> QED BY <1>1, <2>1, <2>4, <2>6, <3>1, <3>2 DEF a
    <2>9. Put(text, res.delta) = [c |-> p.delta.c, r |-> n.r \o p.delta.r]
      <3> HIDE DEF p, n, res
      <3> QED BY <2>3, <2>7, <2>8 DEF e
    <2> HIDE DEF n, res
    <2>10. GivenParsed(n, w \o b, res.tf, Put(text, res.delta))
      BY <1>4, <2>1, <2>3, <2>9 DEF GivenParsed
    <2> QED BY <2>3, <2>10 DEF n, res
  <1>8. CASE d.r = <<>>
    <2> DEFINE y   == Parse(p.inside, p.carry \o b)
               q   == Parse(FALSE, w \o b)
               ntf == [tf EXCEPT !.phase = IF y.inside THEN "think" ELSE "content",
                                 !.carry = y.carry]
    <2>1. n.r = m.r
      BY <1>1, <1>8, Cats
    <2>2. p.carry \o b \in Text
      BY <1>3, Cats
    <2>3. y \in ParseType
      BY <1>3, <2>2, ParsedIs DEF Parse
    <2>4. /\ y.inside \in BOOLEAN /\ y.carry \in Text /\ y.delta.c \in Text
          /\ y.delta.r \in Text /\ y.delta = [c |-> y.delta.c, r |-> y.delta.r]
      <3> HIDE DEF y
      <3> QED BY <2>3, ParseFields
    <2>5. (tf.phase = "think") = p.inside
      BY <1>3, <1>4
    <2>6. res = [tf |-> ntf, delta |-> y.delta]
      <3>1. res = parse_content_source(tf, tf.carry \o b)
        BY <1>5, <1>8 DEF transform_delta
      <3>2. Parsed[<<tf.phase = "think", tf.carry \o b>>] = y
        <4> HIDE DEF p
        <4> QED BY <1>4, <2>5 DEF Parse
      <3> QED BY <3>1, <3>2 DEF parse_content_source
    <2>7. q = Join(p, y)
      BY Composition DEF Composes
    <2> HIDE DEF p, y, q
    <2>8. ntf \in Transformer /\ ntf.carry = y.carry
          /\ ntf.phase = IF y.inside THEN "think" ELSE "content"
      <3> DEFINE h == IF y.inside THEN "think" ELSE "content"
                 k == y.carry
      <3>1. h \in {"content", "think"} /\ k \in Text
        BY <2>4
      <3>2. ntf = [tf EXCEPT !.phase = h, !.carry = k]
        OBVIOUS
      <3> HIDE DEF h, k, ntf
      <3>3. ntf \in Transformer /\ ntf.carry = k /\ ntf.phase = h
        BY <3>1, <3>2 DEF Transformer
      <3> QED BY <3>3 DEF h, k
    <2> HIDE DEF ntf
    <2>9. res.tf = ntf /\ res.delta = y.delta
      <3> DEFINE e == y.delta
      <3>1. res = [tf |-> ntf, delta |-> e]
        BY <2>6
      <3> HIDE DEF e, res
      <3>2. res.tf = ntf /\ res.delta = e
        BY <3>1
      <3> QED BY <3>2 DEF e
    <2> DEFINE a == p.delta.c
               u == m.r \o p.delta.r
               e == y.delta
    <2>10. e \in Message /\ e.c = y.delta.c /\ e.r = y.delta.r /\ a \in Text /\ u \in Text
           /\ text = [c |-> a, r |-> u]
      BY <1>3, <1>4, <1>6, <2>4 DEF Message
    <2> HIDE DEF a, u, e
    <2>11. Put(text, e) = [c |-> a \o e.c, r |-> u \o e.r]
      BY <2>10, PutIs
    <2>12. q.inside = y.inside /\ q.carry = y.carry
           /\ q.delta.c = p.delta.c \o y.delta.c /\ q.delta.r = p.delta.r \o y.delta.r
      <3> DEFINE i == p.delta.c \o y.delta.c
                 j == p.delta.r \o y.delta.r
                 f == y.inside
                 g == y.carry
      <3>1. q = [inside |-> f, carry |-> g, delta |-> [c |-> i, r |-> j]]
        BY <2>7 DEF Join
      <3> HIDE DEF i, j, f, g
      <3>2. q.inside = f /\ q.carry = g /\ q.delta.c = i /\ q.delta.r = j
        BY <3>1
      <3> QED BY <3>2 DEF i, j, f, g
    <2>13. u \o e.r = n.r \o q.delta.r
      <3>1. (m.r \o p.delta.r) \o y.delta.r = m.r \o (p.delta.r \o y.delta.r)
        <4> DEFINE i == m.r
                   j == p.delta.r
                   k == y.delta.r
        <4>1. i \in Text /\ j \in Text /\ k \in Text
          BY <1>1, <1>3, <2>4
        <4> HIDE DEF i, j, k
        <4>2. (i \o j) \o k = i \o (j \o k)
          BY <4>1, CatsGroup
        <4> QED BY <4>2 DEF i, j, k
      <3> HIDE DEF n
      <3> QED BY <2>1, <2>10, <2>12, <3>1 DEF u
    <2> HIDE DEF n, res
    <2>14. Put(text, res.delta) = [c |-> q.delta.c, r |-> n.r \o q.delta.r]
      BY <2>9, <2>10, <2>11, <2>12, <2>13 DEF a, e
    <2>15. GivenParsed(n, w \o b, res.tf, Put(text, res.delta))
      BY <2>8, <2>9, <2>12, <2>14 DEF GivenParsed, q
    <2> QED BY <2>8, <2>9, <2>15 DEF n, res
  <1> QED BY <1>7, <1>8

(* [DONE] completes what has been given to what a whole answer gives.      *)
LEMMA DonePlain ==
    ASSUME NEW m \in Message, NEW w \in Text, NEW tf, NEW text, GivenPlain(m, w, text)
    PROVE  Put(text, finalize(tf, "passthrough"))
              = transform_message([c |-> w, r |-> m.r], "passthrough")
  <1>1. finalize(tf, "passthrough") = NoText
    BY DEF finalize, NoText
  <1> QED BY <1>1 DEF Put, transform_message, GivenPlain

LEMMA DoneTagged ==
    ASSUME NEW m \in Message, NEW w \in Text, w = <<>> <=> m.c = <<>>,
           NEW tf \in Transformer, NEW text, GivenTagged(m, w, tf, text),
           Find(OpenTag, w) = 0
    PROVE  Put(text, finalize(tf, "think_tag"))
              = transform_message([c |-> w, r |-> m.r], "think_tag")
  <1> DEFINE flush == finalize(tf, "think_tag")
             last  == IF tf.open /\ ~tf.closed THEN CloseTag ELSE <<>>
             all   == IF m.r = <<>> THEN <<>> ELSE OpenTag \o m.r \o CloseTag
  <1>1. m.r \in Text /\ OpenTag \in Text /\ CloseTag \in Text /\ <<>> \in Text
    BY MessageIs, TagsAre, Cats DEF Tags
  <1>2. /\ (tf.open <=> m.r # <<>>) /\ (tf.closed <=> m.r # <<>> /\ m.c # <<>>)
        /\ text = [c |-> Thought(m) \o w, r |-> <<>>]
    BY DEF GivenTagged
  <1>3. flush = [c |-> last, r |-> <<>>]
    BY DEF finalize
  <1>4. last \in Text
    BY <1>1
  <1>5. OpenTag \o m.r \in Text
    BY <1>1, Cats
  <1>6. all \in Text /\ Thought(m) \in Text
    <2>1. OpenTag \o m.r \o CloseTag \in Text /\ OpenTag \o m.r \o <<>> \in Text
      BY <1>1, <1>5, Cats
    <2> QED BY <1>1, <2>1 DEF Thought
  <1>7. (Thought(m) \o w) \o last = all \o w
    <2>1. CASE tf.open /\ ~tf.closed
      <3>1. m.r # <<>> /\ m.c = <<>> /\ w = <<>> /\ last = CloseTag
        BY <1>2, <2>1
      <3>2. Thought(m) = OpenTag \o m.r
        <4>1. (OpenTag \o m.r) \o <<>> = OpenTag \o m.r
          BY <1>5, Cats
        <4> QED BY <3>1, <4>1 DEF Thought
      <3>3. all = OpenTag \o m.r \o CloseTag
        BY <3>1
      <3> HIDE DEF all, last
      <3>4. Thought(m) \o w = Thought(m) /\ all \o w = all
        BY <1>6, <3>1, Cats
      <3> QED BY <3>1, <3>2, <3>3, <3>4
    <2>2. CASE ~(tf.open /\ ~tf.closed)
      <3>1. last = <<>> /\ Thought(m) = all
        BY <1>2, <2>2 DEF Thought
      <3> HIDE DEF all, last
      <3>2. all \o w \in Text
        BY <1>6, Cats
      <3>3. (all \o w) \o <<>> = all \o w
        BY <3>2, Cats
      <3> QED BY <3>1, <3>3
    <2> QED BY <2>1, <2>2
  <1>8. Put(text, flush) = [c |-> all \o w, r |-> <<>>]
    <2> DEFINE a == Thought(m) \o w
    <2>1. a \in Text /\ text = [c |-> a, r |-> <<>>]
      BY <1>2, <1>6, Cats
    <2> HIDE DEF a, last, flush
    <2>2. flush \in Message /\ flush.c = last /\ flush.r = <<>>
      BY <1>1, <1>3, <1>4 DEF Message
    <2>3. Put(text, flush) = [c |-> a \o flush.c, r |-> <<>> \o flush.r]
      BY <1>1, <2>1, <2>2, PutIs
    <2>4. <<>> \o <<>> = <<>>
      BY <1>1, Cats
    <2> HIDE DEF all
    <2> QED BY <1>7, <2>2, <2>3, <2>4 DEF a
  <1>9. Blocks[w] = NoBlock(w)
    BY BlocksAre DEF Unpaired
  <1>10. transform_message([c |-> w, r |-> m.r], "think_tag") = [c |-> all \o w, r |-> <<>>]
    <2> DEFINE msg == [c |-> w, r |-> m.r]
               source == IF msg.r # <<>> THEN msg.r ELSE extract_think_blocks(msg.c).inside
    <2>1. msg.c = w /\ msg.r = m.r
      OBVIOUS
    <2>2. extract_think_blocks(msg.c).inside = <<>>
          /\ extract_think_blocks(msg.c).outside = w
      BY <1>9, <2>1 DEF extract_think_blocks, NoBlock
    <2> HIDE DEF msg
    <2>3. transform_message(msg, "think_tag") =
             [c |-> (IF source = <<>> THEN <<>> ELSE OpenTag \o source \o CloseTag)
                    \o extract_think_blocks(msg.c).outside,
              r |-> <<>>]
      BY DEF transform_message
    <2>4. source = m.r
      BY <2>1, <2>2
    <2> HIDE DEF source
    <2> QED BY <2>2, <2>3, <2>4 DEF msg
  <1> DEFINE made == transform_message([c |-> w, r |-> m.r], "think_tag")
  <1> HIDE DEF all, flush, made
  <1>11. Put(text, flush) = made
    BY <1>8, <1>10 DEF made
  <1> QED BY <1>11 DEF flush, made

LEMMA DoneParsed ==
    ASSUME NEW m \in Message, NEW w \in Text, NEW tf \in Transformer, NEW text,
           GivenParsed(m, w, tf, text),
           ~extract_think_blocks(w).open,
           m.r = <<>> \/ extract_think_blocks(w).joined = <<>>
    PROVE  Put(text, finalize(tf, "reasoning"))
              = LET blocks == extract_think_blocks(w)
                IN  [c |-> blocks.outside, r |-> IF m.r # <<>> THEN m.r ELSE blocks.joined]
  <1> DEFINE p     == Parse(FALSE, w)
             flush == finalize(tf, "reasoning")
             inner == Blocks[w].joined
             outer == Blocks[w].outside
  <1>1. m.r \in Text /\ <<>> \in Text
    BY MessageIs, Cats
  <1>2. p \in ParseType
    BY ParsedIs DEF Parse
  <1>3. /\ p.inside \in BOOLEAN /\ p.carry \in Text /\ p.delta.c \in Text
        /\ p.delta.r \in Text
    <2> HIDE DEF p
    <2> QED BY <1>2, ParseFields
  <1>4. /\ tf.phase = IF p.inside THEN "think" ELSE "content"
        /\ tf.carry = p.carry /\ text = [c |-> p.delta.c, r |-> m.r \o p.delta.r]
    BY DEF GivenParsed
  <1>5. ~p.inside /\ p.delta.c \o p.carry = outer /\ p.delta.r = inner
    BY BlocksAgree DEF Agree, extract_think_blocks
  <1> HIDE DEF p
  <1>6. flush = [c |-> p.carry, r |-> <<>>]
    <2>1. tf.phase = "content"
      BY <1>4, <1>5
    <2> QED BY <1>4, <2>1 DEF finalize
  <1>7. Put(text, flush) = [c |-> outer, r |-> m.r \o inner]
    <2> DEFINE a == p.delta.c
               u == m.r \o p.delta.r
               k == p.carry
    <2>1. a \in Text /\ u \in Text /\ k \in Text /\ text = [c |-> a, r |-> u]
      BY <1>1, <1>3, <1>4, Cats
    <2>2. a \o k = outer /\ u = m.r \o inner
      BY <1>5
    <2>3. flush = [c |-> k, r |-> <<>>]
      BY <1>6
    <2> HIDE DEF a, u, k, flush, outer, inner
    <2>4. flush \in Message /\ flush.c = k /\ flush.r = <<>>
      BY <1>1, <2>1, <2>3 DEF Message
    <2>5. Put(text, flush) = [c |-> a \o flush.c, r |-> u \o flush.r]
      BY <2>1, <2>4, PutIs
    <2>6. u \o <<>> = u
      BY <2>1, Cats
    <2> QED BY <2>2, <2>4, <2>5, <2>6
  <1>8. inner \in Text
    BY <1>3, <1>5
  <1>9. m.r \o inner = IF m.r # <<>> THEN m.r ELSE inner
    <2>1. m.r = <<>> \/ inner = <<>>
      BY DEF extract_think_blocks
    <2>2. m.r \o <<>> = m.r
      BY <1>1, Cats
    <2>3. <<>> \o inner = inner
      BY <1>8, Cats
    <2> HIDE DEF inner
    <2> QED BY <2>1, <2>2, <2>3
  <1>10. extract_think_blocks(w).outside = outer /\ extract_think_blocks(w).joined = inner
    BY DEF extract_think_blocks
  <1> HIDE DEF outer, inner, flush
  <1>11. Put(text, flush) = [c |-> outer, r |-> IF m.r # <<>> THEN m.r ELSE inner]
    BY <1>7, <1>9
  <1> QED BY <1>10, <1>11 DEF flush

LEMMA MoreGiven ==
    ASSUME NEW target \in Targets,
           NEW m \in Message, NEW d \in Message, d.c = <<>> \/ d.r = <<>>,
           d.r # <<>> => m.c = <<>>,
           NEW w \in Text, w = <<>> <=> m.c = <<>>,
           NEW b \in Text, b = <<>> <=> d.c = <<>>,
           NEW tf \in Transformer, NEW text, Given(target, m, w, tf, text)
    PROVE  LET res == transform_delta(tf, [c |-> b, r |-> d.r], target)
           IN  /\ res.tf \in Transformer
               /\ Given(target, Put(m, d), w \o b, res.tf, Put(text, res.delta))
  <1>1. CASE target = "passthrough"
    <2> DEFINE e == [c |-> b, r |-> d.r]
    <2>1. transform_delta(tf, e, target) = [tf |-> tf, delta |-> e]
      BY <1>1 DEF transform_delta
    <2> HIDE DEF e
    <2> DEFINE res == transform_delta(tf, e, target)
    <2>2. res.tf = tf /\ res.delta = e
      BY <2>1
    <2>3. GivenPlain(Put(m, d), w \o b, Put(text, e))
      BY <1>1, MorePlain DEF Given, e
    <2> HIDE DEF res
    <2>4. res.tf \in Transformer /\ Given(target, Put(m, d), w \o b, res.tf, Put(text, res.delta))
      BY <1>1, <2>2, <2>3 DEF Given
    <2> QED BY <2>4 DEF res, e
  <1>2. CASE target = "think_tag"
    BY <1>2, MoreTagged DEF Given
  <1>3. CASE target = "reasoning"
    BY <1>3, MoreParsed DEF Given
  <1> QED BY <1>1, <1>2, <1>3 DEF Targets

-----------------------------------------------------------------------------
(* The invariant of a stream.                                              *)
LEMMA StreamInit == Init => StreamFits /\ StreamedAsWhole
  <1> SUFFICES ASSUME Init PROVE StreamFits /\ StreamedAsWhole
    OBVIOUS
  <1>1. /\ client = [text |-> NoText, ends |-> <<>>, left |-> FALSE, orderly |-> TRUE]
        /\ sse = [tf |-> NewTransformer, prefixed |-> FALSE, flag |-> FALSE,
                  pending |-> FALSE, terminated |-> FALSE, events |-> 0]
        /\ sent = NoText /\ req \in Requests
    BY DEF Init
  <1>2. /\ client.text = NoText /\ sse.tf = NewTransformer /\ ~sse.prefixed /\ ~sse.flag
        /\ ~sse.pending
    <2>1. client.text = NoText
      BY <1>1
    <2>2. /\ sse.tf = NewTransformer /\ sse.prefixed = FALSE /\ sse.flag = FALSE
          /\ sse.pending = FALSE
      BY <1>1
    <2> QED BY <2>1, <2>2
  <1>3. <<>> \in Text /\ <<>> \o <<>> = <<>>
    <2>1. <<>> \in Text
      BY EmptySeq DEF Text
    <2> QED BY <2>1, Cats
  <1>4. sent \in Message /\ sent.c = <<>> /\ sent.r = <<>>
    BY <1>1, <1>3 DEF Message, NoText
  <1>5. Prefixed(req.prefix, sent.c) = <<>>
    BY <1>4 DEF Prefixed
  <1>6. NewTransformer \in Transformer /\ NewTransformer.phase = "content"
        /\ NewTransformer.carry = <<>> /\ ~NewTransformer.open /\ ~NewTransformer.closed
    BY <1>3 DEF NewTransformer, Transformer
  <1>7. Given(req.target, sent, <<>>, NewTransformer, NoText)
    <2>1. GivenPlain(sent, <<>>, NoText)
      BY <1>4 DEF GivenPlain, NoText
    <2>2. GivenTagged(sent, <<>>, NewTransformer, NoText)
      BY <1>3, <1>4, <1>6 DEF GivenTagged, NoText, Thought
    <2>3. GivenParsed(sent, <<>>, NewTransformer, NoText)
      <3> DEFINE p == Parse(FALSE, <<>>)
                 h == SubSeq(<<>>, 1, Kept(FALSE, <<>>))
      <3>1. OpenTag \in Tags /\ TagIn(FALSE) = OpenTag
        BY DEF Tags, TagIn
      <3>2. Find(OpenTag, <<>>) = 0
        <4>1. \A i \in Nat : ~At(OpenTag, <<>>, i)
          BY DEF At
        <4> QED BY <1>3, <3>1, <4>1, NotFound
      <3>3. /\ p \in ParseType /\ h \in Text /\ ~p.inside /\ p.delta = [c |-> h, r |-> <<>>]
            /\ h \o p.carry = <<>>
        BY <1>3, <3>1, <3>2, UntaggedIs
      <3> HIDE DEF p, h
      <3>4. p.carry \in Text
        BY <3>3, ParseFields
      <3>5. h = <<>> /\ p.carry = <<>>
        BY <3>3, <3>4, Cats
      <3>6. p.delta.c = <<>> /\ p.delta.r = <<>>
        BY <3>3, <3>5
      <3> QED BY <1>3, <1>4, <1>6, <3>3, <3>5, <3>6 DEF GivenParsed, NoText, p
    <2> QED BY <1>1, <2>1, <2>2, <2>3, RequestBounds DEF Given, Targets
  <1>8. StreamFits
    BY <1>2, <1>4, <1>5, <1>6, <1>7 DEF StreamFits, OpenFits
  <1> QED BY <1>2, <1>8 DEF StreamedAsWhole

(* Steps that do not concern the stream, and those after which nothing is  *)
(* said about it.                                                          *)
LEMMA StreamKept ==
    ASSUME StreamFits, StreamedAsWhole, UNCHANGED <<req, sent>>,
           client'.text = client.text, client'.ends = client.ends,
           client'.orderly = client.orderly, sse'.pending = sse.pending,
           sse'.tf = sse.tf, sse'.prefixed = sse.prefixed, sse'.flag = sse.flag
    PROVE  StreamFits' /\ StreamedAsWhole'
  <1>1. OpenFits'
    BY DEF StreamFits, OpenFits
  <1>2. Whole' = Whole /\ Closed' = Closed
    BY DEF Whole, Closed, apply_prefix_to_json
  <1>3. AsWhole' = AsWhole
    BY <1>2 DEF AsWhole, Unbroken
  <1>4. StreamFits'
    BY <1>1, <1>2, <1>3 DEF StreamFits
  <1>5. StreamedAsWhole <=>
           (client.ends = <<"done">> /\ sse.flag /\ client.orderly /\ Closed => AsWhole)
    BY DEF StreamedAsWhole, AsWhole
  <1>6. StreamedAsWhole' <=>
           (client'.ends = <<"done">> /\ sse'.flag /\ client'.orderly /\ Closed' => AsWhole')
    BY DEF StreamedAsWhole, AsWhole
  <1> QED BY <1>2, <1>3, <1>4, <1>5, <1>6

LEMMA StreamEnded ==
    ASSUME req'.api \notin OpenAI \/ client'.ends # <<>>,
           client'.ends # <<"done">> \/ ~sse'.flag \/ ~client'.orderly, ~sse'.pending
    PROVE  StreamFits' /\ StreamedAsWhole'
  BY DEF StreamFits, OpenFits, StreamedAsWhole

LEMMA OtherApis ==
    ASSUME EndsFit', req'.streaming, req'.api \notin OpenAI
    PROVE  client'.ends # <<"done">>
  <1>1. "done" \notin EndsGiven'
    BY DEF EndsFit
  <1>2. client'.ends = <<"done">> => Len(client'.ends) = 1 /\ client'.ends[1] = "done"
    OBVIOUS
  <1> QED BY <1>1, <1>2 DEF EndsGiven

(* A delta while no end has been given, and [DONE].                        *)
LEMMA MoreStreamed ==
    ASSUME Shape, StreamFits, StreamedAsWhole,
           NEW d \in Contents \cup Thoughts \cup {NoText}, ChatDelta(d)
    PROVE  StreamFits' /\ StreamedAsWhole'
  <1> DEFINE first == ~sse.prefixed /\ req.prefix # <<>> /\ d.c # <<>>
             put   == IF first THEN [d EXCEPT !.c = req.prefix \o @] ELSE d
             b     == IF first THEN req.prefix \o d.c ELSE d.c
             res   == transform_delta(sse.tf, put, req.target)
             ord   == client.ends = <<>> /\ (d.r # <<>> => sent.c = <<>>)
             w     == Prefixed(req.prefix, sent.c)
  <1>1. sse \in SseType /\ client \in ClientType /\ req \in Requests
    BY ShapeTypes DEF Shape
  <1>2. /\ req' = req /\ req.api \in OpenAI /\ sent' = Put(sent, d)
        /\ sse' = [sse EXCEPT !.tf = res.tf, !.prefixed = @ \/ first, !.events = @ + 1]
        /\ client' = [client EXCEPT !.text = Put(@, res.delta), !.orderly = @ /\ ord]
        /\ ~sse.pending
    BY DEF ChatDelta, Polling
  <1>3. first \in BOOLEAN /\ ord \in BOOLEAN
    OBVIOUS
  <1>4. /\ sse'.tf = res.tf /\ sse'.prefixed = (sse.prefixed \/ first)
        /\ client'.text = Put(client.text, res.delta) /\ client'.ends = client.ends
        /\ client'.orderly = (client.orderly /\ ord) /\ ~sse'.pending
    <2> HIDE DEF res, first, ord
    <2> QED BY <1>1, <1>2, <1>3 DEF SseType, ClientType
  <1>5. d \in Message /\ (d.c = <<>> \/ d.r = <<>>)
    <2>1. <<>> \in Text /\ <<"x">> \in Text /\ Texts \subseteq Text
      BY RequestBounds, Cats DEF Text
    <2> QED BY <2>1 DEF Contents, Thoughts, NoText, Message
  <1>6. put = [c |-> b, r |-> d.r]
    BY <1>5 DEF Message
  <1> HIDE DEF put
  <1>7. CASE client.ends # <<>> \/ ~client'.orderly
    <2>1. ~client'.orderly
      BY <1>4, <1>7
    <2> QED BY <1>4, <2>1 DEF StreamFits, OpenFits, StreamedAsWhole
  <1>8. CASE client.ends = <<>> /\ client'.orderly
    <2>1. /\ sent \in Message /\ sse.tf \in Transformer
          /\ sse.prefixed <=> req.prefix # <<>> /\ sent.c # <<>>
          /\ Given(req.target, sent, w, sse.tf, client.text)
          /\ d.r # <<>> => sent.c = <<>>
      BY <1>2, <1>4, <1>8 DEF StreamFits, OpenFits
    <2>2. /\ req.prefix \in Text /\ req.target \in Targets /\ sent.c \in Text
          /\ d.c \in Text /\ sse.prefixed \in BOOLEAN
      BY <1>1, <1>5, <2>1, MessageIs, RequestBounds DEF Text, SseType
    <2>3. /\ b \in Text /\ (b = <<>> <=> d.c = <<>>)
          /\ w \in Text /\ (w = <<>> <=> sent.c = <<>>)
          /\ Prefixed(req.prefix, sent.c \o d.c) = w \o b
          /\ sse.prefixed \/ first <=> req.prefix # <<>> /\ sent.c \o d.c # <<>>
      <3> DEFINE p == req.prefix
                 u == sent.c
                 v == d.c
                 x == sse.prefixed
                 f == ~x /\ p # <<>> /\ v # <<>>
                 z == IF f THEN p \o v ELSE v
      <3>1. p \in Text /\ u \in Text /\ v \in Text /\ x \in BOOLEAN
            /\ (x <=> p # <<>> /\ u # <<>>)
        BY <2>1, <2>2
      <3>2. b = z /\ (first <=> f) /\ w = Prefixed(p, u)
        OBVIOUS
      <3> HIDE DEF p, u, v, x, b, first, w
      <3>3. /\ z \in Text /\ (z = <<>> <=> v = <<>>)
            /\ Prefixed(p, u) \in Text /\ (Prefixed(p, u) = <<>> <=> u = <<>>)
            /\ Prefixed(p, u \o v) = Prefixed(p, u) \o z
            /\ x \/ f <=> p # <<>> /\ u \o v # <<>>
        BY <3>1, PrefixOnce
      <3> HIDE DEF z, f
      <3>4. /\ b \in Text /\ (b = <<>> <=> v = <<>>)
            /\ w \in Text /\ (w = <<>> <=> u = <<>>)
            /\ Prefixed(p, u \o v) = w \o b
            /\ x \/ first <=> p # <<>> /\ u \o v # <<>>
        BY <3>2, <3>3
      <3> QED BY <3>4 DEF p, u, v, x
    <2>4. sent' \in Message /\ sent'.c = sent.c \o d.c
      BY <1>2, <1>5, <2>1, PutMessage
    <2> HIDE DEF b, w, first
    <2>5. /\ res.tf \in Transformer
          /\ Given(req.target, Put(sent, d), w \o b, res.tf, Put(client.text, res.delta))
      BY <1>5, <1>6, <2>1, <2>2, <2>3, MoreGiven
    <2> HIDE DEF res
    <2>6. OpenFits'
      BY <1>2, <1>4, <2>3, <2>4, <2>5 DEF OpenFits
    <2> QED BY <1>4, <1>8, <2>6 DEF StreamFits, StreamedAsWhole
  <1> QED BY <1>7, <1>8

(* [DONE] without a text to flush, or with one and behind it.              *)
LEMMA DoneStreamed ==
    ASSUME Shape, CountFits, EndsFit, StreamFits, StreamedAsWhole, ChatDone
    PROVE  StreamFits' /\ StreamedAsWhole'
  <1> DEFINE flush == finalize(sse.tf, req.target)
             w     == Prefixed(req.prefix, sent.c)
             msg   == [c |-> w, r |-> sent.r]
             tf    == [sse.tf EXCEPT !.carry = <<>>, !.closed = @ \/ sse.tf.open]
  <1>1. client \in ClientType /\ sse \in SseType /\ req \in Requests
    BY ShapeTypes DEF Shape
  <1>2. /\ req' = req /\ sent' = sent /\ req.api \in OpenAI /\ handler.at = "stream"
        /\ ~sse.pending /\ ~sse.terminated
        /\ client' = [client EXCEPT !.text = Put(@, flush),
                        !.ends = IF flush = NoText THEN Append(@, "done") ELSE @]
    BY DEF ChatDone, GiveDone, Polling
  <1>s. sse' = [sse EXCEPT !.flag = TRUE, !.events = @ + 1, !.pending = flush # NoText,
                           !.tf = tf]
    BY Zenon DEF ChatDone, GiveDone
  <1>3. /\ client'.text = Put(client.text, flush) /\ client'.orderly = client.orderly
        /\ flush = NoText => client'.ends = Append(client.ends, "done")
        /\ flush # NoText => client'.ends = client.ends
    <2> HIDE DEF flush
    <2> QED BY <1>1, <1>2 DEF ClientType
  <1>p. sse'.pending = (flush # NoText) /\ sse'.flag /\ sse'.tf = tf
    <2> HIDE DEF flush, tf
    <2> QED BY <1>1, <1>s DEF SseType
  <1>4. \/ client'.ends = client.ends
        \/ client'.ends # <<>> /\ (client.ends # <<>> => client'.ends # <<"done">>)
    <2>1. ASSUME client'.ends = Append(client.ends, "done")
          PROVE  /\ Len(client'.ends) = Len(client.ends) + 1 /\ Len(client.ends) \in Nat
                 /\ client.ends # <<>> => Len(client.ends) # 0
      BY <1>1, <2>1 DEF ClientType
    <2>2. client'.ends = <<"done">> => Len(client'.ends) = 1
      OBVIOUS
    <2>3. client'.ends = <<>> => Len(client'.ends) = 0
      OBVIOUS
    <2>4. CASE flush = NoText
      <3>1. client'.ends = Append(client.ends, "done")
        BY <1>3, <2>4
      <3>2. /\ Len(client'.ends) = Len(client.ends) + 1 /\ Len(client.ends) \in Nat
            /\ client.ends # <<>> => Len(client.ends) # 0
        BY <2>1, <3>1
      <3> QED BY <2>2, <2>3, <3>2
    <2>5. CASE flush # NoText
      BY <1>3, <2>5
    <2> QED BY <2>4, <2>5
  <1>b. client'.ends # <<>> \/ sse'.pending
    <2>1. CASE flush = NoText
      <3>1. Append(client.ends, "done") # <<>>
        BY <1>1 DEF ClientType
      <3> QED BY <1>3, <2>1, <3>1
    <2>2. CASE flush # NoText
      BY <1>p, <2>2
    <2> QED BY <2>1, <2>2
  <1>5. OpenFits'
    BY <1>b DEF OpenFits
  <1>w. Closed' = Closed /\ Whole' = Whole
    BY <1>2 DEF Closed, Whole, apply_prefix_to_json
  <1>a. StreamedAsWhole' <=>
           (client'.ends = <<"done">> /\ sse'.flag /\ client'.orderly /\ Closed' => AsWhole')
    BY DEF StreamedAsWhole, AsWhole
  <1>6. CASE client.ends # <<>> \/ ~client.orderly
    <2>1. CASE ~client.orderly
      BY <1>3, <1>5, <1>a, <2>1 DEF StreamFits
    <2>2. CASE client.orderly /\ client.ends = <<"done">>
      <3>1. sse.flag
        <4>1. req.streaming
          BY <1>2 DEF CountFits
        <4> QED BY <1>2, <2>2, <4>1 DEF EndsFit
      <3>2. flush = NoText
        BY <2>2, <3>1 DEF StreamFits
      <3>3. client'.ends # <<>> /\ client'.ends # <<"done">> /\ ~sse'.pending
        <4>1. Len(Append(client.ends, "done")) = 2
          BY <1>1, <2>2 DEF ClientType
        <4>2. client'.ends = Append(client.ends, "done")
          BY <1>3, <3>2
        <4>3. client'.ends = <<"done">> => Len(client'.ends) = 1
          OBVIOUS
        <4>4. client'.ends = <<>> => Len(client'.ends) = 0
          OBVIOUS
        <4>5. ~sse'.pending
          BY <1>p, <3>2
        <4> HIDE DEF flush, tf
        <4> QED BY <4>1, <4>2, <4>3, <4>4, <4>5
      <3> QED BY <3>3, StreamEnded
    <2>3. CASE client.orderly /\ client.ends # <<>> /\ client.ends # <<"done">>
      <3>1. client'.ends # <<>> /\ client'.ends # <<"done">>
        BY <1>4, <2>3
      <3> QED BY <1>5, <1>a, <3>1 DEF StreamFits
    <2> QED BY <1>6, <2>1, <2>2, <2>3
  <1>7. CASE client.ends = <<>> /\ client.orderly
    <2>1. /\ sent \in Message /\ sse.tf \in Transformer
          /\ Given(req.target, sent, w, sse.tf, client.text)
      BY <1>2, <1>7 DEF StreamFits, OpenFits
    <2>2. sent.c \in Text /\ sent.r \in Text /\ req.prefix \in Text /\ req.target \in Targets
      BY <1>1, <2>1, MessageIs, RequestBounds DEF Text
    <2>3. w \in Text /\ (w = <<>> <=> sent.c = <<>>)
      <3>1. req.prefix \o sent.c \in Text
            /\ (req.prefix \o sent.c = <<>> <=> req.prefix = <<>> /\ sent.c = <<>>)
        BY <2>2, Cats
      <3> QED BY <2>2, <3>1 DEF Prefixed
    <2>t. finalize(sse'.tf, req.target) = NoText
      <3> DEFINE o == sse.tf.open
                 c == sse.tf.closed \/ o
                 h == sse.tf.phase
      <3>1. o \in BOOLEAN /\ c \in BOOLEAN /\ h \in {"content", "think"}
        BY <2>1 DEF Transformer
      <3>3. ~(o /\ ~c)
        OBVIOUS
      <3>e. tf = [sse.tf EXCEPT !.carry = <<>>, !.closed = c]
        OBVIOUS
      <3> HIDE DEF tf, c
      <3>2. tf = [phase |-> h, carry |-> <<>>, open |-> o, closed |-> c]
        BY <2>1, <3>e DEF Transformer
      <3> HIDE DEF tf, o, c, h
      <3>4. tf.phase = h /\ tf.carry = <<>> /\ ~(tf.open /\ ~tf.closed)
        BY <3>2, <3>3
      <3>5. finalize(tf, req.target) = [c |-> <<>>, r |-> <<>>]
        BY <3>4 DEF finalize
      <3> QED BY <1>p, <3>5 DEF NoText
    <2>4. Whole = msg /\ Whole.c = w
      <3>1. Whole = [c |-> w, r |-> sent.r]
        <4>1. Whole = [sent EXCEPT !.c = w]
          <5>1. CASE sent.c = <<>>
            <6>1. Whole = sent /\ w = <<>>
              BY <5>1 DEF Whole, Prefixed, apply_prefix_to_json
            <6>2. [sent EXCEPT !.c = sent.c] = sent
              BY <2>1 DEF Message
            <6> QED BY <5>1, <6>1, <6>2
          <5>2. CASE sent.c # <<>>
            BY <5>2 DEF Whole, Prefixed, apply_prefix_to_json
          <5> QED BY <5>1, <5>2
        <4> HIDE DEF w
        <4> QED BY <2>1, <4>1 DEF Message
      <3> QED BY <3>1
    <2> HIDE DEF w
    <2>5. ASSUME Closed PROVE Put(client.text, flush) = Unbroken(transform_message(msg, req.target))
      <3>1. CASE req.target = "passthrough"
        <4>1. GivenPlain(sent, w, client.text)
          BY <2>1, <3>1 DEF Given
        <4>2. Unbroken(transform_message(msg, req.target)) = transform_message(msg, req.target)
          BY <3>1 DEF Unbroken
        <4> QED BY <2>1, <2>3, <3>1, <4>1, <4>2, DonePlain
      <3>2. CASE req.target = "think_tag"
        <4>1. GivenTagged(sent, w, sse.tf, client.text)
          BY <2>1, <3>2 DEF Given
        <4>2. Find(OpenTag, w) = 0
          BY <2>4, <2>5, <3>2 DEF Closed
        <4>3. Unbroken(transform_message(msg, req.target)) = transform_message(msg, req.target)
          BY <3>2 DEF Unbroken
        <4> QED BY <2>1, <2>3, <3>2, <4>1, <4>2, <4>3, DoneTagged
      <3>3. CASE req.target = "reasoning"
        <4> DEFINE blocks == extract_think_blocks(w)
        <4>1. GivenParsed(sent, w, sse.tf, client.text)
          BY <2>1, <3>3 DEF Given
        <4>3. ~blocks.open /\ (sent.r = <<>> \/ blocks.joined = <<>>)
          BY <2>4, <2>5, <3>3 DEF Closed
        <4>4. Put(client.text, flush)
                 = [c |-> blocks.outside, r |-> IF sent.r # <<>> THEN sent.r ELSE blocks.joined]
          BY <2>1, <2>3, <3>3, <4>1, <4>3, DoneParsed
        <4>5. msg.c = w /\ msg.r = sent.r
          OBVIOUS
        <4>6. transform_message(msg, req.target)
                 = [c |-> blocks.outside, r |-> IF sent.r # <<>> THEN sent.r ELSE blocks.inside]
          <5> HIDE DEF msg
          <5> QED BY <3>3, <4>5 DEF transform_message
        <4>7. Unbroken(transform_message(msg, req.target))
                 = [c |-> blocks.outside, r |-> IF sent.r # <<>> THEN sent.r ELSE blocks.joined]
          <5> HIDE DEF msg, blocks
          <5>1. CASE sent.r # <<>>
            BY <4>6, <5>1 DEF Unbroken
          <5>2. CASE sent.r = <<>>
            <6>1. Unbroken(transform_message(msg, req.target))
                     = [transform_message(msg, req.target) EXCEPT !.r = blocks.joined]
              BY <2>4, <3>3, <5>2 DEF Unbroken, blocks
            <6> QED BY <4>6, <5>2, <6>1
          <5> QED BY <5>1, <5>2
        <4> QED BY <4>4, <4>7
      <3> QED BY <2>2, <3>1, <3>2, <3>3 DEF Targets
    <2>7. Closed => AsWhole'
      <3>1. AsWhole' <=> client'.text = Unbroken(transform_message(Whole, req.target))
        BY <1>2, <1>w DEF AsWhole, Unbroken
      <3> HIDE DEF flush, msg
      <3> QED BY <1>3, <2>4, <2>5, <3>1
    <2>8. finalize(sse'.tf, req'.target) = NoText
      BY <1>2, <2>t
    <2> HIDE DEF flush, msg, tf
    <2> QED BY <1>5, <1>w, <1>a, <2>7, <2>8 DEF StreamFits
  <1> QED BY <1>6, <1>7

(* The [DONE] that was queued.                                             *)
LEMMA QueuedStreamed ==
    ASSUME Shape, StreamFits, StreamedAsWhole, QueuedDone
    PROVE  StreamFits' /\ StreamedAsWhole'
  <1>1. client \in ClientType /\ sse \in SseType
    BY ShapeTypes
  <1>2. /\ UNCHANGED <<req, sent>> /\ sse.pending
        /\ sse' = [sse EXCEPT !.pending = FALSE]
        /\ client' = [client EXCEPT !.ends = Append(@, "done")]
    BY DEF QueuedDone
  <1>3. /\ ~sse'.pending /\ sse'.tf = sse.tf /\ sse'.flag = sse.flag
        /\ client'.text = client.text /\ client'.orderly = client.orderly
        /\ client'.ends = Append(client.ends, "done")
    BY <1>1, <1>2 DEF ClientType, SseType
  <1>4. /\ Len(client'.ends) = Len(client.ends) + 1 /\ Len(client.ends) \in Nat
        /\ client.ends # <<>> => Len(client.ends) # 0
    BY <1>1, <1>3 DEF ClientType
  <1>5. client'.ends # <<>> /\ (client.ends # <<>> => client'.ends # <<"done">>)
    <2>1. client'.ends = <<"done">> => Len(client'.ends) = 1
      OBVIOUS
    <2>2. client'.ends = <<>> => Len(client'.ends) = 0
      OBVIOUS
    <2> QED BY <1>4, <2>1, <2>2
  <1>6. Whole' = Whole /\ Closed' = Closed
    BY <1>2 DEF Whole, Closed, apply_prefix_to_json
  <1>7. AsWhole' = AsWhole
    BY <1>2, <1>3, <1>6 DEF AsWhole, Unbroken
  <1>8. StreamedAsWhole' <=>
           (client'.ends = <<"done">> /\ sse'.flag /\ client'.orderly /\ Closed' => AsWhole')
    BY DEF StreamedAsWhole, AsWhole
  <1> QED BY <1>2, <1>3, <1>5, <1>6, <1>7, <1>8 DEF StreamFits, OpenFits

LEMMA StreamNext ==
    ASSUME Shape, Shape', CountFits, EndsFit, EndsFit', StreamFits, StreamedAsWhole, [Next]_vars
    PROVE  StreamFits' /\ StreamedAsWhole'
  <1>0. sse \in SseType /\ client \in ClientType
    BY ShapeTypes
  <1>1. CASE Early \/ Start
    <2>1. UNCHANGED <<req, sse, sent, client>>
      BY <1>1, EarlySteps, StartSteps
    <2> QED BY <2>1, StreamKept
  <1>2. ASSUME NEW d \in Contents \cup Thoughts \cup {NoText}, ChatDelta(d)
        PROVE  StreamFits' /\ StreamedAsWhole'
    BY <1>2, MoreStreamed
  <1>3. ASSUME NEW k, ChatOther(k)
        PROVE  StreamFits' /\ StreamedAsWhole'
    <2>1. UNCHANGED <<req, sent, client>> /\ sse' = [sse EXCEPT !.events = @ + 1]
      BY <1>3 DEF ChatOther
    <2>2. /\ sse'.tf = sse.tf /\ sse'.prefixed = sse.prefixed /\ sse'.flag = sse.flag
          /\ sse'.pending = sse.pending
      BY <1>0, <2>1 DEF SseType
    <2> QED BY <2>1, <2>2, StreamKept
  <1>4. CASE ChatDone
    BY <1>4, DoneStreamed
  <1>q. CASE QueuedDone
    BY <1>q, QueuedStreamed
  <1>5. ASSUME NEW k, NEW d, ResponsesEvent(k, d) \/ AnthropicEvent(k, d)
        PROVE  StreamFits' /\ StreamedAsWhole'
    <2>1. req' = req /\ req.api \notin OpenAI /\ handler.at = "stream"
      BY <1>5 DEF ResponsesEvent, AnthropicEvent, Forward, Polling, OpenAI
    <2>2. req'.api \notin OpenAI /\ req'.streaming
      BY <2>1 DEF CountFits
    <2>3. client'.ends # <<"done">> /\ ~sse'.pending
      BY <2>2, OtherApis DEF Shape, SseFits
    <2> QED BY <2>2, <2>3, StreamEnded
  <1>6. CASE ChatError \/ ResponsesError \/ AnthropicError
    <2>1. /\ client' = [client EXCEPT !.ends = Append(@, "error")] /\ ~sse.pending
          /\ sse' = [sse EXCEPT !.events = @ + 1, !.flag = TRUE,
                                !.terminated = TerminatesOnError(req.api)]
      BY <1>6 DEF ChatError, ResponsesError, AnthropicError, Fails, Polling
    <2>p. ~sse'.pending
      BY <1>0, <2>1 DEF SseType
    <2>2. client'.ends = Append(client.ends, "error")
      BY <1>0, <2>1 DEF ClientType
    <2>3. client'.ends # <<>> /\ client'.ends[Len(client'.ends)] = "error"
      BY <1>0, <2>2 DEF ClientType
    <2>4. client'.ends = <<"done">> => client'.ends[Len(client'.ends)] = "done"
      OBVIOUS
    <2>5. client'.ends # <<"done">>
      BY <2>3, <2>4
    <2> QED BY <2>3, <2>5, <2>p, StreamEnded
  <1>7. CASE Finish
    <2>1. /\ UNCHANGED <<req, sse, sent>> /\ handler.at = "stream"
      BY <1>7 DEF Finish, PollEnd, PollTerminated
    <2>2. CASE req.api \notin OpenAI
      <3>1. req'.api \notin OpenAI /\ req'.streaming
        BY <2>1, <2>2 DEF CountFits
      <3>2. client'.ends # <<"done">> /\ ~sse'.pending
        BY <3>1, OtherApis DEF Shape, SseFits
      <3> QED BY <3>1, <3>2, StreamEnded
    <2>3. CASE req.api \in OpenAI
      <3>1. client' = client
        BY <1>7, <2>3 DEF Finish, PollEnd, PollTerminated
      <3> QED BY <2>1, <3>1, StreamKept
    <2> QED BY <2>2, <2>3
  <1>d. CASE DoneSentinel
    <2>1. /\ client' = [client EXCEPT !.ends = Append(@, "done")] /\ ~sse.pending
          /\ sse' = [sse EXCEPT !.terminated = TRUE] /\ ~sse.flag
      BY <1>d DEF DoneSentinel, PollEnd
    <2>2. ~sse'.pending /\ ~sse'.flag /\ client'.ends # <<>>
      BY <1>0, <2>1 DEF SseType, ClientType
    <2> QED BY <2>2, StreamEnded
  <1>8. CASE Leave
    <2>1. UNCHANGED <<req, sse, sent>> /\ client' = [client EXCEPT !.left = TRUE]
      BY <1>8 DEF Leave
    <2>2. client'.text = client.text /\ client'.ends = client.ends
          /\ client'.orderly = client.orderly
      BY <1>0, <2>1 DEF ClientType
    <2> QED BY <2>1, <2>2, StreamKept
  <1>l. CASE Disconnect
    <2>1. /\ UNCHANGED <<req, sse, sent>> /\ client'.text = client.text
          /\ client'.ends = client.ends /\ client'.orderly = client.orderly
      BY <1>l, DisconnectSteps
    <2> QED BY <2>1, StreamKept
  <1>9. ASSUME NEW m, NEW null, NEW usage, AnswerWhole(m, null, usage)
        PROVE  StreamFits' /\ StreamedAsWhole'
    <2>1. client'.ends = <<"whole">> /\ handler.at = "body" /\ sse' = sse /\ ~req.streaming
      BY <1>9, AnswerSteps
    <2>p. ~sse'.pending
      BY <2>1, <1>0 DEF EndsFit
    <2> QED BY <2>1, <2>p, StreamEnded
  <1>10. CASE Hear \/ LogVerdict \/ Record \/ LogWhole \/ UNCHANGED vars
    <2>1. UNCHANGED <<req, sse, sent, client>>
      BY <1>10 DEF Hear, ReceiveChat, ReceiveResponses, ReceiveAnthropic, Receive, LogVerdict,
                   Record, WriteChat, WriteResponses, WriteAnthropic, Write, LogWhole,
                   vars, stream
    <2> QED BY <2>1, StreamKept
  <1>11. CASE Deliver
    BY <1>2, <1>3, <1>4, <1>q, <1>d, <1>5, <1>6, <1>11 DEF Deliver
  <1> QED BY <1>1, <1>7, <1>8, <1>l, <1>9, <1>10, <1>11, NextSteps

(* A chat stream that is closed by [DONE] has given its client the text of *)
(* a whole answer with the same content, for any characters, pieces and    *)
(* prefix, wherever the pieces are cut.                                    *)
THEOREM StreamsAsWhole == Spec => []StreamedAsWhole
  <1>1. Init => StreamFits /\ StreamedAsWhole
    BY StreamInit
  <1>2. IInv /\ IInv' /\ StreamFits /\ StreamedAsWhole /\ [Next]_vars
           => StreamFits' /\ StreamedAsWhole'
    BY StreamNext DEF IInv
  <1> QED BY <1>1, <1>2, Invariance, PTL DEF Spec
=============================================================================
