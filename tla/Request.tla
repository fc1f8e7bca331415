------------------------------- MODULE Request -------------------------------
(***************************************************************************)
(* One LLM request from its arrival to the last trace it leaves:           *)
(* common_handler.rs and client/proxy.rs (validation, sending with         *)
(* retries, whole answers), the three stream handlers with their logger    *)
(* tasks, the access log and the metrics middleware, and the gauge of      *)
(* active requests.                                                        *)
(*                                                                         *)
(* The handler, the client, which drives a stream by reading it and may    *)
(* leave at any time, and the logger task run concurrently; the handler    *)
(* talks to the logger through a channel and an atomic outcome.  Which     *)
(* backend is tried (module Dispatcher) and how a record reaches the       *)
(* database (module AuditWriter) are left out.                             *)
(***************************************************************************)
EXTENDS Thinking, FiniteSets

CONSTANTS Requests,     \* the requests considered
          Texts,        \* pieces of text that an upstream may send
          Backends,     \* the number of backends for the model
          MaxEvents     \* bound: what the upstream stream yields

Apis    == {"chat", "completion", "responses", "anthropic", "embedding"}
Targets == {"passthrough", "reasoning", "think_tag"}

ASSUME RequestBounds ==
    /\ \A q \in Requests :
          /\ q.api \in Apis /\ q.target \in Targets
          /\ {q.streaming, q.valid} \subseteq BOOLEAN
          /\ q.target # "passthrough" => q.api = "chat"
          /\ q.prefix # <<>> => q.api \in {"chat", "completion"}
          /\ q.streaming => q.api # "embedding"
    /\ "x" \in Characters /\ Texts \subseteq Seq(Characters)
    /\ \A q \in Requests : q.prefix \in Seq(Characters)
    /\ Backends \in Nat \ {0} /\ MaxEvents \in Nat

VARIABLES
    req,       \* the request
    handler,   \* handle_request_logic and dispatch_request
    reply,     \* the status given to the client, 0 before
    sse,       \* the stream: transformer, prefix_applied, done flag; pending:
               \* a [DONE] is queued behind the item given last
    outcome,   \* StreamOutcome
    sent,      \* history: the text of the upstream
    client,    \* the text and the end marks the client was given, and whether it
               \* left; history: thoughts came before the text, nothing after an end
    chan,      \* the channel to the logger task ...
    open,      \* ... whose sender is alive
    logger,    \* the logger task, or the one that logs a whole answer
    audit,     \* records handed to the audit writer
    errlog,    \* lines with a status in the error log
    metrics,   \* is_success of each MetricEvent
    active     \* guards that count in ACTIVE_REQUESTS

stream == <<sse, outcome, sent, client, chan, open>>
traces == <<audit, errlog, metrics>>
vars == <<req, handler, reply, stream, logger, traces, active>>

OpenAI == {"chat", "completion"}   \* process_streaming_response

Put(m, d) == IF d = NoText THEN m ELSE [c |-> m.c \o d.c, r |-> m.r \o d.r]

(* The handler at a place where its loops have not begun or are left. *)
HandlerAt(place) ==
    [at |-> place, left |-> Backends, attempt |-> 1, inner |-> 1, status |-> 0, last |-> 0]

Init ==
    /\ req \in Requests
    /\ handler = HandlerAt("arrived")
    /\ reply = 0
    /\ sse = [tf |-> NewTransformer, prefixed |-> FALSE, flag |-> FALSE,
              pending |-> FALSE, terminated |-> FALSE, events |-> 0]
    /\ outcome = "running"
    /\ sent = NoText /\ client = [text |-> NoText, ends |-> <<>>, left |-> FALSE, orderly |-> TRUE]
    /\ chan = <<>> /\ open = FALSE
    /\ logger = [at |-> "none", text |-> NoText, some |-> FALSE, failed |-> FALSE,
                 terminal |-> FALSE, error |-> FALSE]
    /\ audit = <<>> /\ errlog = 0 /\ metrics = <<>>
    /\ active = 0

-----------------------------------------------------------------------------
(* The answer passes the access log, which sorts it by its status, and the *)
(* metrics middleware, which skips what carries the mark of a stream.      *)
access_log_middleware(status) == errlog' = errlog + IF status >= 400 THEN 1 ELSE 0

metrics_middleware(status, marked) ==
    metrics' = IF marked THEN metrics ELSE Append(metrics, status = 200)

Reply(status, marked) ==
    /\ reply' = status
    /\ metrics_middleware(status, marked)
    /\ access_log_middleware(status)

Reject ==
    /\ handler.at = "arrived" /\ ~req.valid
    /\ Reply(422, FALSE)
    /\ handler' = HandlerAt("over")
    /\ UNCHANGED <<req, stream, logger, audit, active>>

Accept ==
    /\ handler.at = "arrived" /\ req.valid
    /\ handler' = [handler EXCEPT !.at = "send"]
    /\ UNCHANGED <<req, reply, stream, logger, traces, active>>

-----------------------------------------------------------------------------
(* Sending.  An error is a failed connection, a connection closed too      *)
(* early, another error of the request, or a timeout.  build_and_send      *)
(* tries twice unless it is a timeout; the two functions ..._with_retry    *)
(* call it twice if the connection failed or was closed.                   *)
is_retryable_send_error(error) == error # "timeout"
is_retryable_transient_error(error) == error \in {"connect", "closed"}

SendFails(error) ==
    /\ handler.at = "send"
    /\ handler' =
          IF handler.inner = 1 /\ is_retryable_send_error(error)
          THEN [handler EXCEPT !.inner = 2]
          ELSE IF handler.attempt = 1 /\ is_retryable_transient_error(error)
          THEN [handler EXCEPT !.attempt = 2, !.inner = 1]
          ELSE [handler EXCEPT !.at = "next"]
    /\ UNCHANGED <<req, reply, stream, logger, traces, active>>

(* Headers arrive.  A stream begins, or a body is to be read. *)
Headers(status) ==
    /\ handler.at = "send"
    /\ req.streaming => status # 200
    /\ handler' = [handler EXCEPT !.at = "body", !.status = status]
    /\ UNCHANGED <<req, reply, stream, logger, traces, active>>

(* The body of a whole answer is within the domain of the retry, that of a *)
(* refused stream is not.                                                  *)
BodyFails(error) ==
    /\ handler.at = "body"
    /\ handler' = IF ~req.streaming /\ handler.attempt = 1 /\ is_retryable_transient_error(error)
                  THEN [handler EXCEPT !.at = "send", !.attempt = 2, !.inner = 1]
                  ELSE [handler EXCEPT !.at = "next"]
    /\ UNCHANGED <<req, reply, stream, logger, traces, active>>

(* The JSON of a whole answer, whatever its status, cannot be parsed. *)
BodyUnparsable ==
    /\ handler.at = "body" /\ ~req.streaming
    /\ handler' = [handler EXCEPT !.at = "next"]
    /\ UNCHANGED <<req, reply, stream, logger, traces, active>>

(* The special prefix goes before any content, an empty one too, unless it *)
(* is null.                                                                *)
apply_prefix_to_json(m, null) == IF null THEN m ELSE [m EXCEPT !.c = req.prefix \o @]

(* Success: the body is converted, a task is spawned to log it, and an     *)
(* event is sent besides the one of the middleware if tokens are counted.  *)
AnswerWhole(m, null, usage) ==
    /\ handler.at = "body" /\ ~req.streaming /\ handler.status = 200
    /\ null => m.c = <<>>
    /\ LET text == transform_message(apply_prefix_to_json(m, null), req.target)
       IN  /\ client' = [client EXCEPT !.text = text, !.ends = <<"whole">>]
           /\ logger' = [logger EXCEPT !.at = "whole", !.text = text]
    /\ reply' = 200
    /\ metrics' = metrics \o (IF usage THEN <<TRUE>> ELSE <<>>) \o <<TRUE>>
    /\ active' = 1
    /\ handler' = HandlerAt("reply")
    /\ UNCHANGED <<req, sse, outcome, sent, chan, open, audit, errlog>>

(* A bug: a refused answer is logged like a good one. *)
RefuseLogged ==
    /\ handler.at = "body" /\ handler.status # 200
    /\ IF handler.status = 400
       THEN Reply(400, req.streaming) /\ handler' = HandlerAt("reply")
       ELSE /\ handler' = [handler EXCEPT !.at = "next", !.last = handler.status]
            /\ UNCHANGED <<reply, errlog, metrics>>
    /\ logger' = IF req.streaming THEN logger ELSE [logger EXCEPT !.at = "whole"]
    /\ active' = 1
    /\ UNCHANGED <<req, stream, audit>>

(* Another status: the dispatcher passes a rejected request (400) on, and  *)
(* tries the next backend otherwise, keeping this answer.                  *)
Refuse ==
    /\ handler.at = "body" /\ handler.status # 200
    /\ IF handler.status = 400
       THEN Reply(400, req.streaming) /\ handler' = HandlerAt("reply")
       ELSE /\ handler' = [handler EXCEPT !.at = "next", !.last = handler.status]
            /\ UNCHANGED <<reply, errlog, metrics>>
    /\ active' = 1
    /\ UNCHANGED <<req, stream, logger, audit>>

NextBackend ==
    /\ handler.at = "next" /\ handler.left > 1
    /\ handler' = [handler EXCEPT !.at = "send", !.left = @ - 1, !.attempt = 1,
                                  !.inner = 1]
    /\ UNCHANGED <<req, reply, stream, logger, traces, active>>

(* No backend is left: the last answer is passed on, or a 500 is given. *)
Exhausted ==
    /\ handler.at = "next" /\ handler.left = 1
    /\ \/ /\ handler.last # 0
          /\ Reply(handler.last, req.streaming)
          /\ handler' = HandlerAt("reply")
       \/ /\ handler.last = 0
          /\ Reply(500, FALSE)
          /\ handler' = HandlerAt("over")
    /\ UNCHANGED <<req, stream, logger, audit, active>>

(* The body has been delivered, or the client is gone: the guard goes. *)
Delivered ==
    /\ handler.at = "reply"
    /\ handler' = HandlerAt("over")
    /\ active' = 0
    /\ UNCHANGED <<req, reply, stream, logger, traces>>

(* The client leaves before there is an answer: the web server drops the   *)
(* future of the handler and of the middleware around it at an await, with *)
(* an answer that was kept and its guard.                                  *)
Disconnect ==
    /\ handler.at \in {"arrived", "send", "body", "next"}
    /\ client' = [client EXCEPT !.left = TRUE]
    /\ handler' = HandlerAt("over")
    /\ active' = 0
    /\ UNCHANGED <<req, reply, sse, outcome, sent, chan, open, logger, traces>>

-----------------------------------------------------------------------------
(* Streams.  Status 200 is given before the body is read.                  *)
StartStream ==
    /\ handler.at = "send" /\ req.streaming
    /\ Reply(200, TRUE)
    /\ handler' = HandlerAt("stream")
    /\ open' = TRUE
    /\ logger' = [logger EXCEPT !.at = "reading"]
    /\ active' = 1
    /\ UNCHANGED <<req, sse, outcome, sent, client, chan, audit>>

process_streaming_response == req.api \in OpenAI /\ StartStream
process_responses_streaming_response == req.api = "responses" /\ StartStream
process_anthropic_streaming_response == req.api = "anthropic" /\ StartStream

(* StreamOutcome: the first end wins. *)
Mark(end) == outcome' = IF outcome = "running" THEN end ELSE outcome

Polling ==
    /\ handler.at = "stream"
    /\ ~sse.terminated /\ ~sse.pending
    /\ sse.events < MaxEvents

Event(kind, d) == [kind |-> kind, d |-> d]

(* A chunk of a chat or completion: the prefix is put before the first     *)
(* text, the thinking is converted; client and logger get the result.      *)
ChatDelta(d) ==
    /\ Polling /\ req.api \in OpenAI
    /\ LET first == ~sse.prefixed /\ req.prefix # <<>> /\ d.c # <<>>
           put   == IF first THEN [d EXCEPT !.c = req.prefix \o @] ELSE d
           res   == transform_delta(sse.tf, put, req.target)
       IN  /\ sse' = [sse EXCEPT !.tf = res.tf, !.prefixed = @ \/ first,
                                 !.events = @ + 1]
           /\ client' = [client EXCEPT !.text = Put(@, res.delta),
                 !.orderly = @ /\ client.ends = <<>> /\ (d.r # <<>> => sent.c = <<>>)]
           /\ chan' = Append(chan, Event("delta", res.delta))
    /\ sent' = Put(sent, d)
    /\ UNCHANGED <<req, handler, reply, outcome, open, logger, traces, active>>

(* A ping becomes a comment; what is no JSON is forwarded, and on the path *)
(* without conversions also sent to the logger, which skips it.            *)
ChatOther(kind) ==
    /\ Polling /\ req.api \in OpenAI
    /\ sse' = [sse EXCEPT !.events = @ + 1]
    /\ chan' = IF kind = "bad" /\ req.target = "passthrough" /\ req.prefix = <<>>
               THEN Append(chan, Event("bad", NoText)) ELSE chan
    /\ UNCHANGED <<req, handler, reply, outcome, sent, client, open, logger, traces,
                   active>>

(* [DONE] is given at once, or behind the flush, which is an item of its   *)
(* own.                                                                    *)
GiveDone(flush) ==
    /\ client' = [client EXCEPT !.text = Put(@, flush),
                    !.ends = IF flush = NoText THEN Append(@, "done") ELSE @]
    /\ sse' = [sse EXCEPT !.flag = TRUE, !.events = @ + 1, !.pending = flush # NoText,
                          !.tf = [sse.tf EXCEPT !.carry = <<>>,
                                                !.closed = sse.tf.closed \/ sse.tf.open]]

(* Two bugs: [DONE] does not settle the outcome; what [DONE] flushes is    *)
(* not logged.                                                             *)
ChatDoneUnmarked ==
    /\ Polling /\ req.api \in OpenAI
    /\ LET flush == finalize(sse.tf, req.target)
       IN  /\ GiveDone(flush)
           /\ chan' = IF flush = NoText THEN chan ELSE Append(chan, Event("delta", flush))
    /\ UNCHANGED <<req, handler, reply, outcome, sent, open, logger, traces, active>>

ChatDoneUnlogged ==
    /\ Polling /\ req.api \in OpenAI
    /\ GiveDone(finalize(sse.tf, req.target))
    /\ Mark("completed")
    /\ UNCHANGED <<req, handler, reply, sent, chan, open, logger, traces, active>>

(* [DONE]: the outcome is settled, and what the transformer holds back is  *)
(* flushed.  The stream goes on until the upstream closes it.              *)
ChatDone ==
    /\ Polling /\ req.api \in OpenAI
    /\ LET flush == finalize(sse.tf, req.target)
       IN  /\ GiveDone(flush)
           /\ chan' = IF flush = NoText THEN chan ELSE Append(chan, Event("delta", flush))
    /\ Mark("completed")
    /\ UNCHANGED <<req, handler, reply, sent, open, logger, traces, active>>

(* The next poll gives the queued [DONE]. *)
QueuedDone ==
    /\ handler.at = "stream" /\ sse.pending
    /\ sse' = [sse EXCEPT !.pending = FALSE]
    /\ client' = [client EXCEPT !.ends = Append(@, "done")]
    /\ UNCHANGED <<req, handler, reply, outcome, sent, chan, open, logger, traces, active>>

(* A typed event of the other two APIs is forwarded as it is.  "final" is  *)
(* response.completed or message_stop, "start" an event of the protocol.   *)
Forward(kind, d) ==
    /\ Polling
    /\ sse' = [sse EXCEPT !.events = @ + 1]
    /\ sent' = Put(sent, d)
    /\ client' = [client EXCEPT !.text = Put(@, d),
                    !.ends = IF kind = "final" THEN Append(@, "final") ELSE @]
    /\ chan' = Append(chan, Event(kind, d))
    /\ UNCHANGED <<req, handler, reply, outcome, open, logger, traces, active>>

ResponsesEvent(kind, d) == req.api = "responses" /\ Forward(kind, d)
AnthropicEvent(kind, d) == req.api = "anthropic" /\ Forward(kind, d)

(* A bug: the stream is read on after an error. *)
TerminatesNever(api) == FALSE

(* TerminateOnError wraps the streams of chats and completions only. *)
TerminatesOnError(api) == api \in OpenAI

(* An error of the upstream is passed on as an event of the API, and for   *)
(* chats as a sentinel to the logger.                                      *)
Fails ==
    /\ Polling
    /\ sse' = [sse EXCEPT !.events = @ + 1, !.flag = TRUE,
                          !.terminated = TerminatesOnError(req.api)]
    /\ Mark("error")
    /\ client' = [client EXCEPT !.ends = Append(@, "error")]
    /\ UNCHANGED <<req, handler, reply, sent, open, logger, traces, active>>

ChatError ==
    /\ req.api \in OpenAI /\ Fails
    /\ chan' = Append(chan, Event("sentinel", NoText))

ResponsesError == req.api = "responses" /\ Fails /\ UNCHANGED chan
AnthropicError == req.api = "anthropic" /\ Fails /\ UNCHANGED chan

(* The body is at its end: everything of the stream is dropped. *)
Close ==
    /\ handler' = HandlerAt("over")
    /\ open' = FALSE
    /\ active' = 0

(* The upstream ends.  The DoneSentinel of a chat gives [DONE] if neither  *)
(* [DONE] nor an error was given, and ends at the next poll.               *)
PollEnd ==
    /\ handler.at = "stream" /\ ~sse.terminated /\ ~sse.pending
    /\ Mark("completed")
    /\ IF req.api \in OpenAI /\ ~sse.flag
       THEN /\ client' = [client EXCEPT !.ends = Append(@, "done")]
            /\ sse' = [sse EXCEPT !.terminated = TRUE]
            /\ UNCHANGED <<handler, open, active>>
       ELSE /\ client' = IF req.api \in OpenAI THEN client
                         ELSE [client EXCEPT !.ends = Append(@, "end")]
            /\ Close
            /\ UNCHANGED sse
    /\ UNCHANGED <<req, reply, sent, chan, logger, traces>>

PollTerminated ==
    /\ handler.at = "stream" /\ sse.terminated
    /\ Close
    /\ UNCHANGED <<req, reply, sse, outcome, sent, client, chan, logger, traces>>

(* The client leaves: the body is dropped, a queued [DONE] with it. *)
Leave ==
    /\ handler.at = "stream"
    /\ client' = [client EXCEPT !.left = TRUE]
    /\ Close
    /\ UNCHANGED <<req, reply, sse, outcome, sent, chan, logger, traces>>

-----------------------------------------------------------------------------
(* The logger task of a stream.                                            *)

(* It reads the channel; notable events make something that is worth a     *)
(* record, and final ones stop the reading.                                *)
Receive(notable, final) ==
    /\ logger.at = "reading" /\ chan # <<>>
    /\ LET e == Head(chan)
       IN  logger' = [logger EXCEPT
              !.text = Put(@, e.d),
              !.some = @ \/ e.kind \in notable,
              !.failed = @ \/ e.kind = "sentinel",
              !.terminal = @ \/ e.kind = "final",
              !.at = IF e.kind \in final THEN "closing" ELSE @]
    /\ chan' = Tail(chan)
    /\ UNCHANGED <<req, handler, reply, sse, outcome, sent, client, open, traces, active>>

(* What leaves a trace in AnthropicStreamAccumulator. *)
Accumulated == {"start", "delta"}

ReceiveChat      == req.api \in OpenAI /\ Receive({"delta"}, {})
ReceiveResponses == req.api = "responses" /\ Receive({"final"}, {})
ReceiveAnthropic == req.api = "anthropic" /\ Receive(Accumulated, {"final"})

(* All senders are gone or it has stopped: it looks whether the upstream   *)
(* failed, ...                                                             *)
LogVerdict ==
    /\ logger.at = "closing" \/ (logger.at = "reading" /\ chan = <<>> /\ ~open)
    /\ logger' = [logger EXCEPT !.at = "verdict", !.error = outcome = "error"]
    /\ UNCHANGED <<req, handler, reply, stream, traces, active>>

outcome_to_status(end, terminal) ==
    IF end = "error" THEN 502
    ELSE IF end = "completed" \/ terminal THEN 200 ELSE 499

(* ... and looks at the outcome again for the record it writes, if there   *)
(* is anything to record.                                                  *)
Write(terminal, success) ==
    /\ logger.at = "verdict"
    /\ IF logger.some \/ logger.error
       THEN /\ audit' = Append(audit, [status |-> outcome_to_status(outcome, terminal),
                                       text |-> logger.text])
            /\ metrics' = Append(metrics, success)
       ELSE UNCHANGED <<audit, metrics>>
    /\ logger' = [logger EXCEPT !.at = "done"]
    /\ UNCHANGED <<req, handler, reply, stream, errlog, active>>

WriteChat      == req.api \in OpenAI /\ Write(FALSE, ~logger.failed)
WriteResponses == req.api = "responses" /\ Write(logger.terminal, ~logger.error)
WriteAnthropic == req.api = "anthropic" /\ Write(logger.terminal, ~logger.error)

(* The task that logs a whole answer. *)
LogWhole ==
    /\ logger.at = "whole"
    /\ audit' = Append(audit, [status |-> 200, text |-> logger.text])
    /\ logger' = [logger EXCEPT !.at = "done"]
    /\ UNCHANGED <<req, handler, reply, stream, errlog, metrics, active>>

-----------------------------------------------------------------------------
Contents == {[c |-> t, r |-> <<>>] : t \in Texts}
Thoughts == {[c |-> <<>>, r |-> <<"x">>]}
Plain    == {[c |-> <<"x">>, r |-> <<>>]}

Sending ==
    \/ Reject \/ Accept \/ NextBackend \/ Exhausted \/ Delivered
    \/ \E e \in {"connect", "closed", "request", "timeout"} : SendFails(e) \/ BodyFails(e)
    \/ \E s \in {200, 400, 429, 500} : Headers(s)
    \/ BodyUnparsable \/ Refuse \/ Disconnect
    \/ \E m \in Contents \cup Thoughts, null \in BOOLEAN, usage \in BOOLEAN :
          AnswerWhole(m, null, usage)

Streaming ==
    \/ process_streaming_response
    \/ process_responses_streaming_response
    \/ process_anthropic_streaming_response
    \/ \E d \in Contents \cup Thoughts \cup {NoText} : ChatDelta(d)
    \/ \E k \in {"ping", "bad"} : ChatOther(k)
    \/ ChatDone \/ QueuedDone
    \/ \E k \in {"start", "final", "bad"} : ResponsesEvent(k, NoText) \/ AnthropicEvent(k, NoText)
    \/ \E d \in Plain : ResponsesEvent("delta", d) \/ AnthropicEvent("delta", d)
    \/ ChatError \/ ResponsesError \/ AnthropicError
    \/ PollEnd \/ PollTerminated \/ Leave

Logging ==
    \/ ReceiveChat \/ ReceiveResponses \/ ReceiveAnthropic
    \/ LogVerdict
    \/ WriteChat \/ WriteResponses \/ WriteAnthropic \/ LogWhole

Next == Sending \/ Streaming \/ Logging

(* The client reads on or leaves, so that a stream which has terminated is *)
(* polled again; tokio schedules the tasks.  Nothing is assumed of the     *)
(* upstream.                                                               *)
Spec ==
    /\ Init /\ [][Next]_vars
    /\ WF_vars(PollTerminated) /\ WF_vars(Logging)

-----------------------------------------------------------------------------
(* Properties.                                                             *)

Settled == handler.at = "over" /\ logger.at \in {"none", "done"}

(* The analysis adds up the records of the audit database and the lines of *)
(* the error log (docs/API_ANALYSIS.md:97).  A request that has run its    *)
(* course is in one of the two and not in both, and no longer active; a    *)
(* stream may leave no trace.  A request whose client left before there    *)
(* was an answer is in neither, and no other request is.                   *)
CountedOnce ==
    Settled => /\ Len(audit) + errlog <= 1
               /\ reply = 0 => client.left /\ Len(audit) + errlog = 0
               /\ reply # 0 /\ (~req.streaming \/ reply # 200) => Len(audit) + errlog = 1
               /\ active = 0

EndsGiven == {client.ends[k] : k \in 1..Len(client.ends)}

(* The status of a stream's record is what its client experienced: 499     *)
(* only if it left without having been given an end, 502 only if it was given   *)
(* an error, 200 only if it was given an end that is none, or left with    *)
(* nothing but the [DONE] behind a flush still to be given.  A chat is     *)
(* judged by the first end it was given, however the handler, the client   *)
(* and the logger interleave.                                              *)
VerdictTruthful ==
    req.streaming => \A k \in 1..Len(audit) :
        LET s == audit[k].status
            ends == IF req.api \in OpenAI /\ client.ends # <<>> THEN {Head(client.ends)}
                    ELSE EndsGiven
        IN  /\ s = 499 => client.left /\ ends = {}
            /\ s = 502 => "error" \in ends
            /\ s = 200 => ends \ {"error"} # {} \/ (client.left /\ sse.pending)

(* What is recorded of an answer is what the client was given of it, text  *)
(* flushed at the end included.                                            *)
RecordedAsServed ==
    Settled /\ audit # <<>> /\ EndsGiven \cap {"done", "whole"} # {} =>
        audit[1].text = client.text

(* The whole answer of the same fields.  If no content was sent it is null *)
(* there: an empty string would be given the prefix, which a stream has    *)
(* before a text only.                                                     *)
Whole == apply_prefix_to_json(sent, sent.c = <<>>)

Closed ==
    LET blocks == extract_think_blocks(Whole.c)
    IN  CASE req.target = "reasoning" -> ~blocks.open /\ (sent.r = <<>> \/ blocks.joined = <<>>)
          [] req.target = "think_tag" -> Find(OpenTag, Whole.c) = 0
          [] OTHER -> TRUE

(* A whole answer has a newline between the thoughts of two blocks, a      *)
(* stream has none.                                                        *)
Unbroken(m) ==
    IF req.target = "reasoning" /\ sent.r = <<>>
    THEN [m EXCEPT !.r = extract_think_blocks(Whole.c).joined] ELSE m

(* A chat stream that is closed by [DONE] has given its client the text    *)
(* that a whole answer of the same content would have given, but for the   *)
(* newlines between blocks, wherever the pieces were cut, tags torn in two *)
(* included.  It is so for thoughts that come before the answer, in one of *)
(* the two forms, and are closed.                                          *)
StreamedAsWhole ==
    client.ends = <<"done">> /\ sse.flag /\ client.orderly /\ Closed
        => client.text = Unbroken(transform_message(Whole, req.target))

(* After an error in a chat stream the stream ends and the logger settles, *)
(* even if the upstream never ends it.                                     *)
ErrorEndsStream ==
    (req.api \in OpenAI /\ "error" \in EndsGiven) ~> Settled
=============================================================================
