------------------------------ MODULE Extract ------------------------------
(***************************************************************************)
(* What the audit keeps of one exchange: db/extract.rs, the record built   *)
(* by db/records.rs, and the conversation key of db/session_fingerprint.rs.*)
(* A text is a sequence of code points: the limits count the bytes of      *)
(* their encoding, and a cut must fall between characters.                 *)
(***************************************************************************)
EXTENDS Integers, Sequences, FiniteSets, Functions, FiniteSetsExt, SequencesExt

CONSTANTS PROMPT_MAX,       \* RECORD_PROMPT_MAX_BYTES
          TEXT_MAX,         \* RECORD_REQUEST_TAIL_MAX_BYTES, RECORD_ANSWER_MAX_BYTES
          FTS_MAX,          \* AUDIT_FTS_*_BYTES, 0 for no cap
          FIELD_BYTE_CAP    \* what of a field enters the fingerprint

ASSUME LimitsAssumption ==
    /\ PROMPT_MAX \in Nat /\ TEXT_MAX \in Nat /\ FTS_MAX \in Nat
    /\ FIELD_BYTE_CAP \in Nat

\* An absent header, field or column; a blank value is "".
None == "none"

Or(a, b) == IF a # None THEN a ELSE b

-----------------------------------------------------------------------------
(* Texts *)

\* str::len: the bytes of a text in UTF-8.
Width(c) == IF c < 128 THEN 1 ELSE IF c < 2048 THEN 2 ELSE IF c < 65536 THEN 3 ELSE 4
bytes(s) ==
    LET upto[n \in 0..Len(s)] == IF n = 0 THEN 0 ELSE upto[n - 1] + Width(s[n])
    IN  upto[Len(s)]

\* The longest prefix of at most n bytes that ends at a character boundary, and
\* the longest such suffix: where the loops on is_char_boundary stop.
HeadOf(s, n) ==
    SubSeq(s, 1, Max({k \in 0..Len(s) : bytes(SubSeq(s, 1, k)) <= n}))

TailOf(s, n) ==
    LET k == Max({j \in 0..Len(s) : bytes(SubSeq(s, Len(s) - j + 1, Len(s))) <= n})
    IN  SubSeq(s, Len(s) - k + 1, Len(s))

\* A preview: what is kept of both ends, and the omission it mentions.
Whole(s) == [head |-> s, omitted |-> 0, tail |-> <<>>]

truncate_head(s, max) ==
    IF bytes(s) <= max THEN Whole(s)
    ELSE LET h == HeadOf(s, max)
         IN  [head |-> h, omitted |-> bytes(s) - bytes(h), tail |-> <<>>]

\* A bug: the omission is counted as if no cut had to move to a boundary.
truncate_head_tail_floor(s, max) ==
    IF bytes(s) <= max THEN Whole(s)
    ELSE LET h == HeadOf(s, (max * 3) \div 4)
             t == TailOf(s, max - ((max * 3) \div 4))
         IN  [head |-> h, omitted |-> bytes(s) - max, tail |-> t]

truncate_head_tail(s, max) ==
    IF bytes(s) <= max THEN Whole(s)
    ELSE LET head == (max * 3) \div 4
             h == HeadOf(s, head)
             t == TailOf(s, max - head)
         IN  [head |-> h, omitted |-> bytes(s) - bytes(h) - bytes(t), tail |-> t]

\* The text of a preview; the ellipsis stands for the mark of the omission.
Shown(p) == p.head \o (IF p.omitted = 0 THEN <<>> ELSE <<8230>>) \o p.tail

\* The three fields of SearchText under their caps.
build_search_text(prompt, tail, answer) ==
    IF FTS_MAX = 0 THEN <<prompt, tail, answer>>
    ELSE <<HeadOf(prompt, FTS_MAX), TailOf(tail, FTS_MAX), HeadOf(answer, FTS_MAX)>>

-----------------------------------------------------------------------------
(* Who is asking: headers first, then the body. *)

SESSION_ID_HEADERS == <<"x-session-id", "x-deepseek-harness-session-id",
                        "session_id", "x-client-request-id">>
PARENT_SESSION_ID_HEADERS == <<"x-parent-session-id",
                               "x-deepseek-harness-parent-session-id">>
REQUEST_ID_HEADERS == <<"x-request-id", "x-trace-id", "request-id", "x-correlation-id">>

\* A map of headers or of body fields holds the present ones only.
Get(map, name) == IF name \in DOMAIN map THEN map[name] ELSE None

first_header(headers, names) ==
    LET hits == {i \in DOMAIN names : Get(headers, names[i]) \notin {None, ""}}
    IN  IF hits = {} THEN None ELSE headers[names[Min(hits)]]

pick_str(body, key) == IF Get(body, key) = "" THEN None ELSE Get(body, key)

body_session_meta(body) ==
    [session |-> Or(pick_str(body, "dsh_session"), pick_str(body, "prompt_cache_key")),
     parent  |-> pick_str(body, "dsh_parent")]

header_meta(headers) ==
    [session    |-> first_header(headers, SESSION_ID_HEADERS),
     parent     |-> first_header(headers, PARENT_SESSION_ID_HEADERS),
     request_id |-> first_header(headers, REQUEST_ID_HEADERS)]

-----------------------------------------------------------------------------
(* What is asked.  A message is [role, text, images, result]: its texts     *)
(* joined, the number of its images, and whether it carries a tool result.  *)

IsSystem(m) == m.role \in {"system", "developer"}

CountIf(msgs, P(_)) == Cardinality({i \in DOMAIN msgs : P(msgs[i])})

UserTurns(msgs) == {i \in DOMAIN msgs : msgs[i].role = "user"}
Worded(msgs)    == {i \in DOMAIN msgs : msgs[i].text # <<>>}

\* The text of the last of the messages at the places I.
LastText(msgs, I) == IF I = {} THEN <<>> ELSE msgs[Max(I)].text

Turns(msgs) == {i \in DOMAIN msgs : ~IsSystem(msgs[i])}

Summary(asked, said, counts) ==
    [prompt |-> truncate_head(asked, PROMPT_MAX), prompt_bytes |-> bytes(asked),
     tail |-> truncate_head_tail(said, TEXT_MAX), tail_bytes |-> bytes(said),
     counts |-> counts]

Counts(msgs, messages, results, images) ==
    [messages |-> messages, results |-> results, images |-> images,
     system |-> CountIf(msgs, IsSystem),
     assistant |-> CountIf(msgs, LAMBDA m : m.role = "assistant")]

\* chat_extract: the last user message and the last message, empty or not.
chat_extract(msgs) ==
    Summary(LastText(msgs, UserTurns(msgs)), LastText(msgs, DOMAIN msgs),
            Counts(msgs, Len(msgs), CountIf(msgs, LAMBDA m : m.role = "tool"),
                   FoldSeq(LAMBDA m, n : m.images + n, 0, msgs)))

\* responses_input_extract: the last that are not empty; images beside a text only.
responses_input_extract(msgs) ==
    Summary(LastText(msgs, UserTurns(msgs) \cap Worded(msgs)), LastText(msgs, Worded(msgs)),
            Counts(msgs, Len(msgs), CountIf(msgs, LAMBDA m : m.role = "tool" \/ m.result),
                   FoldSeq(LAMBDA m, n : (IF m.text = <<>> THEN 0 ELSE m.images) + n,
                           0, msgs)))

\* The input of a Responses request may be one text.
responses_text_extract(msgs) ==
    Summary(LastText(msgs, DOMAIN msgs), LastText(msgs, DOMAIN msgs), Counts(<<>>, 1, 0, 0))

\* anthropic_extract: the system prompt is a field of its own; no images.
anthropic_extract(msgs) ==
    Summary(LastText(msgs, UserTurns(msgs) \cap Worded(msgs)),
            LastText(msgs, Turns(msgs) \cap Worded(msgs)),
            Counts(msgs, Cardinality(Turns(msgs)),
                   CountIf(msgs, LAMBDA m : ~IsSystem(m) /\ m.result), 0))

\* The other endpoints carry one text: completion, embedding, rerank, score.
value_prompt(msgs) ==
    Summary(LastText(msgs, DOMAIN msgs), LastText(msgs, DOMAIN msgs),
            Counts(<<>>, 0, 0, 0))

extract_request(x) ==
    CASE x.type = "chat"      -> chat_extract(x.msgs)
      [] x.type = "responses" -> responses_input_extract(x.msgs)
      [] x.type = "responses_text" -> responses_text_extract(x.msgs)
      [] x.type = "anthropic" -> anthropic_extract(x.msgs)
      [] OTHER                -> value_prompt(x.msgs)

-----------------------------------------------------------------------------
(* What is answered.  A response has a form and blocks [kind, text].        *)

NewLine == <<10>>
Label == <<91>>     \* "[reasoning]", "[reasoning_content]" or "[thinking]"

\* push_nonempty and push_reasoning: what a block adds to the answer.
Part(block) == IF block.kind = "reasoning" THEN Label \o block.text ELSE block.text

Joined(parts) ==
    FoldRight(LAMBDA p, t : IF t = <<>> THEN p ELSE p \o NewLine \o t, parts, <<>>)

Answer(blocks) ==
    Joined([i \in DOMAIN blocks |-> Part(blocks[i])])

\* The blocks that speak: reasoning is kept for choices and content, not output.
Spoken(r) ==
    SelectSeq(r.blocks, LAMBDA b : /\ b.text # <<>>
                                   /\ \/ b.kind = "text"
                                      \/ b.kind = "reasoning" /\ r.form # "output")

extract_response(r) ==
    LET said == IF r.form = "choices" /\ Spoken(r) = <<>> THEN r.text ELSE Answer(Spoken(r))
    IN  [answer |-> truncate_head_tail(said, TEXT_MAX), answer_bytes |-> bytes(said),
         tools  |-> CountIf(r.blocks, LAMBDA b : b.kind = "tool"),
         finish |-> IF r.form = "output" THEN None ELSE r.finish]

-----------------------------------------------------------------------------
(* The key of a conversation whose client names none. *)

capped_text(s) == HeadOf(s, FIELD_BYTE_CAP)

LeadingSystem(msgs) ==
    LET lead == {i \in DOMAIN msgs : \A j \in 1..i : IsSystem(msgs[j])}
    IN  IF lead = {} THEN <<>> ELSE msgs[Max(lead)].text

NoKey == <<>>

\* The request has its messages, or its input, as an array, with one to begin with.
Keyed(x) == x.type \in {"chat", "responses", "anthropic"} /\ Turns(x.msgs) # {}

KeyWith(x, m) == <<capped_text(LeadingSystem(x.msgs)), m.role, capped_text(m.text)>>

\* A bug: the last message enters the key.
conversation_fingerprint_last(x) ==
    IF ~Keyed(x) THEN NoKey ELSE KeyWith(x, x.msgs[Max(Turns(x.msgs))])

\* The digest is taken to tell different inputs apart.  Over-long histories change
\* nothing: only the system text and the first message enter it.
conversation_fingerprint(x) ==
    IF ~Keyed(x) THEN NoKey ELSE KeyWith(x, x.msgs[Min(Turns(x.msgs))])

-----------------------------------------------------------------------------
\* log_non_streaming_request: the columns of the record of exchange x.
BuildRecord(x) ==
    LET h == header_meta(x.headers)
        b == body_session_meta(x.body)
        q == extract_request(x)
        a == extract_response(x.response)
    IN  [session |-> Or(h.session, b.session), parent |-> Or(h.parent, b.parent),
         request_id |-> h.request_id, request |-> q, response |-> a,
         search |-> build_search_text(Shown(q.prompt), Shown(q.tail), Shown(a.answer))]
============================================================================
