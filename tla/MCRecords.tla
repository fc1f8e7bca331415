----------------------------- MODULE MCRecords -----------------------------
EXTENDS Records

Says(role, text) == [role |-> role, text |-> text, images |-> 0, result |-> FALSE]
Plain(text) == [form |-> "choices", blocks |-> <<[kind |-> "text", text |-> text]>>,
                text |-> <<>>, finish |-> "stop"]
Exchange(type, headers, body, msgs) ==
    [type |-> type, headers |-> headers, body |-> body, msgs |-> msgs,
     response |-> Plain(<<111, 107, 8364, 8364, 33>>)]

\* Two conversations whose clients name no session at first, one of them from a blank
\* header.  The client of the second names one from its second turn on, in a header and
\* in the body behind a blank header, and then sends a plain text, which has no key.
System == Says("system", <<115>>)
Ask1 == Says("user", <<97, 8364, 98, 8364>>)
Ask2 == Says("user", <<98, 98, 98>>)
Reply == Says("assistant", <<111>>)

MCConversations ==
    << << Exchange("chat", <<>>, <<>>, <<System, Ask1>>),
          Exchange("chat", <<>>, <<>>, <<System, Ask1, Reply, Ask2>>) >>,
       << Exchange("responses", ("session_id" :> ""), <<>>, <<Ask2>>),
          Exchange("anthropic", ("x-session-id" :> "" @@ "x-client-request-id" :> "s"),
                   ("prompt_cache_key" :> "k"), <<System, Ask1>>),
          Exchange("responses_text", ("x-session-id" :> ""),
                   ("dsh_session" :> "" @@ "prompt_cache_key" :> "s"), <<Ask1>>) >> >>

\* They are conversations as the theorems take them.
ASSUME ConversationsAssumption == ExchangesProper /\ HistoriesResent /\ BeginningsDiffer
============================================================================
