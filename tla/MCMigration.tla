---------------------------- MODULE MCMigration ----------------------------
EXTENDS Migration

MCBackups == <<"bak", "bak.1", "bak.2">>

T(s) == [role |-> "user", text |-> s, images |-> 0, result |-> FALSE]

\* An exchange whose session header is blank, and one whose Time cannot be parsed.
MCExchanges ==
    <<[type |-> "chat", headers |-> ("x-session-id" :> "" @@ "session_id" :> "s1"),
      body |-> ("prompt_cache_key" :> "k"), msgs |-> <<T(<<97, 98>>)>>, parsable |-> TRUE,
      response |-> [form |-> "choices", blocks |-> <<>>, text |-> <<99>>, finish |-> "stop"]],
     [type |-> "responses", headers |-> ("x-request-id" :> "r1"),
      body |-> ("dsh_session" :> "d1"), msgs |-> <<T(<<100>>), T(<<>>)>>, parsable |-> FALSE,
      response |-> [form |-> "output", blocks |-> <<[kind |-> "text", text |-> <<101>>]>>,
                    text |-> <<>>, finish |-> "none"]]>>
============================================================================
