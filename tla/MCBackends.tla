----------------------------- MODULE MCBackends -----------------------------
EXTENDS Backends

CONSTANTS r1, r2, r3

Plain1(p, m) == [model |-> "llama", stream |-> FALSE, empty |-> FALSE, prompt |-> p, max |-> m]
Stream1(p, m) == [Plain1(p, m) EXCEPT !.stream = TRUE]
Of(model, a) == [a EXCEPT !.model = model]

Bad == Of("none", Plain1(1, 1))
Empty == [Plain1(1, 1) EXCEPT !.empty = TRUE]

\* Three local calls that compete for the thread with nothing to generate, two
\* that do generate, prompts that just fit, do not and leave no room for an
\* answer, and hosted models beside requests that are not valid.
TheCalls == {<<Plain1(1, 0), Plain1(1, 0), Plain1(1, 0)>>,
             <<Stream1(1, 3), Plain1(3, 0), Bad>>,
             <<Plain1(4, 1), Plain1(3, 1), Empty>>,
             <<Of("gpt", Stream1(1, 1)), Empty, Bad>>,
             <<Of("claude", Stream1(1, 1)), Of("gpt", Plain1(1, 1)), Empty>>}

MCAsks == {[r \in {r1, r2, r3} |-> IF r = r1 THEN c[1] ELSE IF r = r2 THEN c[2] ELSE c[3]] : c \in TheCalls}

MCPieces == {<<>>, <<"x", "s">>, <<"t">>, <<"x", "s", "t">>}
MCStopSeqs == <<<<"s", "t">>>>

\* However it is formatted, a conversation reaches the model, or the upstream,
\* with every message once; only an Anthropic body takes some out of their order,
\* those of the system, which keep theirs among themselves.
Contents(ms) == [i \in DOMAIN ms |-> ms[i].content]

ASSUME EveryMessageSent ==
  \A n \in 1 .. 3 : \A roles \in [1 .. n -> {"system", "user", "assistant"}] :
    LET ms == [i \in 1 .. n |-> [role |-> roles[i], content |-> i]] IN
    /\ \A template \in {"none", "usable", "unusable"} :
         Front(Contents(FormatPrompt(template, ms))) = Contents(ms)
    /\ Body("gpt", ms).messages = ms
    /\ LET b == Body("claude", ms) IN
         /\ ToSet(b.system) = {i \in 1 .. n : roles[i] = "system"}
         /\ ToSet(Contents(b.messages)) = 1 .. n \ ToSet(b.system)
         /\ \A s \in {b.system, Contents(b.messages)} : \A i \in 2 .. Len(s) : s[i - 1] < s[i]

=============================================================================
