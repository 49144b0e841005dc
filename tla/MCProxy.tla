------------------------------ MODULE MCProxy ------------------------------
EXTENDS Proxy

CONSTANTS q1, q2, m1

Personal == [is |-> "json", text |-> {"personal"}]
Comment == [is |-> "comment", text |-> {}]

MCBodies == {[form |-> "json", text |-> {"personal"}],
             [form |-> "other", text |-> {"personal"}],
             [form |-> "large", text |-> {}]}
MCAnswers == {[form |-> "stream", frames |-> <<Personal, Comment, Personal>>]}
MCListed == [ollama |-> Nobody, lmstudio |-> {m1}]
MCKeyPolicies == {None}
MCListedPolicies == {None, {}, {"prompt-sanitize"}}
=============================================================================
