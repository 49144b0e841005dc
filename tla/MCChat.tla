------------------------------- MODULE MCChat -------------------------------
EXTENDS Chat

CONSTANTS c1, c2, c3, m1, m2

\* The models are alike: c2 asks for m1.  c1 is the call whose answer and page
\* are looked at closely; of the others it is enough that they hold the lock,
\* reach their server and end.  Chats that do not use the slot meet the others
\* only in CancelAll and the exit, so beside one a single llama chat runs; so it
\* does beside a survey.
FewChats ==
  /\ runtime[c2] = "llama" /\ runtime[c3] = "llama" /\ model[c2] = m1
  /\ {c2, c3} \subseteq open /\ delta \subseteq {c1}
  /\ pc[c2] # "body" /\ pc[c3] \notin {"body", "stream"}
  /\ runtime[c1] # "llama" => model[c3] = m1 /\ pc[c3] = "idle"
  /\ runtime[c1] \notin {"llama", "survey"} => model[c1] = m1
=============================================================================
