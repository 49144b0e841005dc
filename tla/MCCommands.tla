----------------------------- MODULE MCCommands -----------------------------
EXTENDS Commands

CONSTANTS c1, c2, i1, i2

\* The ids are alike, so it is enough that one of the calls stays with one.
\* Calls on different ids meet only in the registry, or at the target of an
\* archive, or in a data set: that the other call is a short one is enough to
\* see them meet there.  It is enough, too, that one page leaves, in the kinds
\* with the most steps before the other call begins.
IdsInUse ==
  /\ id[c1] # i2
  /\ id[c2] = i2 => variant[c2] \in {"open_url", "gguf", "any", "plain", "skip"}
  /\ id[c2] = i2 \/ kind \in {"install", "pull", "dataset"} => c2 \in open
  /\ kind = "dataset" /\ pc[c2] # "idle" => c1 \in open
=============================================================================
