------------------------------ MODULE TaskLife ------------------------------
(***************************************************************************)
(* What the desktop promises of a long command, whichever it is (install,  *)
(* model pull, benchmark): a call either is refused at once or runs and    *)
(* ends once; of the calls on one id at most one runs; a cancellation      *)
(* reaches running calls only.  An id is held by a call for as long as it  *)
(* runs, so that somebody can cancel it, and no longer, so that the id can *)
(* be started again.  Commands.tla implements this.                        *)
(***************************************************************************)
CONSTANTS Calls, Ids, None

VARIABLES registered,  \* whether the command keeps a registry; it never changes
          life,      \* the state of each call
          holder,    \* the call that runs on each id, or None
          asked      \* the calls that were asked to stop

lifeVars == <<registered, life, holder, asked>>

Init == /\ registered \in BOOLEAN
        /\ life = [c \in Calls |-> "idle"]
        /\ holder = [i \in Ids |-> None]
        /\ asked = {}

Refuse(c) == /\ life[c] = "idle"
             /\ life' = [life EXCEPT ![c] = "ended"]
             /\ UNCHANGED <<registered, holder, asked>>

Begin(c, i) == /\ registered /\ life[c] = "idle"
               /\ holder[i] = None
               /\ life' = [life EXCEPT ![c] = "running"]
               /\ holder' = [holder EXCEPT ![i] = c]
               /\ UNCHANGED <<registered, asked>>

\* the long commands without an id of their own
BeginUnregistered(c) == /\ ~registered /\ life[c] = "idle"
                        /\ life' = [life EXCEPT ![c] = "running"]
                        /\ UNCHANGED <<registered, holder, asked>>

\* An end gives up exactly the id the call held.
End(c) == /\ life[c] = "running"
          /\ life' = [life EXCEPT ![c] = "ended"]
          /\ holder' = [i \in Ids |-> IF holder[i] = c THEN None ELSE holder[i]]
          /\ UNCHANGED <<registered, asked>>

Ask(S) == /\ S \subseteq {c \in Calls : life[c] = "running"}
          /\ asked' = asked \cup S
          /\ UNCHANGED <<registered, life, holder>>

Next == \/ \E c \in Calls : \/ Refuse(c) \/ BeginUnregistered(c) \/ End(c)
                            \/ \E i \in Ids : Begin(c, i)
        \/ \E S \in SUBSET Calls : Ask(S)

Spec == Init /\ [][Next]_lifeVars
=============================================================================
