---------------------------- MODULE DesktopProofs ----------------------------
(***************************************************************************)
(* What holds of the parts of the desktop that share nothing, for every    *)
(* number of calls, keys, files and events: its update poller, its         *)
(* settings files, its start, its caches, its search, what its pages are   *)
(* told, what it reports of itself, and the downloader of its installer.   *)
(***************************************************************************)
EXTENDS UpdatePoller, ConfigStores, Startup, Caches, KnowledgeSearch, Supervisor,
        Telemetry, Downloader, Recursion, FiniteSetTheorems, SequenceTheorems, TLAPS

\* The types the invariants rest on.
Entry == [answer : Version \cup {UpToDate}, told : BOOLEAN, late : BOOLEAN]

PollTypes ==
  /\ slot \in SUBSET Poller
  /\ task \in [Poller -> {"new", "refused", "top", "polling", "sleeping", "ended", "done"}]
  /\ cancelled \in SUBSET Poller
  /\ gone \in SUBSET Poller
  /\ last \in [Poller -> SUBSET Version]
  /\ log \in [Poller -> Seq(Entry)]

\* A check appends one entry, whose fields are what Polled says.
LEMMA PolledEntry ==
  ASSUME NEW p \in Poller, NEW answer \in Version \cup {UpToDate}, NEW next,
         Polled(p, answer, next)
  PROVE  \E e \in Entry :
           /\ log' = [log EXCEPT ![p] = Append(@, e)]
           /\ e.answer = answer
           /\ e.told <=> (answer # UpToDate /\ answer \notin last[p])
           /\ e.late <=> p \in cancelled
<1> DEFINE told == answer # UpToDate /\ answer \notin last[p]
           e == [answer |-> answer, told |-> told, late |-> p \in cancelled]
<1>1. told \in BOOLEAN /\ (p \in cancelled) \in BOOLEAN
  OBVIOUS
<1>2. e \in Entry
  BY <1>1, Zenon DEF Entry
<1>3. log' = [log EXCEPT ![p] = Append(@, e)]
  BY DEF Polled
<1>4. e.answer = answer /\ e.told = told /\ e.late = (p \in cancelled)
  BY Zenon
<1>5. QED BY <1>2, <1>3, <1>4, Zenon

\* The types are kept by every step.
LEMMA PollTypesCorrect == PollSpec => []PollTypes
<1>1. PollInit => PollTypes
  BY DEF PollInit, PollTypes
<1>2. PollTypes /\ [PollNext]_pollVars => PollTypes'
  <2> SUFFICES ASSUME PollTypes, [PollNext]_pollVars PROVE PollTypes'
    OBVIOUS
  <2> USE DEF PollTypes
  <2>1. ASSUME NEW p \in Poller, PollerStep(p) PROVE PollTypes'
    <3>1. CASE Install(p) BY <3>1 DEF Install
    <3>2. CASE RefuseStart(p) BY <3>2 DEF RefuseStart
    <3>3. CASE LoopTop(p)
      <4>1. CASE p \in cancelled BY <3>3, <4>1 DEF LoopTop
      <4>2. CASE p \notin cancelled BY <3>3, <4>2 DEF LoopTop
      <4>3. QED BY <4>1, <4>2
    <3>4. CASE PollAnswers(p)
      <4>1. PICK answer \in Version \cup {UpToDate}, next \in SUBSET Version :
              Polled(p, answer, next)
        BY <3>4 DEF PollAnswers
      <4>2. PICK e \in Entry : log' = [log EXCEPT ![p] = Append(@, e)]
        BY <4>1, PolledEntry
      <4>3. log' \in [Poller -> Seq(Entry)]
        BY <4>2
      <4>4. cancelled' \in SUBSET Poller
        BY <4>1 DEF Polled
      <4>5. QED BY <4>1, <4>3, <4>4 DEF Polled
    <3>5. CASE PollFails(p) BY <3>5 DEF PollFails
    <3>6. CASE SleepElapses(p) BY <3>6 DEF SleepElapses
    <3>7. CASE SleepCancelled(p) BY <3>7 DEF SleepCancelled
    <3>8. CASE Clear(p) BY <3>8 DEF Clear
    <3>9. CASE CloseWindow(p) BY <3>9 DEF CloseWindow
    <3>10. QED
      BY <2>1, <3>1, <3>2, <3>3, <3>4, <3>5, <3>6, <3>7, <3>8, <3>9 DEF PollerStep, TaskStep
  <2>2. CASE StopPoller BY <2>2 DEF StopPoller
  <2>3. CASE UNCHANGED pollVars BY <2>3 DEF pollVars
  <2>4. QED BY <2>1, <2>2, <2>3 DEF PollNext
<1>3. QED
  BY <1>1, <1>2, PTL DEF PollSpec

-----------------------------------------------------------------------------
\* The slot never keeps the handle of a task that is over.
THEOREM SlotLive == PollSpec => []SlotIsLive
<1>1. PollInit => SlotIsLive
  BY DEF PollInit, SlotIsLive
<1>2. PollTypes /\ SlotIsLive /\ [PollNext]_pollVars => SlotIsLive'
  <2> SUFFICES ASSUME PollTypes, SlotIsLive, [PollNext]_pollVars PROVE SlotIsLive'
    OBVIOUS
  <2> USE DEF PollTypes, SlotIsLive, Live
  <2>1. ASSUME NEW p \in Poller, PollerStep(p) PROVE SlotIsLive'
    <3>1. CASE Install(p) BY <3>1 DEF Install
    <3>2. CASE RefuseStart(p) BY <3>2 DEF RefuseStart
    <3>3. CASE LoopTop(p) BY <3>3 DEF LoopTop
    <3>4. CASE PollAnswers(p) BY <3>4 DEF PollAnswers, Polled
    <3>5. CASE PollFails(p) BY <3>5 DEF PollFails
    <3>6. CASE SleepElapses(p) BY <3>6 DEF SleepElapses
    <3>7. CASE SleepCancelled(p) BY <3>7 DEF SleepCancelled
    <3>8. CASE Clear(p) BY <3>8 DEF Clear
    <3>9. CASE CloseWindow(p) BY <3>9 DEF CloseWindow
    <3>10. QED
      BY <2>1, <3>1, <3>2, <3>3, <3>4, <3>5, <3>6, <3>7, <3>8, <3>9 DEF PollerStep, TaskStep
  <2>2. CASE StopPoller BY <2>2 DEF StopPoller
  <2>3. CASE UNCHANGED pollVars BY <2>3 DEF pollVars
  <2>4. QED BY <2>1, <2>2, <2>3 DEF PollNext
<1>3. QED
  BY <1>1, <1>2, PollTypesCorrect, PTL DEF PollSpec

-----------------------------------------------------------------------------
\* last_notified is the previous answer, unless that was up to date.
Remembers ==
  \A p \in Poller :
    LET n == Len(log[p]) IN
    last[p] = IF n = 0 THEN {} ELSE {log[p][n].answer} \ {UpToDate}

\* A late entry is the last one, and its poller will not check again.
LateIsLast ==
  \A p \in Poller : \A i \in 1..Len(log[p]) :
    log[p][i].late => i = Len(log[p]) /\ p \in cancelled /\ task[p] # "polling"

History == Remembers /\ TellsEveryChange /\ LateIsLast

\* A successful check extends the history correctly.
LEMMA PollAnswersKeepsHistory ==
  ASSUME PollTypes, History, NEW p \in Poller, PollAnswers(p)
  PROVE  History'
<1>0. UpToDate \notin Version
  BY PollerAssumption
<1>1. PICK answer \in Version \cup {UpToDate} :
        Polled(p, answer, {answer} \ {UpToDate})
  <2>1. \/ Polled(p, UpToDate, {})
        \/ \E v \in Version : Polled(p, v, {v})
    BY DEF PollAnswers
  <2>2. {UpToDate} \ {UpToDate} = {} /\ \A v \in Version : {v} \ {UpToDate} = {v}
    BY <1>0
  <2>3. QED BY <2>1, <2>2, Zenon
<1>2. PICK e \in Entry :
        /\ log' = [log EXCEPT ![p] = Append(@, e)]
        /\ e.answer = answer
        /\ e.told <=> (answer # UpToDate /\ answer \notin last[p])
        /\ e.late <=> p \in cancelled
  BY <1>1, PolledEntry
<1> DEFINE n == Len(log[p])
<1>3. /\ n \in Nat
      /\ Len(log'[p]) = n + 1
      /\ log'[p][n + 1] = e
      /\ \A i \in 1..n : log'[p][i] = log[p][i]
      /\ \A q \in Poller \ {p} : log'[q] = log[q]
  BY <1>2 DEF PollTypes
<1>4. Remembers'
  <2> SUFFICES ASSUME NEW q \in Poller
               PROVE  last'[q] = IF Len(log'[q]) = 0 THEN {}
                                 ELSE {log'[q][Len(log'[q])].answer} \ {UpToDate}
    BY Zenon DEF Remembers
  <2>1. CASE q # p
    <3>1. last'[q] = last[q]
      BY <1>1, <2>1 DEF Polled, PollTypes
    <3>2. QED BY <1>3, <2>1, <3>1 DEF Remembers, History
  <2>2. CASE q = p
    <3>1. last'[p] = {answer} \ {UpToDate}
      BY <1>1 DEF Polled, PollTypes
    <3>2. QED BY <1>2, <1>3, <2>2, <3>1
  <2>3. QED BY <2>1, <2>2
<1>5. e.told <=> /\ e.answer # UpToDate
                 /\ n + 1 > 1 => log[p][n].answer # e.answer
  <2>1. last[p] = IF n = 0 THEN {} ELSE {log[p][n].answer} \ {UpToDate}
    BY DEF History, Remembers
  <2>2. answer \notin last[p] <=> (n = 0 \/ log[p][n].answer # answer \/ answer = UpToDate)
    BY <2>1
  <2>3. n + 1 > 1 <=> n # 0
    BY <1>3
  <2>4. QED BY <1>2, <2>2, <2>3, Zenon
<1>6. TellsEveryChange'
  <2> SUFFICES ASSUME NEW q \in Poller, NEW i \in 1..Len(log'[q])
               PROVE  log'[q][i].told <=>
                        /\ log'[q][i].answer # UpToDate
                        /\ i > 1 => log'[q][i - 1].answer # log'[q][i].answer
    BY Zenon DEF TellsEveryChange
  <2>1. CASE q # p
    BY <1>3, <2>1 DEF History, TellsEveryChange
  <2>2. CASE q = p /\ i = n + 1
    <3>1. n + 1 > 1 => n \in 1..n
      BY <1>3
    <3>2. n + 1 > 1 => log'[p][(n + 1) - 1] = log[p][n]
      BY <1>3, <3>1
    <3>3. QED BY <1>3, <1>5, <2>2, <3>2
  <2>3. CASE q = p /\ i # n + 1
    <3>1. i \in 1..n /\ (i > 1 => i - 1 \in 1..n)
      BY <1>3, <2>3
    <3>2. log'[q][i] = log[q][i] /\ (i > 1 => log'[q][i - 1] = log[q][i - 1])
      BY <1>3, <2>3, <3>1
    <3>3. log[q][i].told <=>
            /\ log[q][i].answer # UpToDate
            /\ i > 1 => log[q][i - 1].answer # log[q][i].answer
      BY <2>3, <3>1 DEF History, TellsEveryChange
    <3>4. QED BY <3>2, <3>3
  <2>4. QED BY <2>1, <2>2, <2>3
<1>7. \A i \in 1..n : ~log[p][i].late
  BY DEF History, LateIsLast, PollAnswers
<1>8. LateIsLast'
  <2> SUFFICES ASSUME NEW q \in Poller, NEW i \in 1..Len(log'[q]), log'[q][i].late
               PROVE  i = Len(log'[q]) /\ q \in cancelled' /\ task'[q] # "polling"
    BY Zenon DEF LateIsLast
  <2>1. cancelled \subseteq cancelled' /\ task' = [task EXCEPT ![p] = "sleeping"]
    BY <1>1 DEF Polled
  <2>2. CASE q # p
    BY <1>3, <2>1, <2>2 DEF History, LateIsLast, PollTypes
  <2>3. CASE q = p
    <3>1. i = n + 1
      BY <1>3, <1>7, <2>3
    <3>2. QED BY <1>2, <1>3, <2>1, <2>3, <3>1 DEF PollTypes
  <2>4. QED BY <2>2, <2>3
<1>9. QED BY <1>4, <1>6, <1>8 DEF History

\* The invariants of the history hold in every reachable state.
LEMMA HistoryCorrect == PollSpec => []History
<1>1. PollInit => History
  BY DEF PollInit, History, Remembers, TellsEveryChange, LateIsLast
<1>2. PollTypes /\ History /\ [PollNext]_pollVars => History'
  <2> SUFFICES ASSUME PollTypes, History, [PollNext]_pollVars PROVE History'
    OBVIOUS
  <2>1. ASSUME UNCHANGED <<last, log>>, cancelled \subseteq cancelled',
               \A q \in Poller : task'[q] = "polling" => task[q] = "polling" \/ q \notin cancelled
        PROVE  History'
    <3>1. Remembers' /\ TellsEveryChange'
      BY <2>1, Zenon DEF History, Remembers, TellsEveryChange
    <3>2. LateIsLast'
      <4> SUFFICES ASSUME NEW q \in Poller, NEW i \in 1..Len(log[q]), log[q][i].late
                   PROVE  i = Len(log[q]) /\ q \in cancelled' /\ task'[q] # "polling"
        BY <2>1, Zenon DEF LateIsLast
      <4>1. i = Len(log[q]) /\ q \in cancelled /\ task[q] # "polling"
        BY Zenon DEF History, LateIsLast
      <4>2. QED BY <2>1, <4>1
    <3>3. QED BY <3>1, <3>2 DEF History
  <2>2. ASSUME NEW p \in Poller, PollerStep(p) PROVE History'
    <3>1. CASE PollAnswers(p) BY <3>1, PollAnswersKeepsHistory
    <3>2. CASE Install(p) BY <2>1, <3>2 DEF Install, PollTypes
    <3>3. CASE RefuseStart(p) BY <2>1, <3>3 DEF RefuseStart, PollTypes
    <3>4. CASE LoopTop(p) BY <2>1, <3>4 DEF LoopTop, PollTypes
    <3>5. CASE PollFails(p) BY <2>1, <3>5 DEF PollFails, PollTypes
    <3>6. CASE SleepElapses(p) BY <2>1, <3>6 DEF SleepElapses, PollTypes
    <3>7. CASE SleepCancelled(p) BY <2>1, <3>7 DEF SleepCancelled, PollTypes
    <3>8. CASE Clear(p) BY <2>1, <3>8 DEF Clear, PollTypes
    <3>9. CASE CloseWindow(p) BY <2>1, <3>9 DEF CloseWindow
    <3>10. QED
      BY <2>2, <3>1, <3>2, <3>3, <3>4, <3>5, <3>6, <3>7, <3>8, <3>9 DEF PollerStep, TaskStep
  <2>3. CASE StopPoller BY <2>1, <2>3 DEF StopPoller
  <2>4. CASE UNCHANGED pollVars BY <2>1, <2>4 DEF pollVars
  <2>5. QED BY <2>2, <2>3, <2>4 DEF PollNext
<1>3. QED
  BY <1>1, <1>2, PollTypesCorrect, PTL DEF PollSpec

\* The user is told of a release exactly when the answer changes to it.
THEOREM EveryChangeIsTold == PollSpec => []TellsEveryChange
<1>1. History => TellsEveryChange
  BY DEF History
<1>2. QED
  BY <1>1, HistoryCorrect, PTL

\* A cancelled poller completes at most the check it is in.
THEOREM CancelledPollerStops == PollSpec => []OneLateCheck
<1>1. History => OneLateCheck
  BY DEF History, LateIsLast, OneLateCheck
<1>2. QED
  BY <1>1, HistoryCorrect, PTL

-----------------------------------------------------------------------------
(***************************************************************************)
(* A start of the application on the key database, and the check of a      *)
(* workspace that was carried to another machine.                          *)
(***************************************************************************)
KeysSpec == KeysInit /\ [][KeysNext]_keyVars
RepairSpec == RepairInit /\ [][RepairNext]_repairVars

\* The types of the start.
Database == {None_} \cup [is : {"plain", "cipher", "broken"}, keys : SUBSET Keys, secret : Nat]
Migrating == {"export", "exporting", "set_aside"}

StartTypes ==
  /\ at \in {"recover", "secret", "detect", "promote", "open", "up"} \cup Migrating
  /\ files \in [db : Database, migrating : Database, backup : SUBSET Keys]
  /\ ring \in Nat /\ secrets \in Nat /\ mode \in Nat
  /\ store \in {"file", "memory", "closed"}
  /\ kept \in SUBSET Keys /\ failed \in BOOLEAN /\ orphaned \in BOOLEAN

\* What each step of a start finds.
StepsInOrder ==
  /\ at = "detect" \/ at = "promote" \/ at \in Migrating => mode # 0
  /\ at \in Migrating => files.db.is = "plain"
  /\ at = "set_aside" => files.migrating = Cipher(files.db.keys, mode)
  /\ at = "promote" => files.db = None_ /\ files.migrating.is = "cipher"
                       /\ files.migrating.secret = mode
  /\ at = "open" /\ ~failed /\ ~orphaned => mode # 0 /\ files.db.is # "plain"
  /\ store = "file" => at = "up" /\ files.db # None_

\* As long as no rename has failed and the keyring has kept the passphrase, the
\* database, or the export that is about to become it, holds every key under
\* the passphrase of the keyring.
NothingOrphaned ==
  ~orphaned =>
    /\ files.db.is # "broken"
    /\ files.db.is = "cipher" => ring = files.db.secret /\ ring # 0
    /\ files.db # None_ => kept \subseteq files.db.keys
    /\ files.db = None_ =>
         \/ kept = {} /\ files.migrating = None_
         \/ /\ at \in {"recover", "promote"}
            /\ files.migrating.is = "cipher" /\ kept \subseteq files.migrating.keys
            /\ ring = files.migrating.secret /\ ring # 0
    /\ mode # 0 => mode = ring

\* The inductive invariant: a key that is not in the database is in a backup,
\* which no step removes.
KeysKept ==
  /\ StartTypes /\ StepsInOrder /\ NothingOrphaned
  /\ kept \subseteq files.db.keys \cup files.backup
  /\ at = "up" /\ ~failed /\ ~orphaned => store = "file" /\ kept \subseteq files.db.keys

\* Whatever an earlier run left of the key database, its keys are in one file.
LEMMA KeysStart == KeysInit => KeysKept
<1> SUFFICES ASSUME KeysInit PROVE KeysKept
  OBVIOUS
<1>1. PICK k \in SUBSET Keys, d \in {"absent", "plain", "cipher", "broken"} :
        /\ d \in {"absent", "broken"} => k = {}
        /\ files = [db |-> CASE d = "absent" -> None_ [] d = "plain" -> Plain(k)
                             [] d = "cipher" -> Cipher(k, 1) [] OTHER -> Broken,
                    migrating |-> None_, backup |-> {}]
        /\ kept = k /\ orphaned = (d = "broken")
        /\ ring = (IF d = "cipher" THEN 1 ELSE 0)
  BY DEF KeysInit
<1>2. /\ files.db = CASE d = "absent" -> None_ [] d = "plain" -> Plain(k)
                      [] d = "cipher" -> Cipher(k, 1) [] OTHER -> Broken
      /\ files.migrating = None_ /\ files.backup = {}
  BY <1>1
<1>3. /\ d = "absent" => files.db = None_ /\ kept = {}
      /\ d = "plain" => files.db = Plain(k)
      /\ d = "cipher" => files.db = Cipher(k, 1)
      /\ d = "broken" => files.db = Broken /\ kept = {} /\ orphaned
  BY <1>1, <1>2
<1>4. StartTypes
  BY <1>1, <1>3 DEF KeysInit, StartTypes, Database, None_, Plain, Cipher, Broken, Migrating
<1>5. StepsInOrder
  BY DEF KeysInit, StepsInOrder, Migrating
<1>6. NothingOrphaned /\ kept \subseteq files.db.keys \cup files.backup
  BY <1>1, <1>2, <1>3 DEF KeysInit, NothingOrphaned, None_, Plain, Cipher, Broken
<1>7. QED BY <1>4, <1>5, <1>6 DEF KeysInit, KeysKept

\* Every step of a start keeps them.
LEMMA KeysGoOn ==
  ASSUME KeysKept, KeysNext
  PROVE  KeysKept'
<1> USE DEF KeysKept, StartTypes, StepsInOrder, NothingOrphaned, Database, Migrating,
            None_, Plain, Cipher, Broken, Step, FailTo
<1>1. CASE Recover
  <2>1. CASE files' = files
    <3>1. files.db # None_ \/ files.migrating = None_ \/ files # Recovered
      BY DEF Recovered
    <3>2. ~orphaned' => ~orphaned /\ (files.db # None_ \/ files.migrating = None_)
      BY <1>1, <2>1, <3>1 DEF Recover
    <3>3. StartTypes' /\ StepsInOrder'
      BY <1>1, <2>1 DEF Recover
    <3>4. NothingOrphaned'
      BY <1>1, <2>1, <3>2 DEF Recover
    <3>5. QED BY <1>1, <2>1, <3>3, <3>4 DEF Recover
  <2>2. CASE files' = Recovered /\ files.migrating # None_ /\ files.db = None_
    <3>1. /\ files'.db = files.migrating /\ files'.migrating = None_
          /\ files'.backup = files.backup
          /\ files' \in [db : Database, migrating : Database, backup : SUBSET Keys]
      BY <2>2 DEF Recovered
    <3>2. QED BY <1>1, <2>2, <3>1 DEF Recover
  <2>3. CASE files' = Recovered /\ ~(files.migrating # None_ /\ files.db = None_)
    <3>1. /\ files'.db = files.db /\ files'.migrating = None_
          /\ files'.backup = files.backup
          /\ files' \in [db : Database, migrating : Database, backup : SUBSET Keys]
      BY <2>3 DEF Recovered
    <3>2. QED BY <1>1, <2>3, <3>1 DEF Recover
  <2>4. QED BY <1>1, <2>1, <2>2, <2>3 DEF Recover
<1>2. CASE Secret BY <1>2 DEF Secret
<1>3. CASE NoKeyring BY <1>3 DEF NoKeyring
<1>4. CASE Detect BY <1>4 DEF Detect
<1>5. CASE DetectFails BY <1>5 DEF DetectFails
<1>6. CASE ExportBegins BY <1>6 DEF ExportBegins
<1>7. CASE ExportEnds BY <1>7 DEF ExportEnds
<1>8. CASE SetAside
  <2>0. files.db.keys \in SUBSET Keys
    OBVIOUS
  <2>1. /\ files'.db = None_ /\ files'.migrating = files.migrating
        /\ files'.backup = files.backup \cup files.db.keys
        /\ files' \in [db : Database, migrating : Database, backup : SUBSET Keys]
    BY <1>8, <2>0 DEF SetAside
  <2>2. StartTypes' /\ StepsInOrder'
    BY <1>8, <2>1 DEF SetAside
  <2>3. NothingOrphaned'
    BY <1>8, <2>1 DEF SetAside
  <2>4. QED BY <1>8, <2>1, <2>2, <2>3 DEF SetAside
<1>9. CASE Promote
  <2>1. /\ files'.db = files.migrating /\ files'.migrating = None_
        /\ files'.backup = files.backup
        /\ files' \in [db : Database, migrating : Database, backup : SUBSET Keys]
    BY <1>9 DEF Promote
  <2>2. QED BY <1>9, <2>1 DEF Promote
<1>10. CASE MigrationFails BY <1>10 DEF MigrationFails
<1>11. CASE OpenKeys
  <2>1. CASE files.db # None_ BY <1>11, <2>1 DEF OpenKeys, Fits
  <2>2. CASE files.db = None_
    <3>1. /\ files'.db = IF mode = 0 THEN Plain({}) ELSE Cipher({}, mode)
          /\ files'.migrating = files.migrating /\ files'.backup = files.backup
          /\ files' \in [db : Database, migrating : Database, backup : SUBSET Keys]
      BY <1>11, <2>2 DEF OpenKeys
    <3>2. QED BY <1>11, <2>2, <3>1 DEF OpenKeys, Fits
  <2>3. QED BY <2>1, <2>2
<1>12. CASE OpenKeysFails BY <1>12 DEF OpenKeysFails
<1>13. CASE StartAgain BY <1>13 DEF StartAgain
<1>14. CASE KeyringIsLost BY <1>14 DEF KeyringIsLost
<1>15. ASSUME NEW k \in Keys, IssueKey(k) PROVE KeysKept'
  BY <1>15 DEF IssueKey
<1>16. QED
  BY <1>1, <1>2, <1>3, <1>4, <1>5, <1>6, <1>7, <1>8, <1>9, <1>10, <1>11, <1>12, <1>13,
     <1>14, <1>15 DEF KeysNext

-----------------------------------------------------------------------------
\* What a check of a workspace has done by the step it is at: the caches it has
\* cleared hold this machine's figures only, and the manifest it has read, unless
\* a check was cut off, names no other platform than the fingerprint did.
RepairTypes ==
  /\ host \in Machines /\ print \in Prints \cup {NoHost}
  /\ caches \in [CacheDirs -> SUBSET Prints]
  /\ check \in {"idle", "bench", "scan", "runtimes", "fingerprint", "write", "writing"}
  /\ cut \in BOOLEAN

OwnFigures(d) == caches[d] \subseteq {FromHost(host)} \cup unchecked

RepairGoesOn ==
  /\ RepairTypes
  /\ \A d \in CacheDirs : caches[d] \subseteq ({print} \ {NoHost}) \cup unchecked
  /\ check \in {"scan", "runtimes", "fingerprint"} => OwnFigures("bench")
  /\ check \in {"runtimes", "fingerprint"} => OwnFigures("scan")
  /\ ~cut =>
      /\ print = NoHost => manifest = "absent"
      /\ print # NoHost /\ check \notin {"write", "writing"} =>
           manifest \in {"none", "absent", print.platform}
      /\ check \in {"bench", "scan", "runtimes"} =>
           print # NoHost /\ draft \in {"none", print.platform}
      /\ check \in {"fingerprint", "write", "writing"} =>
           draft \in {"none", FromHost(host).platform}
      /\ check \in {"write", "writing"} => print = FromHost(host)

\* A fingerprint is of some machine, and names one of two platforms.
LEMMA PrintsAre ==
  /\ \A h \in Machines : FromHost(h) \in Prints
  /\ \A p \in Prints : p # NoHost /\ p.platform \notin {"none", "absent", "torn"}
<1>1. \A h \in Machines : h.platform \in {"windows-x64", "macos-arm"}
  BY DEF Machines
<1>2. QED BY <1>1 DEF Prints, FromHost, NoHost

\* A repair starts on a workspace somebody carried here.
LEMMA RepairStarts == RepairInit => RepairGoesOn
  BY PrintsAre DEF RepairInit, RepairGoesOn, RepairTypes, OwnFigures, CacheDirs, FromHost

\* Every step of a repair, and every change behind its back, goes on from there.
LEMMA RepairStep ==
  ASSUME RepairGoesOn, RepairNext
  PROVE  RepairGoesOn'
<1> DEFINE cur == FromHost(host)
<1>1. /\ cur \in Prints /\ cur # NoHost
      /\ print # NoHost => print \in Prints
      /\ host' = host => FromHost(host)' = cur
  BY PrintsAre DEF RepairGoesOn, RepairTypes
<1> USE PrintsAre, <1>1 DEF RepairGoesOn, RepairTypes, OwnFigures, CacheDirs
<1> HIDE DEF cur
<1>2. CASE ReadManifest
  <2>1. UNCHANGED <<host, print, caches, manifest, unchecked, cut>>
    BY <1>2 DEF ReadManifest
  <2>2. CASE Tier # "green"
    <3>1. print # NoHost /\ check' = "bench"
      BY <1>2, <2>2 DEF ReadManifest, Tier, Classify
    <3>2. QED BY <1>2, <2>1, <3>1 DEF ReadManifest
  <2>3. CASE Tier = "green"
    <3>1. (print = NoHost \/ print = cur) /\ check' = "fingerprint"
      BY <1>2, <2>3 DEF ReadManifest, Tier, Classify, cur
    <3>2. QED BY <1>2, <2>1, <3>1 DEF ReadManifest
  <2>4. QED BY <2>2, <2>3
<1>3. CASE ClearRuntimes BY <1>3 DEF ClearRuntimes, Tier, Classify
<1>4. CASE SaveFingerprint BY <1>4 DEF SaveFingerprint
<1>5. CASE WriteManifest BY <1>5 DEF WriteManifest
<1>6. CASE ManifestWritten BY <1>6 DEF ManifestWritten
<1>7. CASE CheckEnds BY <1>7 DEF CheckEnds
<1>8. CASE Carry BY <1>8 DEF Carry
<1>9. ASSUME NEW d \in CacheDirs, ClearCache(d) PROVE RepairGoesOn'
  BY <1>9 DEF ClearCache
<1>10. ASSUME NEW d \in CacheDirs, ClearFails(d) PROVE RepairGoesOn'
  BY <1>10 DEF ClearFails
<1>11. ASSUME NEW d \in CacheDirs, Measure(d) PROVE RepairGoesOn'
  BY <1>11 DEF Measure
<1>12. QED
  BY <1>2, <1>3, <1>4, <1>5, <1>6, <1>7, <1>8, <1>9, <1>10, <1>11 DEF RepairNext

-----------------------------------------------------------------------------
\* Wherever a start is cut off or fails no key is lost, one that goes through
\* finds them all, and a checked workspace holds nothing of another machine: for
\* any set of keys and number of passphrases.
THEOREM StartSafe == KeysSpec /\ RepairSpec => []StartIsSafe
<1>1. KeysKept /\ [KeysNext]_keyVars => KeysKept'
  <2>1. CASE UNCHANGED keyVars
    BY <2>1 DEF keyVars, KeysKept, StartTypes, StepsInOrder, NothingOrphaned
  <2>2. QED BY <2>1, KeysGoOn
<1>2. RepairGoesOn /\ [RepairNext]_repairVars => RepairGoesOn'
  <2>1. CASE UNCHANGED repairVars
    BY <2>1 DEF repairVars, RepairGoesOn, RepairTypes, OwnFigures
  <2>2. QED BY <2>1, RepairStep
<1>3. KeysKept /\ RepairGoesOn => StartIsSafe
  BY DEF KeysKept, RepairGoesOn, RepairTypes, StartIsSafe, KeysSurvive, MovedIsRepaired
<1>4. QED
  BY <1>1, <1>2, <1>3, KeysStart, RepairStarts, PTL DEF KeysSpec, RepairSpec

-----------------------------------------------------------------------------
(***************************************************************************)
(* The settings files.                                                     *)
(***************************************************************************)
ConfigSpec == ConfigInit /\ [][ConfigNext]_configVars

\* The types the invariants rest on.
OnDisk == [file : Contents \cup {Absent, Torn}, tmp : Contents \cup {Absent, Torn}]

ConfigTypes ==
  /\ kind \in Kinds /\ mem \in Contents
  /\ disk \in OnDisk
  /\ fd \in [Writers -> {"none", "tmp", "file", "gone"}]
  /\ mixed \in SUBSET Writers /\ met \in SUBSET Writers /\ crossed \in SUBSET Writers
  /\ pc \in [Writers -> {"idle", "swap", "create", "fill", "rename", "saved", "done"}]
  /\ op \in [Writers -> {None} \cup [verb : {"add", "drop", "activate", "rename"}, item : Items]]
  /\ snap \in [Writers -> Contents]
  /\ holder \in Writers \cup {None}
  /\ stale \in BOOLEAN /\ detached \in BOOLEAN /\ spoilt \in BOOLEAN
  /\ detached => kind = "workspaces"
  /\ \A u \in Writers : pc[u] = "swap" => kind = "pipelines"

\* A save that nobody crossed has the temporary file to itself and renames what it
\* wrote; a part of a file is in place only by the work of others.
SaveAlone(u) ==
  /\ Saving = {u}
  /\ fd[u] = IF pc[u] = "fill" THEN "tmp" ELSE "none"
  /\ pc[u] = "rename" => disk.tmp = snap[u]

SavesApart ==
  /\ mixed \subseteq crossed /\ crossed \subseteq Saving
  /\ \A u \in Writers : pc[u] # "fill" => fd[u] = "none" /\ u \notin mixed
  /\ \A u \in Saving \ crossed : SaveAlone(u)
  /\ \A u \in Writers : fd[u] = "file" => spoilt
  /\ disk.file = Torn => spoilt
  /\ Locked => ~spoilt

\* A lock has one holder, and keeps calls from meeting.
OneHolder == Locked => (\A u \in Writers : u \in Busy <=> holder = u) /\ met = {}

\* A call that met no other is the only one; what it saves, and then what a start
\* would read, is the memory, or the environment with its own field.
Meant(u) ==
  /\ kind # "settings" =>
       /\ snap[u] = mem
       /\ pc[u] = "saved" /\ ~detached => Loaded = mem
       /\ kind = "pipelines" /\ pc[u] # "swap" => live = mem
  /\ kind = "settings" /\ ~stale =>
       IF pc[u] = "saved" THEN Loaded = SettingSet(live, op[u])
       ELSE Loaded = live /\ snap[u] = SettingSet(live, op[u])

CallsApart ==
  /\ met \subseteq Busy /\ crossed \subseteq met
  /\ \A u \in Busy \ met : Busy = {u} /\ Meant(u)

ConfigInv == ConfigTypes /\ SavesApart /\ OneHolder /\ CallsApart /\ SavedIsCurrent

\* The contents of a file are told from a part of a file and from no file.
LEMMA ContentsAre ==
  /\ Torn \notin Contents /\ Absent \notin Contents /\ Torn # Absent
  /\ Fresh \in Contents /\ Loaded \in Contents
<1>1. \A c \in Contents : DOMAIN c = {"set", "active"}
  BY DEF Contents
<1>2. DOMAIN Torn = {"is"} /\ DOMAIN Absent = {"is"} /\ Torn.is # Absent.is
  BY DEF Torn, Absent
<1>3. Fresh \in Contents
  BY FirstIsItem DEF Fresh, Contents
<1>4. QED BY <1>1, <1>2, <1>3 DEF Loaded

\* A command makes contents of contents; of the settings, one.
LEMMA AfterIsContents ==
  ASSUME kind \in Kinds, NEW c \in Contents, NEW o \in [verb : Verbs, item : Items]
  PROVE  After(c, o) \subseteq Contents /\ SettingSet(c, o) \in Contents
<1> USE FirstIsItem DEF Contents
<1>1. PipelineSet(c, o) \in Contents
  BY DEF PipelineSet
<1>2. SettingSet(c, o) \in Contents
  BY DEF SettingSet
<1>3. ConsentSet(c, o) \in Contents
  BY DEF ConsentSet
<1>4. EmbeddingSet(c, o.item) \in Contents
  BY DEF EmbeddingSet
<1>5. Deleted(c, o.item) \subseteq Contents
  BY DEF Deleted
<1>6. /\ Created(c, o.item) \in Contents /\ Activated(c, o.item) \in Contents
      /\ Renamed(c, o.item) \in Contents
  BY DEF Created, Activated, Renamed
<1>7. WorkspaceAfter(c, o) \subseteq Contents
  BY <1>5, <1>6 DEF WorkspaceAfter
<1>8. After(c, o) \subseteq Contents
  BY <1>1, <1>2, <1>3, <1>4, <1>7 DEF After
<1>9. QED BY <1>2, <1>8

LEMMA AfterSetting ==
  ASSUME kind = "settings", NEW c, NEW o
  PROVE  (CHOOSE d \in After(c, o) : TRUE) = SettingSet(c, o)
<1>1. After(c, o) = {SettingSet(c, o)}
  BY DEF After
<1>2. QED BY <1>1

\* The verbs of a command are among those of all stores.
LEMMA VerbsAre ==
  ASSUME NEW o \in [verb : Verbs, item : Items]
  PROVE  o \in [verb : {"add", "drop", "activate", "rename"}, item : Items]
  BY DEF Verbs

\* Nobody has the lock, and no file is half written, in the beginning.
LEMMA ConfigStarts == ConfigInit => ConfigInv
<1> SUFFICES ASSUME ConfigInit PROVE ConfigInv
  OBVIOUS
<1>1. ConfigTypes
  BY ContentsAre DEF ConfigInit, ConfigTypes, OnDisk
<1>2. Busy = {} /\ Saving = {} /\ met = {} /\ crossed = {} /\ mixed = {} /\ holder = None
  BY DEF ConfigInit, Busy, Saving
<1>3. SavesApart
  BY <1>2, ContentsAre DEF ConfigInit, SavesApart
<1>4. OneHolder /\ CallsApart
  BY <1>2, FirstIsItem DEF OneHolder, CallsApart
<1>5. SavedIsCurrent
  BY ContentsAre DEF ConfigInit, SavedIsCurrent, Loaded
<1>6. QED BY <1>1, <1>3, <1>4, <1>5 DEF ConfigInv

\* A call that begins meets those under way; without any it is alone.
LEMMA CommandBegins ==
  ASSUME ConfigInv, NEW u \in Writers, pc[u] = "idle", Meet(u),
         NEW p \in {"swap", "create", "saved"}, pc' = [pc EXCEPT ![u] = p]
  PROVE  /\ Busy' = Busy \cup {u} /\ u \notin Busy /\ u \notin met /\ u \notin Saving
         /\ Busy # {} => met' = Busy'
         /\ Busy = {} => met = {} /\ met' = {}
         /\ Saving' = Saving
<1> USE DEF ConfigInv, ConfigTypes
<1>1. Busy' = Busy \cup {u} /\ u \notin Busy
  BY DEF Busy
<1>2. Saving' = Saving /\ u \notin Saving
  BY DEF Saving
<1>3. met \subseteq Busy
  BY DEF CallsApart
<1>4. QED BY <1>1, <1>2, <1>3 DEF Meet

\* A command begins: the memory is changed, or the file loaded.
LEMMA BeginKeeps ==
  ASSUME ConfigInv, NEW u \in Writers, NEW o \in [verb : Verbs, item : Items],
         Change(u, o) \/ LoadAndChange(u, o) \/ Refuse(u, o)
  PROVE  ConfigInv'
<1> USE FirstIsItem, ContentsAre DEF ConfigInv, diskVars, Goto
<1>1. /\ kind' = kind /\ Locked' = Locked /\ disk' = disk /\ fd' = fd /\ mixed' = mixed
      /\ crossed' = crossed /\ spoilt' = spoilt /\ live' = live
      /\ detached' = detached /\ pc[u] = "idle"
  BY DEF Change, LoadAndChange, Refuse, Locked
<1>2. Loaded' = Loaded
  BY <1>1 DEF Loaded, Fresh
<1>3. ASSUME NEW p \in {"swap", "create", "saved", "done"}, pc' = [pc EXCEPT ![u] = p],
             \A v \in Writers \ {u} : snap'[v] = snap[v]
      PROVE  SavesApart'
  <2>1. Saving' = Saving /\ u \notin Saving
    BY <1>1, <1>3 DEF Saving, ConfigTypes
  <2>2. \A v \in Writers : pc'[v] # "fill" => fd'[v] = "none" /\ v \notin mixed'
    BY <1>1, <1>3 DEF SavesApart, ConfigTypes
  <2>3. \A v \in Saving \ crossed : SaveAlone(v)'
    BY <1>1, <1>3, <2>1 DEF SavesApart, SaveAlone, ConfigTypes, Saving
  <2>4. QED BY <1>1, <2>1, <2>2, <2>3 DEF SavesApart
<1>4. CASE Change(u, o)
  <2>1. PICK c \in Contents : mem' = c /\ snap' = [snap EXCEPT ![u] = c]
    BY <1>4, AfterIsContents DEF Change, ConfigTypes
  <2>2. PICK p \in {"swap", "create", "saved"} :
          /\ pc' = [pc EXCEPT ![u] = p]
          /\ kind = "pipelines" <=> p = "swap"
          /\ p = "saved" => detached
    BY <1>4 DEF Change
  <2>3. /\ holder' = IF Locked THEN u ELSE holder
        /\ Locked => holder = None
        /\ Meet(u) /\ stale' = stale /\ op' = [op EXCEPT ![u] = o] /\ kind # "settings"
    BY <1>4 DEF Change, Free
  <2>4. /\ Busy' = Busy \cup {u} /\ u \notin Busy /\ u \notin met
        /\ Busy # {} => met' = Busy'
        /\ Busy = {} => met = {} /\ met' = {}
    BY <1>1, <2>2, <2>3, CommandBegins
  <2>5. Busy \subseteq Writers
    BY DEF Busy
  <2>6. ConfigTypes'
    BY <1>1, <2>1, <2>2, <2>3, <2>4, <2>5, VerbsAre DEF ConfigTypes
  <2>7. SavesApart'
    BY <1>3, <2>1, <2>2 DEF ConfigTypes
  <2>8. Locked => Busy = {}
    BY <2>3, <2>5 DEF OneHolder
  <2>9. OneHolder'
    BY <1>1, <2>3, <2>4, <2>5, <2>8 DEF OneHolder
  <2>10. Meant(u)'
    BY <1>1, <2>1, <2>2, <2>3 DEF Meant, ConfigTypes
  <2>11. CallsApart'
    BY <1>1, <2>4, <2>10 DEF CallsApart
  <2>12. SavedIsCurrent'
    BY <2>4 DEF SavedIsCurrent
  <2>13. QED BY <2>6, <2>7, <2>9, <2>11, <2>12
<1>5. CASE LoadAndChange(u, o)
  <2>1. ~Locked /\ kind = "settings" /\ mem' = mem /\ Meet(u)
        /\ pc' = [pc EXCEPT ![u] = "create"] /\ op' = [op EXCEPT ![u] = o]
        /\ holder' \in {u, holder}
    BY <1>5 DEF LoadAndChange, Locked
  <2>2. PICK c \in {Loaded, Fresh} :
          /\ snap' = [snap EXCEPT ![u] = SettingSet(c, o)]
          /\ stale' = (stale \/ c # Loaded)
    BY <1>5, AfterSetting DEF LoadAndChange
  <2>3. SettingSet(c, o) \in Contents
    BY AfterIsContents DEF ConfigTypes
  <2>4. /\ Busy' = Busy \cup {u} /\ u \notin Busy /\ u \notin met
        /\ Busy # {} => met' = Busy'
        /\ Busy = {} => met = {} /\ met' = {}
    BY <1>1, <2>1, CommandBegins
  <2>5. Busy \subseteq Writers
    BY DEF Busy
  <2>6. ConfigTypes'
    BY <1>1, <2>1, <2>2, <2>3, <2>4, <2>5, VerbsAre DEF ConfigTypes
  <2>7. SavesApart'
    BY <1>3, <2>1, <2>2 DEF ConfigTypes
  <2>8. OneHolder'
    BY <1>1, <2>1 DEF OneHolder
  <2>9. Busy = {} => Meant(u)'
    <3>1. Busy = {} /\ ~stale' => Loaded = live
      BY <2>1, <2>2, FirstIsItem DEF SavedIsCurrent, ConfigTypes, OneHolder
    <3>2. QED BY <1>1, <1>2, <2>1, <2>2, <3>1 DEF Meant, ConfigTypes
  <2>10. CallsApart'
    BY <1>1, <2>4, <2>9 DEF CallsApart
  <2>11. SavedIsCurrent'
    BY <2>4 DEF SavedIsCurrent
  <2>12. QED BY <2>6, <2>7, <2>8, <2>10, <2>11
<1>6. CASE Refuse(u, o)
  <2>1. pc' = [pc EXCEPT ![u] = "done"] /\ UNCHANGED <<mem, snap, op, holder, met, stale>>
    BY <1>6 DEF Refuse
  <2>2. ConfigTypes'
    BY <1>1, <2>1 DEF ConfigTypes
  <2>3. SavesApart'
    BY <1>3, <2>1
  <2>4. Busy' = Busy /\ u \notin Busy
    BY <1>1, <2>1 DEF Busy, ConfigTypes
  <2>5. OneHolder'
    BY <1>1, <2>1, <2>4 DEF OneHolder
  <2>6. \A v \in Busy : Meant(v)' = Meant(v)
    BY <1>1, <1>2, <2>1, <2>4 DEF Meant, ConfigTypes, Busy
  <2>7. CallsApart'
    BY <1>1, <2>1, <2>4, <2>6 DEF CallsApart
  <2>8. SavedIsCurrent'
    BY <1>1, <1>2, <2>1, <2>4 DEF SavedIsCurrent
  <2>9. QED BY <2>2, <2>3, <2>5, <2>7, <2>8
<1>7. QED BY <1>4, <1>5, <1>6

\* A step of a save, seen from the calls: the memory and who is under way stay,
\* but for the one that returns.
LEMMA CommandGoesOn ==
  ASSUME ConfigInv, NEW u \in Busy, NEW p \in {"create", "fill", "rename", "saved"},
         pc' = [pc EXCEPT ![u] = p],
         UNCHANGED <<kind, mem, op, snap, holder, met, stale, detached>>,
         crossed' \subseteq met,
         u \notin met => Meant(u)'
  PROVE  OneHolder' /\ CallsApart' /\ SavedIsCurrent'
<1> USE DEF ConfigInv, ConfigTypes
<1>1. Busy' = Busy
  BY DEF Busy
<1>2. Locked' = Locked
  BY DEF Locked
<1>3. OneHolder'
  BY <1>1, <1>2 DEF OneHolder
<1>4. CallsApart'
  BY <1>1 DEF CallsApart
<1>5. SavedIsCurrent'
  BY <1>1 DEF SavedIsCurrent
<1>6. QED BY <1>3, <1>4, <1>5

\* A call that returns leaves the others apart.
LEMMA CommandReturns ==
  ASSUME ConfigInv, NEW u \in Busy, pc' = [pc EXCEPT ![u] = "done"], Release(u), Forget(u),
         UNCHANGED <<kind, mem, detached>>, crossed' = crossed \ {u},
         u \notin met => stale' \/ (Loaded' = IF kind = "settings" THEN live' ELSE mem)
                        \/ detached,
         u \notin met /\ kind = "pipelines" => stale' \/ live' = mem,
         u \in met => stale'
  PROVE  /\ OneHolder' /\ CallsApart' /\ SavedIsCurrent'
         /\ op' \in [Writers -> {None} \cup [verb : {"add", "drop", "activate", "rename"}, item : Items]]
         /\ snap' \in [Writers -> Contents] /\ holder' \in Writers \cup {None}
         /\ met' \in SUBSET Writers
<1> USE FirstIsItem DEF ConfigInv, ConfigTypes
<1>1. Busy' = Busy \ {u}
  BY DEF Busy
<1>2. Locked' = Locked /\ Busy \subseteq Writers
  BY DEF Locked, Busy
<1>3. OneHolder'
  BY <1>1, <1>2 DEF OneHolder, Release, Forget
<1>4. CASE u \in met
  <2>1. met' = met \ {u} /\ crossed' = crossed \ {u}
    BY DEF Forget
  <2>2. \A v \in Busy' \ met' : FALSE
    BY <1>1, <1>4, <2>1 DEF CallsApart
  <2>3. QED BY <1>1, <1>3, <1>4, <2>1, <2>2, ContentsAre DEF CallsApart, SavedIsCurrent, Forget, Release
<1>5. CASE u \notin met
  <2>1. Busy = {u}
    BY <1>5 DEF CallsApart
  <2>2. met = {} /\ crossed = {}
    BY <1>5, <2>1 DEF CallsApart
  <2>3. CallsApart'
    BY <1>1, <2>1, <2>2 DEF CallsApart, Forget
  <2>4. SavedIsCurrent'
    BY <1>5 DEF SavedIsCurrent
  <2>5. QED BY <1>3, <2>3, <2>4, ContentsAre DEF Forget, Release
<1>6. QED BY <1>4, <1>5

\* A save that is not crossed stays so, and sees its files as it left them.
LEMMA SaveKeeps ==
  ASSUME ConfigInv, NEW u \in Writers,
         Swap(u) \/ Create(u) \/ Fill(u) \/ Rename(u) \/ SaveFails(u) \/ Saved(u)
  PROVE  ConfigInv'
<1> USE FirstIsItem, ContentsAre DEF ConfigInv, diskVars, Goto
<1>1. /\ kind' = kind /\ Locked' = Locked /\ mem' = mem /\ detached' = detached
      /\ u \in Busy /\ Fresh' = Fresh
  BY DEF Swap, Create, Fill, Rename, SaveFails, Saved, Locked, Busy, Fresh
<1>2. Busy \subseteq Writers /\ Saving \subseteq Busy
  BY DEF Busy, Saving
<1>3. Locked => Busy = {u} /\ met = {} /\ crossed = {}
  BY <1>1, <1>2 DEF OneHolder, CallsApart
<1>4. u \notin met => Busy = {u} /\ crossed = {} /\ Meant(u)
  BY <1>1 DEF CallsApart
<1>5. CASE Swap(u)
  <2>1. /\ UNCHANGED <<kind, mem, disk, fd, mixed, crossed, spoilt, op, snap, holder, met, stale, detached>>
        /\ pc[u] = "swap" /\ pc' = [pc EXCEPT ![u] = "create"] /\ live' = snap[u]
    BY <1>5 DEF Swap
  <2>2. ConfigTypes'
    BY <2>1 DEF ConfigTypes
  <2>3. Saving' = Saving /\ u \notin Saving
    BY <2>1 DEF Saving, ConfigTypes
  <2>4. SavesApart'
    <3>1. \A v \in Saving \ crossed : SaveAlone(v)'
      BY <2>1, <2>3 DEF SavesApart, SaveAlone, ConfigTypes, Saving
    <3>2. \A v \in Writers : pc'[v] # "fill" => fd'[v] = "none" /\ v \notin mixed'
      BY <2>1 DEF SavesApart, ConfigTypes
    <3>3. QED BY <1>1, <2>1, <2>3, <3>1, <3>2 DEF SavesApart
  <2>5. u \notin met => Meant(u)'
    BY <1>4, <1>5, <2>1 DEF Meant, Swap, ConfigTypes
  <2>6. QED BY <1>1, <2>1, <2>2, <2>4, <2>5, CommandGoesOn DEF CallsApart
<1>6. CASE Create(u)
  <2>1. /\ disk' = [disk EXCEPT !.tmp = Torn] /\ fd' = [fd EXCEPT ![u] = "tmp"]
        /\ pc[u] = "create" /\ pc' = [pc EXCEPT ![u] = "fill"] /\ Cross(u)
        /\ UNCHANGED <<kind, mem, live, spoilt, op, snap, holder, met, stale, detached>>
    BY <1>6 DEF Create
  <2>2. Saving' = Saving \cup {u} /\ u \notin Saving
    BY <2>1 DEF Saving, ConfigTypes
  <2>3. OnTmp \subseteq Saving
    BY DEF OnTmp, SavesApart, Saving
  <2>4. ConfigTypes'
    <3>1. disk' \in OnDisk /\ OnTmp \subseteq Writers /\ Saving \subseteq Writers
      BY <2>1 DEF ConfigTypes, OnDisk, OnTmp, Saving
    <3>2. QED BY <2>1, <3>1 DEF ConfigTypes, Cross
  <2>5. disk'.file = disk.file
    BY <2>1 DEF ConfigTypes, OnDisk
  <2>6. SavesApart'
    <3>1. mixed' \subseteq crossed' /\ crossed' \subseteq Saving'
      BY <2>1, <2>2, <2>3 DEF SavesApart, Cross
    <3>2. \A v \in Writers : pc'[v] # "fill" => fd'[v] = "none" /\ v \notin mixed'
      BY <2>1 DEF SavesApart, ConfigTypes, Cross, OnTmp
    <3>3. ASSUME NEW v \in Saving' \ crossed' PROVE SaveAlone(v)'
      <4>1. Saving = {} /\ v = u
        BY <2>1, <2>2, <3>3 DEF SavesApart, Cross, SaveAlone
      <4>2. QED BY <2>1, <2>2, <4>1 DEF SaveAlone, ConfigTypes
    <3>4. \A v \in Writers : fd'[v] = "file" => fd[v] = "file"
      BY <2>1 DEF ConfigTypes
    <3>5. QED BY <1>1, <2>1, <2>5, <3>1, <3>2, <3>3, <3>4 DEF SavesApart
  <2>7. crossed' \subseteq met
    <3>1. Saving # {} => Saving \subseteq met /\ u \in met
      BY <1>1, <1>2, <2>2 DEF CallsApart
    <3>2. QED BY <2>1, <3>1 DEF Cross, CallsApart
  <2>8. u \notin met => Meant(u)'
    BY <1>1, <1>4, <2>1, <2>5 DEF Meant, ConfigTypes, Loaded
  <2>9. QED BY <1>1, <2>1, <2>4, <2>6, <2>7, <2>8, CommandGoesOn
<1>7. CASE Fill(u)
  <2>1. /\ disk' \in OnDisk
        /\ fd[u] # "file" => disk'.file = disk.file
        /\ fd[u] = "file" => disk'.tmp = disk.tmp
        /\ fd[u] = "tmp" /\ u \notin mixed => disk'.tmp = snap[u]
    <3>1. snap[u] \in Contents
      BY DEF ConfigTypes
    <3>2. CASE fd[u] = "tmp" BY <1>7, <3>1, <3>2 DEF Fill, ConfigTypes, OnDisk
    <3>3. CASE fd[u] = "file" BY <1>7, <3>1, <3>3 DEF Fill, ConfigTypes, OnDisk
    <3>4. CASE fd[u] \notin {"tmp", "file"} BY <1>7, <3>4 DEF Fill, ConfigTypes, OnDisk
    <3>5. QED BY <3>2, <3>3, <3>4
  <2>2. /\ pc[u] = "fill" /\ pc' = [pc EXCEPT ![u] = "rename"]
        /\ fd' = [fd EXCEPT ![u] = "none"] /\ mixed' = mixed \ {u}
        /\ UNCHANGED <<kind, mem, live, crossed, spoilt, op, snap, holder, met, stale, detached>>
    BY <1>7 DEF Fill
  <2>3. ConfigTypes'
    BY <2>1, <2>2 DEF ConfigTypes
  <2>4. Saving' = Saving /\ u \in Saving
    BY <2>2 DEF Saving, ConfigTypes
  <2>5. u \notin crossed => Saving = {u} /\ disk'.file = disk.file /\ disk'.tmp = snap[u]
    BY <2>1, <2>2, <2>4 DEF SavesApart, SaveAlone
  <2>6. SavesApart'
    <3>1. \A v \in Writers : pc'[v] # "fill" => fd'[v] = "none" /\ v \notin mixed'
      BY <2>2 DEF SavesApart, ConfigTypes
    <3>2. ASSUME NEW v \in Saving \ crossed PROVE SaveAlone(v)'
      <4>1. v = u
        BY <2>4, <3>2 DEF SavesApart, SaveAlone
      <4>2. QED BY <2>2, <2>4, <2>5, <3>2, <4>1 DEF SaveAlone, ConfigTypes
    <3>3. \A v \in Writers : fd'[v] = "file" => fd[v] = "file"
      BY <2>2 DEF ConfigTypes
    <3>4. disk'.file = Torn => spoilt
      BY <2>1 DEF SavesApart
    <3>5. QED BY <1>1, <2>2, <2>4, <3>1, <3>2, <3>3, <3>4 DEF SavesApart
  <2>7. u \notin met => Meant(u)'
    BY <1>1, <1>4, <2>2, <2>5 DEF Meant, ConfigTypes, Loaded
  <2>8. QED BY <1>1, <2>2, <2>3, <2>6, <2>7, CommandGoesOn DEF CallsApart
<1>8. CASE Rename(u)
  <2>1. /\ disk' = [file |-> disk.tmp, tmp |-> Absent]
        /\ pc[u] = "rename" /\ pc' = [pc EXCEPT ![u] = "saved"]
        /\ fd' = [v \in Writers |-> CASE fd[v] = "tmp" -> "file"
                                       [] fd[v] = "file" -> "gone"
                                       [] OTHER -> fd[v]]
        /\ spoilt' = (u \in crossed) /\ crossed' = crossed \ {u}
        /\ UNCHANGED <<kind, mem, live, mixed, op, snap, holder, met, stale, detached>>
    BY <1>8 DEF Rename
  <2>2. \A v \in Writers : /\ fd'[v] \in {"none", "tmp", "file", "gone"}
                           /\ fd[v] = "none" <=> fd'[v] = "none"
                           /\ fd'[v] = "file" <=> fd[v] = "tmp"
    BY <2>1 DEF ConfigTypes
  <2>3. ConfigTypes'
    BY <2>1, <2>2 DEF ConfigTypes, OnDisk
  <2>4. Saving' = Saving \ {u} /\ u \in Saving
    BY <2>1 DEF Saving, ConfigTypes
  <2>5. u \notin crossed => Saving = {u} /\ crossed = {} /\ disk.tmp = snap[u]
    BY <2>1, <2>4 DEF SavesApart, SaveAlone
  <2>6. SavesApart'
    <3>1. \A v \in Writers : pc'[v] # "fill" => fd'[v] = "none" /\ v \notin mixed'
      BY <2>1, <2>2 DEF SavesApart, ConfigTypes
    <3>2. Saving' \ crossed' = {}
      <4>1. ASSUME NEW v \in Saving, v # u PROVE v \in crossed
        BY <2>4, <4>1 DEF SavesApart, SaveAlone
      <4>2. QED BY <2>1, <2>4, <4>1
    <3>3. \A v \in Writers : fd'[v] = "file" => spoilt'
      <4>1. ASSUME NEW v \in Writers, fd[v] = "tmp" PROVE v \in Saving /\ v # u
        BY <2>1, <4>1 DEF SavesApart, Saving
      <4>2. QED BY <2>1, <2>2, <2>5, <4>1
    <3>4. disk'.file = Torn => spoilt'
      <4>1. snap[u] \in Contents
        BY DEF ConfigTypes
      <4>2. QED BY <2>1, <2>5, <4>1
    <3>5. mixed' \subseteq crossed'
      <4>1. u \notin mixed
        BY <2>1 DEF SavesApart
      <4>2. QED BY <2>1, <4>1 DEF SavesApart
    <3>6. QED BY <1>1, <1>3, <2>1, <2>4, <3>1, <3>2, <3>3, <3>4, <3>5 DEF SavesApart
  <2>7. u \notin met => Loaded' = snap[u]
    BY <1>1, <1>4, <2>1, <2>5 DEF Loaded, ConfigTypes
  <2>8. u \notin met => Meant(u)'
    BY <1>1, <1>4, <2>1, <2>7 DEF Meant, ConfigTypes
  <2>9. QED BY <1>1, <2>1, <2>3, <2>6, <2>8, CommandGoesOn DEF CallsApart
<1>9. CASE SaveFails(u)
  <2>1. /\ disk' \in OnDisk /\ disk'.file = disk.file
        /\ pc[u] # "rename" => disk' = disk
        /\ fd' = [fd EXCEPT ![u] = "none"] /\ mixed' = mixed \ {u}
        /\ crossed' = crossed \ {u} /\ pc' = [pc EXCEPT ![u] = "done"]
        /\ stale' = (stale \/ kind # "settings" \/ u \in met)
        /\ Release(u) /\ Forget(u) /\ UNCHANGED <<kind, mem, live, spoilt, detached>>
    BY <1>9 DEF SaveFails, ConfigTypes, OnDisk
  <2>2. Loaded' = Loaded
    BY <1>1, <2>1 DEF Loaded
  <2>3. u \notin met /\ kind = "settings" => stale \/ Loaded = live
    BY <1>4, <1>9 DEF Meant, SaveFails
  <2>4. /\ OneHolder' /\ CallsApart' /\ SavedIsCurrent'
        /\ op' \in [Writers -> {None} \cup [verb : {"add", "drop", "activate", "rename"}, item : Items]]
        /\ snap' \in [Writers -> Contents] /\ holder' \in Writers \cup {None}
        /\ met' \in SUBSET Writers
    BY <1>1, <2>1, <2>2, <2>3, CommandReturns DEF ConfigTypes
  <2>5. ConfigTypes'
    BY <2>1, <2>4 DEF ConfigTypes
  <2>6. Saving' = Saving \ {u}
    BY <2>1 DEF Saving, ConfigTypes
  <2>7. SavesApart'
    <3>1. \A v \in Writers : pc'[v] # "fill" => fd'[v] = "none" /\ v \notin mixed'
      BY <2>1 DEF SavesApart, ConfigTypes
    <3>2. ASSUME NEW v \in Saving' \ crossed' PROVE SaveAlone(v)'
      <4>1. v \in Saving \ crossed /\ v # u
        BY <2>1, <2>6, <3>2
      <4>2. Saving = {v} /\ fd[v] = IF pc[v] = "fill" THEN "tmp" ELSE "none"
        BY <4>1 DEF SavesApart, SaveAlone
      <4>3. pc[u] = "create"
        BY <1>9, <4>1, <4>2 DEF SaveFails, Saving
      <4>4. disk' = disk /\ Saving' = {v} /\ snap'[v] = snap[v] /\ v \in Writers
        BY <2>1, <2>6, <4>1, <4>2, <4>3 DEF Forget, ConfigTypes, Saving
      <4>5. QED BY <2>1, <4>1, <4>2, <4>4 DEF SaveAlone, SavesApart, ConfigTypes
    <3>3. \A v \in Writers : fd'[v] = "file" => fd[v] = "file"
      BY <2>1 DEF ConfigTypes
    <3>4. QED BY <1>1, <2>1, <2>6, <3>1, <3>2, <3>3 DEF SavesApart
  <2>8. QED BY <2>4, <2>5, <2>7
<1>10. CASE Saved(u)
  <2>1. /\ disk' = disk /\ fd' = fd /\ mixed' = mixed /\ crossed' = crossed /\ spoilt' = spoilt
        /\ pc[u] = "saved" /\ pc' = [pc EXCEPT ![u] = "done"]
        /\ stale' = (u \in met \/ (stale /\ kind = "settings"))
        /\ live' = IF kind = "settings" THEN SettingSet(live, op[u]) ELSE live
        /\ Release(u) /\ Forget(u) /\ UNCHANGED <<kind, mem, detached>>
    <3>1. kind = "settings" => (CHOOSE c \in After(live, op[u]) : TRUE) = SettingSet(live, op[u])
      BY AfterSetting
    <3>2. QED BY <1>10, <3>1 DEF Saved
  <2>2. Loaded' = Loaded
    BY <1>1, <2>1 DEF Loaded
  <2>3. u \notin Saving /\ Saving' = Saving
    BY <2>1 DEF Saving, ConfigTypes
  <2>4. u \notin crossed
    BY <2>3 DEF SavesApart
  <2>5. /\ OneHolder' /\ CallsApart' /\ SavedIsCurrent'
        /\ op' \in [Writers -> {None} \cup [verb : {"add", "drop", "activate", "rename"}, item : Items]]
        /\ snap' \in [Writers -> Contents] /\ holder' \in Writers \cup {None}
        /\ met' \in SUBSET Writers
    <3>1. u \notin met => /\ kind = "settings" => stale' \/ Loaded = live'
                          /\ kind # "settings" => Loaded = mem \/ detached
                          /\ kind = "pipelines" => live' = mem
      BY <1>4, <2>1 DEF Meant
    <3>2. crossed' = crossed \ {u}
      BY <2>1, <2>4
    <3>3. QED BY <1>1, <2>1, <2>2, <3>1, <3>2, CommandReturns
  <2>6. ConfigTypes'
    BY <2>1, <2>5 DEF ConfigTypes
  <2>7. SavesApart'
    <3>1. \A v \in Writers : pc'[v] # "fill" => fd'[v] = "none" /\ v \notin mixed'
      BY <2>1 DEF SavesApart, ConfigTypes
    <3>2. ASSUME NEW v \in Saving \ crossed PROVE SaveAlone(v)'
      <4>1. v # u /\ v \in Writers
        BY <2>3, <3>2 DEF Saving
      <4>2. snap'[v] = snap[v] /\ pc'[v] = pc[v]
        BY <2>1, <4>1 DEF Forget, ConfigTypes
      <4>3. QED BY <2>1, <2>3, <3>2, <4>2 DEF SaveAlone, SavesApart
    <3>3. QED BY <1>1, <2>1, <2>3, <3>1, <3>2 DEF SavesApart
  <2>8. QED BY <2>5, <2>6, <2>7
<1>11. QED BY <1>5, <1>6, <1>7, <1>8, <1>9, <1>10

\* A start finds no call under way, and reads or seeds what is then meant.
LEMMA RestartKeeps ==
  ASSUME ConfigInv, Restart
  PROVE  ConfigInv'
<1> USE FirstIsItem, ContentsAre DEF ConfigInv
<1>1. /\ kind' = kind /\ Locked' = Locked /\ Fresh' = Fresh
      /\ pc' = [v \in Writers |-> IF pc[v] = "idle" THEN "idle" ELSE "done"]
      /\ fd' = [v \in Writers |-> "none"] /\ mixed' = {} /\ holder' = None
      /\ met' = {} /\ crossed' = {}
      /\ op' = [v \in Writers |-> None] /\ snap' = [v \in Writers |-> Fresh]
  BY DEF Restart, Locked, Fresh
<1>2. Busy' = {} /\ Saving' = {}
  BY <1>1 DEF Busy, Saving
<1>3. /\ disk' \in OnDisk /\ mem' \in Contents /\ live' = mem'
      /\ stale' \in BOOLEAN /\ detached' \in BOOLEAN /\ spoilt' \in BOOLEAN
      /\ detached' => kind = "workspaces"
      /\ ~stale' /\ ~detached' => Loaded' = mem'
      /\ spoilt => spoilt' \/ disk'.file # Torn
      /\ spoilt' => spoilt
      /\ disk'.file = Torn => disk.file = Torn
  <2>1. CASE StartReads
    <3>1. PICK readable \in BOOLEAN :
            /\ mem' = IF readable THEN Loaded ELSE Fresh
            /\ stale' = (mem' # Loaded)
            /\ detached' = (kind = "workspaces" /\ (~readable \/ disk.file = Torn))
      BY <2>1 DEF StartReads
    <3>2. disk' = disk /\ spoilt' = spoilt /\ live' = mem'
      BY <2>1 DEF StartReads
    <3>3. Loaded' = Loaded
      BY <1>1, <3>2 DEF Loaded
    <3>4. QED BY <3>1, <3>2, <3>3 DEF ConfigTypes
  <2>2. CASE StartSeeds /\ kind = "workspaces" /\ disk.file = Absent
    <3>1. mem' = Fresh /\ live' = Fresh /\ stale' = FALSE
      BY <2>2 DEF StartSeeds
    <3>2. CASE disk' = [file |-> Fresh, tmp |-> Absent] /\ detached' = FALSE /\ spoilt' = FALSE
      <4>1. Loaded' = Fresh
        BY <1>1, <3>2 DEF Loaded
      <4>2. QED BY <2>2, <3>1, <3>2, <4>1 DEF OnDisk
    <3>3. CASE /\ \E left \in {disk.tmp, Torn, Fresh, Absent} : disk' = [disk EXCEPT !.tmp = left]
               /\ detached' = TRUE /\ UNCHANGED spoilt
      <4>1. disk' \in OnDisk /\ disk'.file = disk.file
        BY <3>3 DEF ConfigTypes, OnDisk
      <4>2. QED BY <2>2, <3>1, <3>3, <4>1 DEF ConfigTypes
    <3>4. QED BY <2>2, <3>2, <3>3 DEF StartSeeds
  <2>3. QED BY <2>1, <2>2 DEF Restart
<1>4. ConfigTypes'
  BY <1>1, <1>3 DEF ConfigTypes
<1>5. SavesApart'
  BY <1>1, <1>2, <1>3 DEF SavesApart
<1>6. OneHolder' /\ CallsApart' /\ SavedIsCurrent'
  BY <1>1, <1>2, <1>3 DEF OneHolder, CallsApart, SavedIsCurrent
<1>7. QED BY <1>4, <1>5, <1>6

\* A start finds a whole file unless overlapping saves of a store without a lock put it
\* in place, and what was saved without an error is there, unless calls of such a
\* store overlapped: for any number of calls and whatever the store keeps.
THEOREM StoresAgree == ConfigSpec => []FilesAgree
<1>1. ConfigInv /\ [ConfigNext]_configVars => ConfigInv'
  <2> SUFFICES ASSUME ConfigInv, [ConfigNext]_configVars PROVE ConfigInv'
    OBVIOUS
  <2>1. ASSUME NEW u \in Writers, NEW v \in Verbs, NEW i \in Items,
               LET o == [verb |-> v, item |-> i]
               IN Change(u, o) \/ LoadAndChange(u, o) \/ Refuse(u, o)
        PROVE  ConfigInv'
    <3>1. [verb |-> v, item |-> i] \in [verb : Verbs, item : Items]
      OBVIOUS
    <3>2. QED BY <2>1, <3>1, BeginKeeps
  <2>2. CASE UNCHANGED configVars
    BY <2>2
    DEF configVars, diskVars, ConfigInv, ConfigTypes, SavesApart, SaveAlone, OneHolder,
        CallsApart, Meant, SavedIsCurrent, Busy, Saving, Locked, Loaded, Fresh
  <2>3. QED BY <2>1, <2>2, SaveKeeps, RestartKeeps DEF ConfigNext
<1>2. ConfigInv => FilesAgree
  BY DEF ConfigInv, SavesApart, FilesAgree, FileIsWhole
<1>3. QED
  BY <1>1, <1>2, ConfigStarts, PTL DEF ConfigSpec

-----------------------------------------------------------------------------
(***************************************************************************)
(* The caches of the desktop: summaries of the trends, figures of the hub. *)
(***************************************************************************)
SummariesSpec == SummariesInit /\ [][SummariesNext]_summaryVars
MetaSpec == MetaInit /\ [][MetaNext]_metaVars

\* What a row is, and what a call knows at each step.
SummaryRow == [by : Asks \cup {"before"}, old : BOOLEAN, readable : BOOLEAN]
AskStates ==
  [at : {"none"}] \cup [at : {"look", "summarize", "put", "error"}, q : Questions]
  \cup [at : {"ok"}, q : Questions, by : Asks \cup {"before"}, old : {FALSE}]

SummaryTypes ==
  /\ rows \in [Bundles \X Summarizers -> {NoRow} \cup SummaryRow]
  /\ asks \in [Asks -> AskStates]

\* A row is of the call that made it, which has returned, and of some items.
RowsAreReturned ==
  \A k \in Bundles \X Summarizers :
    rows[k] # NoRow =>
      /\ k[1] = "some"
      /\ rows[k].by \in Asks =>
           asks[rows[k].by].at = "ok" /\ TrendKey(asks[rows[k].by].q) = k

\* What a call was given is of a call that has returned as well.
AnswerFits(c) ==
  LET a == asks[c] IN
    /\ a.q.items = "some"
    /\ a.q.force => a.by = c
    /\ a.by \in Asks => asks[a.by].at = "ok" /\ TrendKey(asks[a.by].q) = TrendKey(a.q)
    /\ a.by = c => rows[TrendKey(a.q)] # NoRow /\ rows[TrendKey(a.q)].by \in Asks

AsksGoOn ==
  \A c \in Asks : /\ asks[c].at = "look" => ~asks[c].q.force
                  /\ asks[c].at = "put" => asks[c].q.items = "some"
                  /\ asks[c].at = "ok" => AnswerFits(c)

SummariesInv == SummaryTypes /\ RowsAreReturned /\ AsksGoOn

\* The types of the figures.
Figures == [repo : Repos, n : Nat]
MetaTypes ==
  /\ catalog \in Catalogs /\ meta \in [Entries -> {NoMeta} \cup Figures] /\ hub \in Nat
  /\ cron \in [at : {"sleep", "fetch"}, todo : SUBSET (Entries \X Repos),
               got : SUBSET (Entries \X Figures), met : BOOLEAN, since : Nat]
  /\ settled \in [Entries -> Nat]

\* A round that no new catalogue met asks for the repositories of the catalogue,
\* and gets figures as new as the round.
RoundIsCurrent ==
  cron.at = "fetch" =>
    /\ cron.since <= hub
    /\ ~cron.met =>
         /\ \A p \in cron.todo : catalog[p[1]] = p[2]
         /\ \A g \in cron.got : g[2].repo = catalog[g[1]] /\ g[2].n >= cron.since

MetaInv == MetaTypes /\ RoundIsCurrent /\ FiguresFit

\* A row is told from no row, and a question has its key.
LEMMA RowsAre ==
  /\ NoRow \notin SummaryRow
  /\ \A q \in Questions : TrendKey(q) \in Bundles \X Summarizers /\ TrendKey(q)[1] = q.items
<1>1. NoRow \notin SummaryRow
  BY AsksAreCalls DEF NoRow, SummaryRow
<1>2. ASSUME NEW q \in Questions
      PROVE  TrendKey(q) \in Bundles \X Summarizers /\ TrendKey(q)[1] = q.items
  BY DEF Questions, TrendKey, Summarizer, Summarizers, Bundles
<1>3. QED BY <1>1, <1>2

\* At first no call was made, and what is kept is of an earlier run.
LEMMA SummariesStart == SummariesInit => SummariesInv
<1> SUFFICES ASSUME SummariesInit PROVE SummariesInv
  OBVIOUS
<1>1. \A k \in Bundles \X Summarizers : rows[k] # NoRow => k = <<"some", "ollama">>
  BY DEF SummariesInit
<1>2. \A k \in Bundles \X Summarizers : rows[k] # NoRow => rows[k].by = "before"
  BY DEF SummariesInit
<1>3. SummaryTypes
  BY DEF SummariesInit, SummaryTypes, SummaryRow, AskStates
<1>4. RowsAreReturned
  BY <1>1, <1>2, AsksAreCalls DEF RowsAreReturned
<1>5. AsksGoOn
  BY DEF SummariesInit, AsksGoOn
<1>6. QED BY <1>3, <1>4, <1>5 DEF SummariesInv

\* A call that has not returned is the maker of no row, so that whatever becomes of
\* it the rows and the other calls are as they were.
LEMMA AskKeeps ==
  ASSUME SummariesInv, NEW c \in Asks, asks[c].at # "ok", rows' = rows,
         NEW s \in AskStates, asks' = [asks EXCEPT ![c] = s],
         s.at = "look" => ~s.q.force,
         s.at = "put" => s.q.items = "some",
         s.at = "ok" => AnswerFits(c)'
  PROVE  SummariesInv'
<1> USE DEF SummariesInv
<1>1. asks'[c] = s /\ \A d \in Asks \ {c} : asks'[d] = asks[d]
  BY DEF SummaryTypes
<1>2. SummaryTypes'
  BY DEF SummaryTypes
<1>3. RowsAreReturned'
  BY <1>1 DEF RowsAreReturned
<1>4. \A d \in Asks \ {c} : asks[d].at = "ok" => AnswerFits(d)'
  BY <1>1 DEF AnswerFits, AsksGoOn
<1>5. AsksGoOn'
  BY <1>1, <1>4 DEF AsksGoOn
<1>6. QED BY <1>2, <1>3, <1>5

\* Every step keeps the rows and the calls in line.
LEMMA SummariesStep == SummariesInv /\ [SummariesNext]_summaryVars => SummariesInv'
<1> SUFFICES ASSUME SummariesInv, [SummariesNext]_summaryVars PROVE SummariesInv'
  OBVIOUS
<1> USE DEF SummariesInv
<1>1. ASSUME NEW c \in Asks, asks[c].at \in {"look", "summarize", "put"}, rows' = rows,
             NEW next \in {"summarize", "put", "error"}, AskGoes(c, next),
             next = "put" => asks[c].q.items = "some"
      PROVE  SummariesInv'
  <2> DEFINE s == [at |-> next, q |-> asks[c].q]
  <2>1. asks[c] \in [at : {"look", "summarize", "put", "error"}, q : Questions]
    BY <1>1 DEF SummaryTypes, AskStates
  <2>2. [asks[c] EXCEPT !.at = next] = s
    BY <2>1
  <2>3. asks' = [asks EXCEPT ![c] = s]
    BY <1>1, <2>2 DEF AskGoes
  <2>4. s \in AskStates
    BY <1>1, <2>1 DEF AskStates
  <2>5. /\ s.at = "look" => ~s.q.force
        /\ s.at = "put" => s.q.items = "some"
        /\ s.at # "ok"
    BY <1>1
  <2> HIDE DEF s
  <2>6. QED BY <1>1, <2>3, <2>4, <2>5, AskKeeps
<1>2. ASSUME NEW c \in Asks, NEW q \in Questions, Ask(c, q) PROVE SummariesInv'
  <2> DEFINE s == [at |-> IF q.force THEN "summarize" ELSE "look", q |-> q]
  <2>1. asks[c].at = "none" /\ rows' = rows /\ asks' = [asks EXCEPT ![c] = s]
    BY <1>2 DEF Ask
  <2>2. s \in AskStates /\ s.at \notin {"put", "ok"} /\ (s.at = "look" => ~s.q.force)
    BY DEF AskStates, Questions
  <2> HIDE DEF s
  <2>3. QED BY <2>1, <2>2, AskKeeps
<1>3. ASSUME NEW c \in Asks, Look(c) PROVE SummariesInv'
  <2> DEFINE k == TrendKey(asks[c].q)
  <2>1. asks[c].at = "look" /\ rows' = rows
    BY <1>3 DEF Look
  <2>2. asks[c].q \in Questions /\ ~asks[c].q.force
    BY <2>1 DEF SummaryTypes, AskStates, AsksGoOn
  <2>3. k \in Bundles \X Summarizers /\ k[1] = asks[c].q.items
    BY <2>2, RowsAre
  <2>4. ASSUME rows[k] # NoRow, ~rows[k].old, Answer(c, rows[k].by, rows[k].old)
        PROVE  SummariesInv'
    <3> DEFINE s == [at |-> "ok", q |-> asks[c].q, by |-> rows[k].by, old |-> rows[k].old]
    <3>1. rows[k] \in SummaryRow
      BY <2>3, <2>4 DEF SummaryTypes
    <3>2. s \in AskStates
      BY <2>2, <2>4, <3>1 DEF AskStates, SummaryRow
    <3>3. asks' = [asks EXCEPT ![c] = s]
      BY <2>4 DEF Answer
    <3>4. asks'[c] = s /\ \A d \in Asks \ {c} : asks'[d] = asks[d]
      BY <3>3 DEF SummaryTypes
    <3>5. k[1] = "some" /\ (rows[k].by \in Asks =>
            asks[rows[k].by].at = "ok" /\ TrendKey(asks[rows[k].by].q) = k)
      BY <2>3, <2>4 DEF RowsAreReturned
    <3>6. AnswerFits(c)'
      <4>1. s.q = asks[c].q /\ s.by = rows[k].by
        OBVIOUS
      <4>2. rows[k].by # c
        BY <2>1, <3>5
      <4> HIDE DEF s
      <4>3. QED BY <2>1, <2>2, <2>3, <3>4, <3>5, <4>1, <4>2 DEF AnswerFits
    <3>7. s.at = "ok"
      OBVIOUS
    <3> HIDE DEF s
    <3>8. QED BY <2>1, <3>2, <3>3, <3>6, <3>7, AskKeeps
  <2>5. CASE AskGoes(c, "summarize") \/ AskGoes(c, "error")
    BY <1>1, <2>1, <2>5
  <2>6. QED BY <1>3, <2>4, <2>5 DEF Look
<1>4. ASSUME NEW c \in Asks, NEW by \in Summarizers, Summarize(c, by) PROVE SummariesInv'
  BY <1>1, <1>4 DEF Summarize
<1>5. ASSUME NEW c \in Asks, Put(c) PROVE SummariesInv'
  <2> DEFINE k == TrendKey(asks[c].q)
             row == [by |-> c, old |-> FALSE, readable |-> TRUE]
             s == [at |-> "ok", q |-> asks[c].q, by |-> c, old |-> FALSE]
  <2>1. asks[c].at = "put"
    BY <1>5 DEF Put
  <2>2. asks[c].q \in Questions /\ asks[c].q.items = "some"
    BY <2>1 DEF SummaryTypes, AskStates, AsksGoOn
  <2>3. k \in Bundles \X Summarizers /\ k[1] = "some"
    BY <2>2, RowsAre
  <2>4. ASSUME rows' = [rows EXCEPT ![k] = row], Answer(c, c, FALSE) PROVE SummariesInv'
    <3>1. row \in SummaryRow /\ row.by = c /\ row # NoRow
      <4>1. row.by = c
        OBVIOUS
      <4>2. row \in SummaryRow
        BY DEF SummaryRow
      <4>3. QED BY <4>1, <4>2, RowsAre, Zenon
    <3>2. s \in AskStates /\ s.at = "ok" /\ s.q = asks[c].q /\ s.by = c
      BY <2>2 DEF AskStates
    <3>3. asks' = [asks EXCEPT ![c] = s]
      BY <2>4 DEF Answer
    <3>4. asks'[c] = s /\ \A d \in Asks \ {c} : asks'[d] = asks[d]
      BY <3>3 DEF SummaryTypes
    <3> HIDE DEF row, s
    <3>5. rows'[k] = row /\ \A l \in (Bundles \X Summarizers) \ {k} : rows'[l] = rows[l]
      BY <2>3, <2>4 DEF SummaryTypes
    <3>6. SummaryTypes'
      BY <2>3, <2>4, <3>1, <3>2, <3>3 DEF SummaryTypes
    <3>7. RowsAreReturned'
      BY <2>1, <2>3, <3>1, <3>2, <3>4, <3>5 DEF RowsAreReturned
    <3>8. AnswerFits(c)'
      BY <2>2, <3>1, <3>2, <3>4, <3>5 DEF AnswerFits
    <3>9. \A d \in Asks \ {c} : asks[d].at = "ok" => AnswerFits(d)'
      <4> SUFFICES ASSUME NEW d \in Asks \ {c}, asks[d].at = "ok" PROVE AnswerFits(d)'
        OBVIOUS
      <4>1. AnswerFits(d)
        BY DEF AsksGoOn
      <4>2. asks[d].q \in Questions
        BY DEF SummaryTypes, AskStates
      <4>3. TrendKey(asks[d].q) \in Bundles \X Summarizers
        BY <4>2, RowsAre
      <4>4. rows'[TrendKey(asks[d].q)] \in {row, rows[TrendKey(asks[d].q)]}
        BY <3>5, <4>3
      <4>5. QED BY <2>1, <3>1, <3>4, <4>1, <4>4 DEF AnswerFits
    <3>10. AsksGoOn'
      BY <3>2, <3>4, <3>8, <3>9 DEF AsksGoOn
    <3>11. QED BY <3>6, <3>7, <3>10
  <2>5. CASE AskGoes(c, "error") /\ UNCHANGED rows
    BY <1>1, <2>1, <2>5
  <2>6. QED BY <1>5, <2>4, <2>5 DEF Put
<1>6. ASSUME NEW k \in Bundles \X Summarizers, GrowStale(k) PROVE SummariesInv'
  <2>1. rows[k] \in SummaryRow
    BY <1>6 DEF GrowStale, SummaryTypes
  <2>2. PICK row \in SummaryRow : row.by = rows[k].by /\ rows' = [rows EXCEPT ![k] = row]
    <3>1. [rows[k] EXCEPT !.old = TRUE] \in SummaryRow /\ [rows[k] EXCEPT !.old = TRUE].by = rows[k].by
      BY <2>1 DEF SummaryRow
    <3>2. QED BY <1>6, <3>1 DEF GrowStale
  <2>3. row # NoRow /\ asks' = asks /\ rows[k] # NoRow
    BY <1>6, RowsAre DEF GrowStale
  <2>4. rows'[k] = row /\ \A l \in (Bundles \X Summarizers) \ {k} : rows'[l] = rows[l]
    BY <2>2 DEF SummaryTypes
  <2>5. \A l \in Bundles \X Summarizers :
          (rows'[l] # NoRow) = (rows[l] # NoRow) /\ (rows[l] # NoRow => rows'[l].by = rows[l].by)
    BY <2>2, <2>3, <2>4
  <2>6. SummaryTypes'
    BY <2>2, <2>3 DEF SummaryTypes
  <2>7. RowsAreReturned'
    BY <2>3, <2>5 DEF RowsAreReturned
  <2>8. ASSUME NEW d \in Asks, asks[d].at = "ok" PROVE AnswerFits(d)'
    <3>1. AnswerFits(d) /\ asks[d].q \in Questions
      BY <2>8 DEF AsksGoOn, SummaryTypes, AskStates
    <3>2. TrendKey(asks[d].q) \in Bundles \X Summarizers
      BY <3>1, RowsAre
    <3>3. QED BY <2>3, <2>5, <3>1, <3>2 DEF AnswerFits
  <2>9. AsksGoOn'
    BY <2>3, <2>8 DEF AsksGoOn
  <2>10. QED BY <2>6, <2>7, <2>9
<1>7. CASE UNCHANGED summaryVars
  BY <1>7 DEF summaryVars, SummaryTypes, RowsAreReturned, AsksGoOn, AnswerFits
<1>8. {"ollama", "lm-studio", "mock"} = Summarizers
  BY DEF Summarizers
<1>9. QED
  BY <1>2, <1>3, <1>4, <1>5, <1>6, <1>7, <1>8
  DEF SummariesNext, ByOllama, ByLmStudio, ByMock

\* At first no figures are kept and no round is under way.
LEMMA MetaStart == MetaInit => MetaInv
BY DEF MetaInit, MetaInv, MetaTypes, RoundIsCurrent, FiguresFit, NoMeta, Catalogs, Figures

\* Every step keeps a round and what it fetched in line with the catalogue.
LEMMA MetaStep == MetaInv /\ [MetaNext]_metaVars => MetaInv'
<1> SUFFICES ASSUME MetaInv, [MetaNext]_metaVars PROVE MetaInv'
  OBVIOUS
<1> USE DEF MetaInv
<1>0. /\ hub \in Nat /\ cron.since \in Nat /\ cron.met \in BOOLEAN
      /\ cron.todo \subseteq Entries \X Repos /\ cron.got \subseteq Entries \X Figures
  BY DEF MetaTypes
<1>1. CASE HubChanges
  <2>1. hub' = hub + 1 /\ UNCHANGED <<catalog, meta, cron, settled>>
    BY <1>1 DEF HubChanges
  <2>2. QED BY <1>0, <2>1 DEF MetaTypes, RoundIsCurrent, FiguresFit, Shown
<1>2. CASE SwapCatalog
  <2>1. /\ catalog' \in Catalogs /\ cron' = [cron EXCEPT !.met = cron.at # "sleep"]
        /\ settled' = [m \in Entries |-> 0] /\ UNCHANGED <<meta, hub>>
    BY <1>2 DEF SwapCatalog
  <2>2. MetaTypes'
    BY <2>1 DEF MetaTypes
  <2>3. RoundIsCurrent'
    BY <2>1 DEF MetaTypes, RoundIsCurrent
  <2>4. FiguresFit'
    BY <2>1 DEF FiguresFit
  <2>5. QED BY <2>2, <2>3, <2>4
<1>3. CASE BeginRefresh
  <2>1. cron' = [at |-> "fetch",
                 todo |-> {<<m, catalog[m]>> : m \in {n \in Entries : catalog[n] \in Repos}},
                 got |-> {}, met |-> FALSE, since |-> hub]
    BY <1>3 DEF BeginRefresh
  <2>2. UNCHANGED <<catalog, meta, hub, settled>>
    BY <1>3 DEF BeginRefresh
  <2>3. /\ cron'.at = "fetch" /\ cron'.got = {} /\ cron'.since = hub
        /\ \A p \in cron'.todo : p \in Entries \X Repos /\ catalog[p[1]] = p[2]
    BY <2>1
  <2>4. MetaTypes'
    <3>1. cron'.todo \subseteq Entries \X Repos
      BY <2>3
    <3>2. cron' \in [at : {"sleep", "fetch"}, todo : SUBSET (Entries \X Repos),
                     got : SUBSET (Entries \X Figures), met : BOOLEAN, since : Nat]
      BY <1>0, <2>1, <3>1
    <3>3. QED BY <2>2, <3>2 DEF MetaTypes
  <2>5. RoundIsCurrent'
    BY <1>0, <2>2, <2>3 DEF RoundIsCurrent
  <2>6. FiguresFit'
    BY <2>2 DEF FiguresFit, Shown
  <2>7. QED BY <2>4, <2>5, <2>6
<1>4. ASSUME NEW p \in cron.todo, FetchOne(p) PROVE MetaInv'
  <2>1. UNCHANGED <<catalog, meta, hub, settled>> /\ cron.at = "fetch"
    BY <1>4 DEF FetchOne
  <2>2. PICK got \in {{}, {<<p[1], [repo |-> p[2], n |-> hub]>>}} :
          cron' = [cron EXCEPT !.todo = @ \ {p}, !.got = @ \cup got]
    BY <1>4 DEF FetchOne
  <2>3. /\ cron'.at = cron.at /\ cron'.met = cron.met /\ cron'.since = cron.since
        /\ cron'.todo = cron.todo \ {p} /\ cron'.got = cron.got \cup got
    BY <2>2 DEF MetaTypes
  <2>4. p[1] \in Entries /\ p[2] \in Repos
    BY <1>0
  <2>5. \A g \in got : g[1] = p[1] /\ g[2].repo = p[2] /\ g[2].n = hub /\ g \in Entries \X Figures
    BY <1>0, <2>4 DEF Figures
  <2>6. MetaTypes'
    BY <1>0, <2>1, <2>2, <2>5 DEF MetaTypes
  <2>7. RoundIsCurrent'
    BY <1>0, <2>1, <2>3, <2>5 DEF RoundIsCurrent
  <2>8. FiguresFit'
    BY <2>1 DEF FiguresFit, Shown
  <2>9. QED BY <2>6, <2>7, <2>8
<1>5. ASSUME NEW g \in cron.got, KeepOne(g) PROVE MetaInv'
  <2>1. /\ cron.at = "fetch" /\ UNCHANGED <<catalog, hub>>
        /\ meta' = [meta EXCEPT ![g[1]] = g[2]]
        /\ settled' = [settled EXCEPT ![g[1]] = IF cron.met THEN 0 ELSE cron.since]
        /\ cron' = [cron EXCEPT !.got = @ \ {g}]
    BY <1>5 DEF KeepOne
  <2>2. g[1] \in Entries /\ g[2] \in Figures /\ g[2].n \in Nat
    BY <1>0 DEF Figures
  <2>3. /\ cron'.at = cron.at /\ cron'.met = cron.met /\ cron'.since = cron.since
        /\ cron'.todo = cron.todo /\ cron'.got = cron.got \ {g}
    BY <2>1 DEF MetaTypes
  <2>4. MetaTypes'
    BY <1>0, <2>1, <2>2 DEF MetaTypes
  <2>5. RoundIsCurrent'
    BY <2>1, <2>3 DEF RoundIsCurrent
  <2>6. ~cron.met => g[2].repo = catalog[g[1]] /\ g[2].n >= cron.since
    BY <2>1 DEF RoundIsCurrent
  <2>7. FiguresFit'
    BY <1>0, <2>1, <2>2, <2>6 DEF FiguresFit, Shown, MetaTypes
  <2>8. QED BY <2>4, <2>5, <2>7
<1>6. CASE EndRefresh
  <2>1. /\ cron' = [cron EXCEPT !.at = "sleep", !.met = FALSE, !.since = 1]
        /\ UNCHANGED <<catalog, meta, hub, settled>>
    BY <1>6 DEF EndRefresh
  <2>2. MetaTypes' /\ cron'.at = "sleep"
    BY <2>1 DEF MetaTypes
  <2>3. QED BY <2>1, <2>2 DEF RoundIsCurrent, FiguresFit, Shown
<1>7. CASE UNCHANGED metaVars
  BY <1>7 DEF metaVars, MetaTypes, RoundIsCurrent, FiguresFit, Shown
<1>8. QED BY <1>1, <1>2, <1>3, <1>4, <1>5, <1>6, <1>7 DEF MetaNext

\* What the caches of the desktop give out is what they were asked for, for every
\* number of calls and models, and however often the figures of the hub change.
THEOREM CachesAreRight == SummariesSpec /\ MetaSpec => []CachesFit
<1>1. SummariesInv => SummariesFit
  <2> SUFFICES ASSUME SummariesInv PROVE SummariesFit
    OBVIOUS
  <2> USE DEF SummariesInv, SummaryTypes
  <2>1. ASSUME NEW c \in Asks, asks[c].at = "ok"
        PROVE  /\ asks[c].q.items # "none" /\ ~asks[c].old
               /\ asks[c].q.force => asks[c].by = c
               /\ asks[c].by # "before" => TrendKey(asks[asks[c].by].q) = TrendKey(asks[c].q)
               /\ asks[c].by = c => /\ rows[TrendKey(asks[c].q)] # NoRow
                                    /\ rows[TrendKey(asks[c].q)].by # "before"
    <3>1. AnswerFits(c) /\ ~asks[c].old /\ asks[c].by \in Asks \cup {"before"}
      BY <2>1 DEF AsksGoOn, AskStates
    <3>2. QED BY <3>1, AsksAreCalls DEF AnswerFits
  <2>2. ASSUME NEW k \in DOMAIN rows, rows[k] # NoRow, rows[k].by # "before"
        PROVE  asks[rows[k].by].at = "ok" /\ TrendKey(asks[rows[k].by].q) = k
    BY <2>2 DEF RowsAreReturned, SummaryRow
  <2>3. QED BY <2>1, <2>2 DEF SummariesFit
<1>2. SummariesInv /\ MetaInv => CachesFit
  BY <1>1 DEF CachesFit, MetaInv
<1>3. SummariesSpec => []SummariesInv
  BY SummariesStart, SummariesStep, PTL DEF SummariesSpec
<1>4. MetaSpec => []MetaInv
  BY MetaStart, MetaStep, PTL DEF MetaSpec
<1>5. QED BY <1>2, <1>3, <1>4, PTL

-----------------------------------------------------------------------------
(***************************************************************************)
(* Searching what was indexed, through the pool of open stores.            *)
(***************************************************************************)
SearchSpec == SearchInit /\ [][SearchNext]_searchVars

\* A row and what embedded it, and what a caller knows.
WhoEmbeds == [model : Models \cup {"none"}, real : BOOLEAN, dim : {384, 1024}]
Documents == Docs \cup {Idle.doc}
Conns == 0..MaxOpens
Held == [doc : Documents, by : WhoEmbeds]
CallStates ==
  [op : {"none", "ingest", "search", "stats"}, path : Paths, conn : Conns,
   pc : {"idle", "open", "opened", "embedded", "found", "done"}, by : WhoEmbeds,
   doc : Documents, k : 0..2, had : SUBSET Held]

SearchTypes ==
  /\ active \in Models \cup {"none"} /\ downloaded \subseteq Models
  /\ onFile \in [Files -> SUBSET Held] /\ \A f \in Files : IsFiniteSet(onFile[f])
  /\ opened \in [1..MaxOpens -> Paths] /\ pool \in [Paths -> 0..MaxOpens]
  /\ opens \in 0..MaxOpens
  /\ call \in [Callers -> CallStates] /\ hits \in [Callers -> SUBSET Held]

\* What the pool holds, and what a caller was given, is open for their path, and
\* stays so for the caller when the pool has let go of it.
OpenForItsPath ==
  /\ \A p \in Paths : pool[p] # 0 => pool[p] <= opens /\ opened[pool[p]] = p
  /\ \A c \in Callers :
       call[c].pc \in {"opened", "embedded", "found"} =>
         call[c].conn \in 1..opens /\ opened[call[c].conn] = call[c].path

\* No row goes, so what a search saw at first is there when it looks again.
SeenStays ==
  \A c \in Callers :
    call[c].pc = "embedded" /\ call[c].path \in Files => call[c].had \subseteq onFile[call[c].path]

SearchInv == SearchTypes /\ OpenForItsPath /\ SeenStays /\ SearchIsRight

\* A caller that is idle, an embedder, and a caller that has returned are what
\* they are said to be.
LEMMA CallsAre ==
  /\ Idle \in CallStates /\ Idle.pc = "idle"
  /\ [Idle EXCEPT !.pc = "done"] \in CallStates
  /\ [Idle EXCEPT !.pc = "done"].pc = "done"
  /\ \A m \in Models \cup {"none"}, b \in BOOLEAN : Embedder(m, b) \in WhoEmbeds
<1> DEFINE nobody == Embedder("none", FALSE)
           anyDoc == CHOOSE d \in Docs : TRUE
<1>1. ASSUME NEW m \in Models \cup {"none"}, NEW b \in BOOLEAN
      PROVE  Embedder(m, b) \in WhoEmbeds
  <2>1. Dim(m) \in {384, 1024}
    BY DEF Dim
  <2>2. QED BY <2>1 DEF Embedder, WhoEmbeds
<1>2. nobody \in WhoEmbeds
  BY <1>1
<1> HIDE DEF nobody, anyDoc
<1>3. Idle = [op |-> "none", path |-> "", conn |-> 0, pc |-> "idle", by |-> nobody,
              doc |-> anyDoc, k |-> 0, had |-> {}]
  BY DEF Idle, nobody, anyDoc
<1>4. Idle.doc = anyDoc /\ anyDoc \in Documents
  BY <1>3 DEF Documents
<1>5. "" \in Paths /\ 0 \in Conns /\ 0 \in 0..2 /\ {} \in SUBSET Held
  BY PoolSizeAssumption DEF Paths, Conns
<1>6. Idle \in CallStates
  BY <1>2, <1>3, <1>4, <1>5 DEF CallStates
<1>7. /\ [Idle EXCEPT !.pc = "done"] \in CallStates
      /\ [Idle EXCEPT !.pc = "done"].pc = "done" /\ Idle.pc = "idle"
  BY <1>3, <1>6 DEF CallStates
<1>8. QED BY <1>1, <1>6, <1>7

\* A call that moves on, with the files and the pool as they were: the other calls
\* see what they saw.
LEMMA CallKeeps ==
  ASSUME SearchInv, NEW c \in Callers, NEW s \in CallStates,
         call' = [call EXCEPT ![c] = s],
         UNCHANGED <<active, downloaded, onFile, opened, pool, opens>>,
         NEW h \in SUBSET Held, hits' = [hits EXCEPT ![c] = h],
         s.pc \in {"opened", "embedded", "found"} =>
           s.conn \in 1..opens /\ opened[s.conn] = s.path,
         s.pc = "embedded" /\ s.path \in Files => s.had \subseteq onFile[s.path],
         s.op = "search" /\ s.pc = "found" /\ s.path \in Files =>
           /\ h \subseteq onFile[s.path] /\ Cardinality(h) <= s.k
           /\ Cardinality(h) < s.k => s.had \subseteq h
           /\ (\E r \in h : r.by.dim # s.by.dim) =>
                \A r \in s.had : r.by.dim = s.by.dim => r \in h
  PROVE  SearchInv'
<1> USE DEF SearchInv
<1>1. /\ call'[c] = s /\ hits'[c] = h
      /\ \A d \in Callers \ {c} : call'[d] = call[d] /\ hits'[d] = hits[d]
  BY DEF SearchTypes
<1>2. SearchTypes'
  BY DEF SearchTypes
<1>3. OpenForItsPath'
  BY <1>1 DEF OpenForItsPath
<1>4. SeenStays'
  BY <1>1 DEF SeenStays
<1>5. SearchIsRight'
  BY <1>1 DEF SearchIsRight
<1>6. QED BY <1>2, <1>3, <1>4, <1>5

\* A call that returns, whatever it returns.
LEMMA DoneKeeps ==
  ASSUME SearchInv, NEW c \in Callers, Done(c),
         UNCHANGED <<active, downloaded, onFile, opened, pool, opens>>
  PROVE  SearchInv'
<1> DEFINE s == [Idle EXCEPT !.pc = "done"]
<1>1. s \in CallStates /\ s.pc = "done"
  BY CallsAre
<1>2. call' = [call EXCEPT ![c] = s] /\ hits' = [hits EXCEPT ![c] = {}]
  BY DEF Done
<1> HIDE DEF s
<1>3. QED BY <1>1, <1>2, CallKeeps

\* The best rows of a file are of that file and as many as were asked for, all if
\* there are fewer, and none that cannot be compared before one that can.
LEMMA BestAre ==
  ASSUME NEW stored, IsFiniteSet(stored), NEW k \in Nat, NEW q,
         NEW s \in Scores(q, stored), NEW h \in Best(stored, k, s)
  PROVE  /\ h \subseteq stored /\ Cardinality(h) <= k
         /\ Cardinality(h) < k => h = stored
         /\ (\E r \in h : r.by.dim # q.dim) => \A r \in stored : r.by.dim = q.dim => r \in h
<1>1. /\ h \subseteq stored
      /\ Cardinality(h) = IF Cardinality(stored) < k THEN Cardinality(stored) ELSE k
      /\ \A r \in h, o \in stored \ h : s[r] >= s[o]
  BY DEF Best
<1>2. Cardinality(stored) \in Nat
  BY FS_CardinalityType
<1>3. Cardinality(h) <= k
  BY <1>1, <1>2
<1>4. Cardinality(h) < k => h = stored
  BY <1>1, <1>2, FS_Subset
<1>5. \A r \in stored : s[r] \in 0..2 /\ (s[r] = 0 <=> r.by.dim # q.dim)
  BY DEF Scores
<1>6. ASSUME NEW r \in h, r.by.dim # q.dim, NEW o \in stored, o.by.dim = q.dim, o \notin h
      PROVE  FALSE
  <2>1. s[r] = 0 /\ s[o] \in 1..2
    BY <1>1, <1>5, <1>6
  <2>2. s[r] >= s[o]
    BY <1>1, <1>6
  <2>3. QED BY <2>1, <2>2
<1>7. QED BY <1>1, <1>3, <1>4, <1>6

\* At first nothing is open and nobody calls.
LEMMA SearchStarts == SearchInit => SearchInv
<1> SUFFICES ASSUME SearchInit PROVE SearchInv
  OBVIOUS
<1>1. \A c \in Callers : call[c].pc = "idle"
  BY CallsAre DEF SearchInit
<1>2. SearchTypes
  <2>1. /\ active \in Models \cup {"none"} /\ downloaded \subseteq Models
        /\ onFile \in [Files -> SUBSET Held]
    BY DEF SearchInit
  <2>2. \A f \in Files : IsFiniteSet(onFile[f])
    BY FS_EmptySet DEF SearchInit
  <2>3. /\ opened \in [1..MaxOpens -> Paths] /\ pool \in [Paths -> 0..MaxOpens]
        /\ opens \in 0..MaxOpens
    <3>1. "" \in Paths /\ 0 \in 0..MaxOpens
      BY PoolSizeAssumption DEF Paths
    <3>2. QED BY <3>1 DEF SearchInit
  <2>4. call \in [Callers -> CallStates] /\ hits \in [Callers -> SUBSET Held]
    BY CallsAre DEF SearchInit
  <2>5. QED BY <2>1, <2>2, <2>3, <2>4 DEF SearchTypes
<1>3. OpenForItsPath
  BY <1>1 DEF SearchInit, OpenForItsPath
<1>4. SeenStays /\ SearchIsRight
  BY <1>1 DEF SeenStays, SearchIsRight
<1>5. QED BY <1>2, <1>3, <1>4 DEF SearchInv

\* A store that is opened, or found open, is open for the path of the caller, and
\* whatever the pool lets go of is still open for those who hold it.
LEMMA OpenKeeps ==
  ASSUME SearchInv, NEW c \in Callers, Open(c)
  PROVE  SearchInv'
<1> USE DEF SearchInv
<1> DEFINE p == call[c].path
           g == GetOrOpen(p)
<1>1. /\ call[c].pc = "open" /\ g.opens <= MaxOpens
      /\ pool' = g.pool /\ opens' = g.opens
      /\ opened' = IF g.opens = opens THEN opened ELSE [opened EXCEPT ![g.opens] = p]
      /\ call' = [call EXCEPT ![c].conn = g.conn, ![c].pc = "opened"]
      /\ UNCHANGED <<active, downloaded, onFile, hits>>
  BY DEF Open
<1>2. p \in Paths /\ call[c] \in CallStates
  BY DEF SearchTypes, CallStates
<1>3. /\ opens \in 0..MaxOpens /\ pool \in [Paths -> 0..MaxOpens]
      /\ opened \in [1..MaxOpens -> Paths] /\ MaxOpens \in Nat
  BY PoolSizeAssumption DEF SearchTypes
<1>4. /\ pool' \in [Paths -> 0..MaxOpens] /\ opens' \in {opens, opens + 1}
      /\ opens' \in 0..MaxOpens /\ g.conn \in 1..opens'
      /\ opened' \in [1..MaxOpens -> Paths] /\ opened'[g.conn] = p
      /\ \A n \in 1..opens : opened'[n] = opened[n]
      /\ \A q \in Paths : pool'[q] # 0 => pool'[q] <= opens' /\ opened'[pool'[q]] = q
  <2>1. CASE pool[p] # 0
    <3>1. g.pool = pool /\ g.opens = opens /\ g.conn = pool[p]
      BY <2>1 DEF GetOrOpen
    <3>2. pool[p] \in 1..opens /\ opened[pool[p]] = p
      BY <1>2, <1>3, <2>1 DEF OpenForItsPath
    <3> HIDE DEF g, p
    <3>3. pool' = pool /\ opens' = opens /\ opened' = opened
      BY <1>1, <3>1
    <3>4. QED BY <1>2, <1>3, <3>1, <3>2, <3>3 DEF OpenForItsPath
  <2>2. CASE pool[p] = 0
    <3> DEFINE full == Len(order) >= PoolSize
    <3>1. /\ g.pool = [q \in Paths |-> IF q = p THEN opens + 1
                                      ELSE IF full /\ q = order[1] THEN 0 ELSE pool[q]]
          /\ g.opens = opens + 1 /\ g.conn = opens + 1
      BY <2>2 DEF GetOrOpen
    <3> HIDE DEF g, p, full
    <3>2. opens' = opens + 1 /\ opened' = [opened EXCEPT ![opens + 1] = p] /\ opens + 1 \in 1..MaxOpens
      BY <1>1, <1>3, <3>1
    <3>3. /\ opened' \in [1..MaxOpens -> Paths] /\ opened'[opens + 1] = p
          /\ \A n \in 1..opens : opened'[n] = opened[n]
      BY <1>2, <1>3, <3>2
    <3>4. /\ pool' \in [Paths -> 0..MaxOpens] /\ pool'[p] = opens + 1
          /\ \A q \in Paths \ {p} : pool'[q] \in {0, pool[q]}
      BY <1>1, <1>2, <1>3, <3>1, <3>2
    <3>5. \A q \in Paths \ {p} : pool[q] # 0 => pool[q] \in 1..opens /\ opened[pool[q]] = q
      BY <1>3 DEF OpenForItsPath
    <3>6. ASSUME NEW q \in Paths, pool'[q] # 0
          PROVE  pool'[q] <= opens' /\ opened'[pool'[q]] = q
      <4>1. CASE q = p
        BY <1>3, <3>2, <3>3, <3>4, <4>1
      <4>2. CASE q # p
        <5>1. pool'[q] = pool[q] /\ pool[q] \in 1..opens /\ opened[pool[q]] = q
          BY <3>4, <3>5, <3>6, <4>2
        <5>2. opened'[pool[q]] = opened[pool[q]]
          BY <3>3, <5>1
        <5>3. QED BY <1>3, <3>2, <5>1, <5>2
      <4>3. QED BY <4>1, <4>2
    <3>7. QED BY <1>3, <3>1, <3>2, <3>3, <3>4, <3>6
  <2>3. QED BY <2>1, <2>2
<1> HIDE DEF g
<1>5. PICK n \in 1..opens' : n = g.conn
  BY <1>4
<1> DEFINE s == [call[c] EXCEPT !.conn = n, !.pc = "opened"]
<1>6. call' = [call EXCEPT ![c] = s]
  BY <1>1, <1>2, <1>5 DEF SearchTypes, CallStates
<1>7. s \in CallStates /\ s.pc = "opened" /\ s.conn = n /\ s.path = p
  <2>1. opens' \in 0..MaxOpens /\ MaxOpens \in Nat
    BY <1>3, <1>4
  <2>2. n \in 0..MaxOpens
    BY <1>5, <2>1
  <2>3. n \in Conns
    BY <2>2, Zenon DEF Conns
  <2>4. QED BY <1>2, <2>3 DEF CallStates
<1> HIDE DEF s, p
<1>8. call'[c] = s /\ \A d \in Callers \ {c} : call'[d] = call[d]
  BY <1>6 DEF SearchTypes
<1>9. SearchTypes'
  <2>1. call' \in [Callers -> CallStates]
    BY <1>6, <1>7 DEF SearchTypes
  <2>2. /\ active' \in Models \cup {"none"} /\ downloaded' \subseteq Models
        /\ onFile' \in [Files -> SUBSET Held] /\ \A f \in Files : IsFiniteSet(onFile'[f])
        /\ hits' \in [Callers -> SUBSET Held]
    BY <1>1 DEF SearchTypes
  <2>3. QED BY <1>4, <2>1, <2>2 DEF SearchTypes
<1>10. OpenForItsPath'
  <2>1. ASSUME NEW d \in Callers, call'[d].pc \in {"opened", "embedded", "found"}
        PROVE  call'[d].conn \in 1..opens' /\ opened'[call'[d].conn] = call'[d].path
    <3>1. CASE d = c
      BY <1>4, <1>5, <1>7, <1>8, <3>1
    <3>2. CASE d # c
      <4>1. call'[d] = call[d] /\ call[d].conn \in 1..opens /\ opened[call[d].conn] = call[d].path
        BY <1>8, <2>1, <3>2 DEF OpenForItsPath
      <4>2. opened'[call[d].conn] = opened[call[d].conn]
        BY <1>4, <4>1
      <4>3. opens \in Nat /\ opens' \in Nat /\ opens <= opens'
        BY <1>3, <1>4
      <4>4. call[d].conn \in 1..opens'
        BY <4>1, <4>3
      <4>5. QED BY <4>1, <4>2, <4>4
    <3>3. QED BY <3>1, <3>2
  <2>2. QED BY <1>4, <2>1 DEF OpenForItsPath
<1>11. SeenStays'
  BY <1>1, <1>7, <1>8 DEF SeenStays
<1>12. SearchIsRight'
  <2>1. \A d \in Callers : call'[d].pc = "found" => call'[d] = call[d]
    BY <1>7, <1>8
  <2>2. onFile' = onFile /\ hits' = hits
    BY <1>1
  <2>3. QED BY <2>1, <2>2 DEF SearchIsRight
<1>13. QED BY <1>9, <1>10, <1>11, <1>12

\* A store that cannot be opened costs the pool its oldest, and nobody else.
LEMMA OpenFailsKeeps ==
  ASSUME SearchInv, NEW c \in Callers, OpenFails(c)
  PROVE  SearchInv'
<1> USE DEF SearchInv
<1> DEFINE s == [Idle EXCEPT !.pc = "done"]
<1>1. s \in CallStates /\ s.pc = "done"
  BY CallsAre
<1>2. call' = [call EXCEPT ![c] = s] /\ hits' = [hits EXCEPT ![c] = {}]
  BY DEF OpenFails, Done
<1> HIDE DEF s
<1>3. /\ UNCHANGED <<active, downloaded, onFile, opened, opens>>
      /\ pool' = pool \/ pool' = [pool EXCEPT ![order[1]] = 0]
  BY DEF OpenFails
<1>4. pool' \in [Paths -> 0..MaxOpens] /\ \A p \in Paths : pool'[p] \in {0, pool[p]}
  <2>1. 0 \in 0..MaxOpens /\ pool \in [Paths -> 0..MaxOpens]
    BY PoolSizeAssumption DEF SearchTypes
  <2>2. QED BY <1>3, <2>1
<1>5. /\ call'[c] = s /\ hits'[c] = {}
      /\ \A d \in Callers \ {c} : call'[d] = call[d] /\ hits'[d] = hits[d]
  BY <1>2 DEF SearchTypes
<1>6. SearchTypes'
  BY <1>1, <1>2, <1>3, <1>4 DEF SearchTypes
<1>7. OpenForItsPath'
  BY <1>1, <1>3, <1>4, <1>5 DEF OpenForItsPath
<1>8. SeenStays'
  BY <1>1, <1>3, <1>5 DEF SeenStays
<1>9. SearchIsRight'
  BY <1>1, <1>3, <1>5 DEF SearchIsRight
<1>10. QED BY <1>6, <1>7, <1>8, <1>9

\* An ingest adds a row or keeps the one it finds: what others saw stays.
LEMMA WriteKeeps ==
  ASSUME SearchInv, NEW c \in Callers, Write(c)
  PROVE  SearchInv'
<1> USE DEF SearchInv
<1> DEFINE p == PathOf(c)
           row == [doc |-> call[c].doc, by |-> call[c].by]
<1>1. call[c].pc = "opened" /\ Done(c) /\ UNCHANGED <<active, downloaded, opened, pool, order, opens>>
  BY DEF Write, HasWorkspace
<1>2. row \in Held /\ call[c].conn \in 1..MaxOpens
  BY <1>1, PoolSizeAssumption DEF SearchTypes, CallStates, Conns, Held, OpenForItsPath
<1> HIDE DEF row, p
<1>3. /\ onFile' \in [Files -> SUBSET Held]
      /\ \A f \in Files : onFile[f] \subseteq onFile'[f] /\ IsFiniteSet(onFile'[f])
  <2>1. p \in Files /\ Seen(c) = onFile[p]
    BY KnownAssumption DEF Write, HasWorkspace, Files, Seen, p
  <2>2. PICK after \in {onFile[p], onFile[p] \cup {row}} : onFile' = [onFile EXCEPT ![p] = after]
    BY <2>1 DEF Write, p, row
  <2>3. onFile[p] \in SUBSET Held /\ IsFiniteSet(onFile[p])
    BY <2>1 DEF SearchTypes
  <2>4. after \in SUBSET Held /\ onFile[p] \subseteq after /\ IsFiniteSet(after)
    BY <1>2, <2>3, FS_AddElement
  <2>5. QED BY <2>1, <2>2, <2>4 DEF SearchTypes
<1> DEFINE s == [Idle EXCEPT !.pc = "done"]
<1>4. s \in CallStates /\ s.pc = "done"
  BY CallsAre
<1>5. call' = [call EXCEPT ![c] = s] /\ hits' = [hits EXCEPT ![c] = {}]
  BY <1>1 DEF Done
<1> HIDE DEF s
<1>6. /\ call'[c] = s /\ hits'[c] = {}
      /\ \A d \in Callers \ {c} : call'[d] = call[d] /\ hits'[d] = hits[d]
  BY <1>5 DEF SearchTypes
<1>7. SearchTypes'
  BY <1>1, <1>3, <1>4, <1>5 DEF SearchTypes
<1>8. OpenForItsPath'
  BY <1>1, <1>4, <1>6 DEF OpenForItsPath
<1>9. SeenStays'
  <2> SUFFICES ASSUME NEW d \in Callers, call'[d].pc = "embedded", call'[d].path \in Files
               PROVE  call'[d].had \subseteq onFile'[call'[d].path]
    BY DEF SeenStays
  <2>1. call'[d] = call[d]
    BY <1>4, <1>6
  <2>2. QED BY <1>3, <2>1 DEF SeenStays
<1>10. SearchIsRight'
  <2> SUFFICES ASSUME NEW d \in Callers, call'[d].op = "search", call'[d].pc = "found",
                      call'[d].path \in Files
               PROVE  /\ hits'[d] \subseteq onFile'[call'[d].path]
                      /\ Cardinality(hits'[d]) <= call'[d].k
                      /\ Cardinality(hits'[d]) < call'[d].k => call'[d].had \subseteq hits'[d]
                      /\ (\E r \in hits'[d] : r.by.dim # call'[d].by.dim) =>
                           \A r \in call'[d].had : r.by.dim = call'[d].by.dim => r \in hits'[d]
    BY DEF SearchIsRight
  <2>1. call'[d] = call[d] /\ hits'[d] = hits[d]
    BY <1>4, <1>6
  <2>2. QED BY <1>3, <2>1 DEF SearchIsRight
<1>11. QED BY <1>7, <1>8, <1>9, <1>10

\* The query is embedded: the caller has seen the rows of its file.
LEMMA EmbedKeeps ==
  ASSUME SearchInv, NEW c \in Callers, EmbedQuery(c)
  PROVE  SearchInv'
<1> USE DEF SearchInv
<1> DEFINE s == [call[c] EXCEPT !.pc = "embedded", !.had = Seen(c)]
<1>1. /\ call[c].pc = "opened" /\ call[c] \in CallStates
      /\ UNCHANGED <<active, downloaded, onFile, opened, pool, order, opens, hits>>
  BY DEF EmbedQuery, HasWorkspace, SearchTypes
<1>2. call[c].conn \in 1..opens /\ opened[call[c].conn] = call[c].path
  BY <1>1 DEF OpenForItsPath
<1>3. Seen(c) \in SUBSET Held /\ (call[c].path \in Files => Seen(c) = onFile[call[c].path])
  BY <1>2, PoolSizeAssumption DEF Seen, PathOf, SearchTypes
<1>4. s \in CallStates /\ s.pc = "embedded" /\ s.had = Seen(c) /\ s.conn = call[c].conn
      /\ s.path = call[c].path
  BY <1>1, <1>3 DEF CallStates
<1>5. call' = [call EXCEPT ![c] = s]
  BY <1>1 DEF EmbedQuery, SearchTypes, CallStates
<1>6. hits[c] \in SUBSET Held /\ hits' = [hits EXCEPT ![c] = hits[c]]
  BY <1>1 DEF SearchTypes
<1> HIDE DEF s
<1>7. s.path \in Files => s.had \subseteq onFile[s.path]
  BY <1>3, <1>4
<1>8. s.conn \in 1..opens /\ opened[s.conn] = s.path
  BY <1>2, <1>4
<1>9. QED BY <1>1, <1>4, <1>5, <1>6, <1>7, <1>8, CallKeeps

\* The best rows of the file are found.
LEMMA FindKeeps ==
  ASSUME SearchInv, NEW c \in Callers, Search(c)
  PROVE  SearchInv'
<1> USE DEF SearchInv
<1> DEFINE s == [call[c] EXCEPT !.pc = "found"]
<1>1. /\ call[c].pc = "embedded" /\ call[c] \in CallStates
      /\ UNCHANGED <<active, downloaded, onFile, opened, pool, order, opens>>
  BY DEF Search, SearchTypes
<1>2. PICK scores \in Scores(call[c].by, Seen(c)) : \E h \in Best(Seen(c), call[c].k, scores) :
        hits' = [hits EXCEPT ![c] = h]
  BY DEF Search
<1>3. PICK h \in Best(Seen(c), call[c].k, scores) : hits' = [hits EXCEPT ![c] = h]
  BY <1>2
<1>4. call[c].conn \in 1..opens /\ opened[call[c].conn] = call[c].path
  BY <1>1 DEF OpenForItsPath
<1>5. Seen(c) \in SUBSET Held /\ (call[c].path \in Files => Seen(c) = onFile[call[c].path])
  BY <1>4, PoolSizeAssumption DEF Seen, PathOf, SearchTypes
<1>6. h \in SUBSET Held
  BY <1>5 DEF Best
<1>7. call[c].path \in Files =>
        /\ h \subseteq onFile[call[c].path] /\ Cardinality(h) <= call[c].k
        /\ Cardinality(h) < call[c].k => call[c].had \subseteq h
        /\ (\E r \in h : r.by.dim # call[c].by.dim) =>
             \A r \in call[c].had : r.by.dim = call[c].by.dim => r \in h
  <2> SUFFICES ASSUME call[c].path \in Files
               PROVE  /\ h \subseteq onFile[call[c].path] /\ Cardinality(h) <= call[c].k
                      /\ Cardinality(h) < call[c].k => call[c].had \subseteq h
                      /\ (\E r \in h : r.by.dim # call[c].by.dim) =>
                           \A r \in call[c].had : r.by.dim = call[c].by.dim => r \in h
    OBVIOUS
  <2>1. IsFiniteSet(Seen(c)) /\ call[c].k \in Nat
    BY <1>1, <1>5 DEF SearchTypes, CallStates
  <2>2. /\ h \subseteq Seen(c) /\ Cardinality(h) <= call[c].k
        /\ Cardinality(h) < call[c].k => h = Seen(c)
        /\ (\E r \in h : r.by.dim # call[c].by.dim) =>
             \A r \in Seen(c) : r.by.dim = call[c].by.dim => r \in h
    BY <2>1, BestAre
  <2>3. call[c].had \subseteq Seen(c)
    BY <1>1, <1>5 DEF SeenStays
  <2>4. QED BY <1>5, <2>2, <2>3
<1>8. /\ s \in CallStates /\ s.pc = "found" /\ s.had = call[c].had /\ s.conn = call[c].conn
      /\ s.path = call[c].path /\ s.k = call[c].k /\ s.by = call[c].by
  BY <1>1 DEF CallStates
<1>9. call' = [call EXCEPT ![c] = s]
  BY <1>1 DEF Search
<1> HIDE DEF s
<1>10. QED BY <1>1, <1>3, <1>4, <1>6, <1>7, <1>8, <1>9, CallKeeps

\* A call begins, with the embedder of the moment.
LEMMA CallBegins ==
  ASSUME SearchInv, NEW c \in Callers, NEW o \in {"ingest", "search", "stats"},
         NEW p \in Paths, NEW d \in Documents, NEW k \in 0..2, Call(c, o, p, d, k)
  PROVE  SearchInv'
<1> USE DEF SearchInv
<1>1. PICK e \in Embedders :
        call' = [call EXCEPT ![c] = [Idle EXCEPT !.op = o, !.path = p, !.pc = "open",
                                                !.by = e, !.doc = d, !.k = k]]
  BY DEF Call
<1>2. e \in WhoEmbeds
  BY CallsAre DEF Embedders, SearchTypes
<1> DEFINE s == [Idle EXCEPT !.op = o, !.path = p, !.pc = "open", !.by = e, !.doc = d, !.k = k]
<1>3. s \in CallStates /\ s.pc = "open"
  BY <1>2, CallsAre DEF CallStates
<1>4. call' = [call EXCEPT ![c] = s]
  BY <1>1
<1>5. UNCHANGED <<active, downloaded, onFile, opened, pool, order, opens, hits>>
  BY DEF Call
<1>6. hits[c] \in SUBSET Held /\ hits' = [hits EXCEPT ![c] = hits[c]]
  BY <1>5 DEF SearchTypes
<1> HIDE DEF s
<1>7. QED BY <1>3, <1>4, <1>5, <1>6, CallKeeps

\* A search of a file finds the best rows of that file, whatever the pool has let
\* go of: for every number of callers, documents and models and every size of it.
THEOREM SearchesAreRight == SearchSpec => []SearchIsRight
<1>1. SearchInv /\ [SearchNext]_searchVars => SearchInv'
  <2> SUFFICES ASSUME SearchInv, [SearchNext]_searchVars PROVE SearchInv'
    OBVIOUS
  <2>1. ASSUME NEW m \in Models, Activate(m) \/ Downloaded(m) PROVE SearchInv'
    <3>1. /\ active' \in Models \cup {"none"} /\ downloaded' \subseteq Models
          /\ UNCHANGED <<onFile, opened, pool, order, opens, call, hits>>
      BY <2>1 DEF Activate, Downloaded, SearchInv, SearchTypes
    <3>2. QED
      BY <3>1 DEF SearchInv, SearchTypes, OpenForItsPath, SeenStays, SearchIsRight
  <2>2. ASSUME NEW c \in Callers, NEW p \in Paths, NEW d \in Documents, NEW k \in 0..2,
               Call(c, "ingest", p, d, k) \/ Call(c, "search", p, d, k) \/ Call(c, "stats", p, d, k)
        PROVE  SearchInv'
    BY <2>2, CallBegins DEF SearchInv
  <2>3. ASSUME NEW c \in Callers, Refused(c) \/ Unknown(c) \/ Stats(c) \/ CallFails(c) \/ Return(c)
        PROVE  SearchInv'
    BY <2>3, DoneKeeps DEF Refused, Unknown, Stats, CallFails, Return
  <2>4. CASE UNCHANGED searchVars
    BY <2>4
    DEF searchVars, SearchInv, SearchTypes, OpenForItsPath, SeenStays, SearchIsRight
  <2>5. ASSUME NEW c \in Callers,
               \/ c \in Ingests /\ \E p \in Paths, d \in Docs : Call(c, "ingest", p, d, 0)
               \/ c \in Searches /\ \E p \in Paths, k \in 1..2 : Call(c, "search", p, Idle.doc, k)
               \/ c \in Searches /\ \E p \in Paths : Call(c, "stats", p, Idle.doc, 0)
        PROVE  SearchInv'
    BY <2>2, <2>5 DEF Documents
  <2>6. QED
    BY <2>1, <2>3, <2>4, <2>5, OpenKeeps, OpenFailsKeeps, WriteKeeps, EmbedKeeps, FindKeeps
    DEF SearchNext
<1>2. SearchInv => SearchIsRight
  BY DEF SearchInv
<1>3. QED
  BY <1>1, <1>2, SearchStarts, PTL DEF SearchSpec

-----------------------------------------------------------------------------
(***************************************************************************)
(* What the pages of the desktop are told.                                 *)
(***************************************************************************)
UpdateSpec == UpdateInit /\ [][UpdateNext]_updateVars
SupervisorSpec == SupervisorInit /\ [][SupervisorNext]_supervisorVars

\* A check, and the words about one.
CheckStates ==
  [at : {"none", "refused", "started", "begun", "asking", "over", "gone"},
   listed : BOOLEAN, cancelled : BOOLEAN, stopped : BOOLEAN,
   answer : {"none", "newer", "same", "unreadable", "error"},
   told : Seq({"started", "outdated", "up_to_date", "failed", "cancelled"})]

\* What was told by the step a check has come to, one word less for a page that is
\* gone; and a check is cancelled by someone or by the loss of its page.
ToldInOrder(c) ==
  LET k == checks[c] IN
    /\ k.listed <=> k.at \in {"started", "begun", "asking", "over"}
    /\ k.cancelled => k.stopped \/ c \in closed
    /\ k.at \in {"none", "refused", "started"} => Len(k.told) = 0
    /\ k.at \in {"begun", "asking"} =>
         \/ Len(k.told) = 1 /\ k.told[1] = "started"
         \/ Len(k.told) = 0 /\ c \in closed
    /\ k.at \in {"over", "gone"} =>
         \/ Len(k.told) = 2 /\ k.told[1] = "started"
         \/ Len(k.told) \in {0, 1} /\ c \in closed
    /\ Len(k.told) = 2 => IF k.told[2] = "cancelled" THEN k.stopped
                          ELSE k.answer # "none" /\ k.told[2] = LastWord[k.answer]

ChecksInv == checks \in [Checks -> CheckStates] /\ \A c \in Checks : ToldInOrder(c)

-----------------------------------------------------------------------------
\* The types of the application.
Statuses == {"booting", "listening", "failed", "stopping"}
EventWords == [event : {"ready", "failed", "scan"}, value : Nat]
PageStates ==
  [at : {"load", "ready", "failed", "asked", "status", "scanned", "up"}, status : Statuses,
   port : Nat, scan : Nat, late : BOOLEAN, missed : Nat]
ScanStates ==
  [task : {"none", "new", "mounted", "absent", "forward", "lagged"}, busy : BOOLEAN,
   ended : Nat, queue : Seq(Nat \ {0}), hand : Nat, cache : Nat]
GatewayStates ==
  [status : Statuses, port : {0, 1},
   run : {"none", "bind", "bound", "announce", "build", "serve", "over"}]

SupervisorTypes ==
  /\ ready \in 0..13 /\ exiting \in BOOLEAN
  /\ gateway \in GatewayStates /\ page \in PageStates /\ scans \in ScanStates
  /\ wire \in Seq(EventWords) /\ reply \in Statuses \cup {"none"}
  /\ page.at = "asked" => reply # "none"

\* The gateway starts when its router has everything to be built with.
Guards == {"keys", "pipelines", "provider", "metrics"}
BuiltInTime ==
  /\ gateway.run # "none" => ready >= 11
  /\ gateway.run = "serve" => guarded = Guards

\* An event that is on its way.
OnWire(event) == \E i \in 1..Len(wire) : wire[i].event = event

\* Nobody says that the gateway failed before it did, and a page that has asked for
\* the status shows the last word on it, is about to, or has kept to an older one.
ToldOfGateway ==
  /\ gateway.run # "over" =>
       /\ gateway.status # "failed" /\ page.status # "failed" /\ reply # "failed"
       /\ ~OnWire("failed")
  /\ gateway.run \in {"announce", "build", "serve"} =>
       gateway.port = 1 /\ (~exiting => gateway.status = "listening")
  /\ page.status = "listening" => page.port = 1
  /\ \A i \in 1..Len(wire) : wire[i].event = "ready" => wire[i].value = 1
  /\ ~exiting /\ gateway.run \in {"build", "serve"} /\ page.at \notin {"load", "ready", "failed"} =>
       \/ page.status = "listening" \/ OnWire("ready")
       \/ page.at = "asked" /\ reply = "listening"
  /\ ~exiting /\ gateway.status = "failed" /\ page.at \notin {"load", "ready", "failed"} =>
       \/ page.status = "failed" \/ page.late \/ OnWire("failed")
       \/ page.at = "asked" /\ reply = "failed"

\* The last result on its way is the one that is kept; when there is none, the page
\* shows that one, or it came before the page listened.
LastOnWire ==
  \A i \in 1..Len(wire) :
    wire[i].event = "scan" /\ (\A j \in (i + 1)..Len(wire) : wire[j].event # "scan") =>
      wire[i].value = scans.cache
ToldOfScans ==
  /\ scans.hand # 0 => scans.hand = scans.cache
  /\ page.at # "up" => ~OnWire("scan")
  /\ scans.hand = 0 =>
       LastOnWire /\ (~OnWire("scan") => scans.cache \in {page.scan, page.missed})

SupervisorInv == SupervisorTypes /\ BuiltInTime /\ ToldOfGateway /\ ToldOfScans

\* One more word is the last, and the others stay.
LEMMA OneWordMore ==
  ASSUME NEW S, NEW s \in Seq(S), NEW w \in S
  PROVE  /\ Append(s, w) \in Seq(S) /\ Len(Append(s, w)) = Len(s) + 1
         /\ Append(s, w)[Len(s) + 1] = w
         /\ \A i \in 1..Len(s) : Append(s, w)[i] = s[i]
OBVIOUS

\* A word about a check is told to a page that is there, and a page that is gone
\* cancels its check.
LEMMA ToldIs ==
  ASSUME NEW c \in Checks, checks[c] \in CheckStates,
         NEW event \in {"started", "outdated", "up_to_date", "failed", "cancelled"},
         NEW next \in {"begun", "over"}
  PROVE  LET s == Told(c, event, next)
             k == checks[c]
         IN /\ s \in CheckStates /\ s.at = next
            /\ s.listed = k.listed /\ s.stopped = k.stopped /\ s.answer = k.answer
            /\ IF c \in closed THEN s.cancelled /\ s.told = k.told
               ELSE /\ s.cancelled = k.cancelled /\ Len(s.told) = Len(k.told) + 1
                    /\ s.told[Len(k.told) + 1] = event
                    /\ \A i \in 1..Len(k.told) : s.told[i] = k.told[i]
<1>1. checks[c].told \in Seq({"started", "outdated", "up_to_date", "failed", "cancelled"})
  BY DEF CheckStates
<1>2. CASE c \in closed
  BY <1>2 DEF Told, CheckStates
<1>3. CASE c \notin closed
  <2> DEFINE t == Append(checks[c].told, event)
  <2>1. /\ t \in Seq({"started", "outdated", "up_to_date", "failed", "cancelled"})
        /\ Len(t) = Len(checks[c].told) + 1 /\ t[Len(checks[c].told) + 1] = event
        /\ \A i \in 1..Len(checks[c].told) : t[i] = checks[c].told[i]
    BY <1>1, OneWordMore
  <2>2. Told(c, event, next) = [checks[c] EXCEPT !.at = next, !.told = t]
    BY <1>3 DEF Told, CheckStates
  <2> HIDE DEF t
  <2>3. /\ Told(c, event, next) \in CheckStates
        /\ Told(c, event, next).at = next /\ Told(c, event, next).told = t
        /\ Told(c, event, next).listed = checks[c].listed
        /\ Told(c, event, next).stopped = checks[c].stopped
        /\ Told(c, event, next).cancelled = checks[c].cancelled
        /\ Told(c, event, next).answer = checks[c].answer
    BY <2>1, <2>2 DEF CheckStates
  <2>4. QED BY <1>3, <2>1, <2>3
<1>4. QED BY <1>2, <1>3

\* One check moves on, and the others are as they were.
LEMMA OneCheckKeeps ==
  ASSUME ChecksInv, NEW c \in Checks, NEW s \in CheckStates,
         checks' = [checks EXCEPT ![c] = s], closed' = closed,
         checks'[c] = s => ToldInOrder(c)'
  PROVE  ChecksInv'
<1>1. checks'[c] = s /\ \A d \in Checks \ {c} : checks'[d] = checks[d]
  BY DEF ChecksInv
<1>2. checks' \in [Checks -> CheckStates]
  BY DEF ChecksInv
<1>3. \A d \in Checks \ {c} : ToldInOrder(d)'
  BY <1>1 DEF ChecksInv, ToldInOrder
<1>4. QED BY <1>1, <1>2, <1>3 DEF ChecksInv

\* Every step of the checks keeps what their pages were told in order.
LEMMA ChecksStep == ChecksInv /\ [UpdateNext]_updateVars => ChecksInv'
<1> SUFFICES ASSUME ChecksInv, [UpdateNext]_updateVars PROVE ChecksInv'
  OBVIOUS
<1>1. \A c \in Checks : checks[c] \in CheckStates /\ ToldInOrder(c)
  BY DEF ChecksInv
<1>2. ASSUME NEW c \in Checks, CheckForUpdate(c) PROVE ChecksInv'
  <2>1. PICK s \in CheckStates :
          /\ checks' = [checks EXCEPT ![c] = s] /\ checks[c].at = "none"
          /\ s.told = checks[c].told /\ s.cancelled = checks[c].cancelled
          /\ s.stopped = checks[c].stopped
          /\ \/ s.at = "refused" /\ s.listed = checks[c].listed
             \/ s.at = "started" /\ s.listed
    <3>1. CASE checks' = [checks EXCEPT ![c].at = "refused"]
      <4> DEFINE s == [checks[c] EXCEPT !.at = "refused"]
      <4>1. s \in CheckStates
        BY <1>1 DEF CheckStates
      <4>2. checks' = [checks EXCEPT ![c] = s] /\ checks[c].at = "none"
        BY <1>2, <3>1 DEF CheckForUpdate, ChecksInv
      <4>3. /\ s.told = checks[c].told /\ s.cancelled = checks[c].cancelled /\ s.at = "refused"
            /\ s.stopped = checks[c].stopped /\ s.listed = checks[c].listed
        BY <1>1 DEF CheckStates
      <4>4. QED BY <4>1, <4>2, <4>3
    <3>2. CASE checks' = [checks EXCEPT ![c].at = "started", ![c].listed = TRUE]
      <4> DEFINE s == [checks[c] EXCEPT !.at = "started", !.listed = TRUE]
      <4>1. s \in CheckStates
        BY <1>1 DEF CheckStates
      <4>2. checks' = [checks EXCEPT ![c] = s] /\ checks[c].at = "none"
        BY <1>2, <3>2 DEF CheckForUpdate, ChecksInv
      <4>3. /\ s.told = checks[c].told /\ s.cancelled = checks[c].cancelled /\ s.at = "started"
            /\ s.stopped = checks[c].stopped /\ s.listed
        BY <1>1 DEF CheckStates
      <4>4. QED BY <4>1, <4>2, <4>3
    <3>3. QED BY <1>2, <3>1, <3>2 DEF CheckForUpdate
  <2>2. closed' = closed
    BY <1>2 DEF CheckForUpdate
  <2>3. checks'[c] = s => ToldInOrder(c)'
    BY <1>1, <2>1, <2>2 DEF ToldInOrder
  <2>4. QED BY <2>1, <2>2, <2>3, OneCheckKeeps
<1>3. ASSUME NEW c \in Checks, Started(c) PROVE ChecksInv'
  <2> DEFINE s == Told(c, "started", "begun")
  <2>1. checks[c].at = "started" /\ checks' = [checks EXCEPT ![c] = s] /\ closed' = closed
    BY <1>3 DEF Started
  <2>2. /\ s \in CheckStates /\ s.at = "begun"
        /\ s.listed = checks[c].listed /\ s.stopped = checks[c].stopped
        /\ IF c \in closed THEN s.cancelled /\ s.told = checks[c].told
           ELSE /\ s.cancelled = checks[c].cancelled /\ Len(s.told) = Len(checks[c].told) + 1
                /\ s.told[Len(checks[c].told) + 1] = "started"
    BY <1>1, ToldIs
  <2> HIDE DEF s
  <2>3. checks'[c] = s => ToldInOrder(c)'
    <3>1. /\ Len(checks[c].told) = 0 /\ checks[c].listed
          /\ checks[c].cancelled => checks[c].stopped \/ c \in closed
      BY <1>1, <2>1 DEF ToldInOrder
    <3>2. CASE c \in closed
      <4> HAVE checks'[c] = s
      <4>1. s.listed <=> s.at \in {"started", "begun", "asking", "over"}
        BY <2>2, <3>1
      <4>2. Len(s.told) = 0 /\ c \in closed'
        BY <2>1, <2>2, <3>1, <3>2
      <4>3. s.at \notin {"none", "refused", "started"} /\ s.at \notin {"over", "gone"}
        BY <2>2
      <4>4. QED BY <4>1, <4>2, <4>3 DEF ToldInOrder
    <3>3. CASE c \notin closed
      <4>1. Len(s.told) = 1 /\ s.told[1] = "started" /\ (s.cancelled => s.stopped)
        BY <2>2, <3>1, <3>3
      <4> HAVE checks'[c] = s
      <4>2. s.listed <=> s.at \in {"started", "begun", "asking", "over"}
        BY <2>2, <3>1
      <4>3. s.cancelled => s.stopped \/ c \in closed'
        BY <2>1, <4>1
      <4>4. s.at \notin {"none", "refused", "started"} /\ s.at \notin {"over", "gone"}
        BY <2>2
      <4>5. QED BY <4>1, <4>2, <4>3, <4>4 DEF ToldInOrder
    <3>4. QED BY <3>2, <3>3
  <2>4. QED BY <2>1, <2>2, <2>3, OneCheckKeeps
<1>4. ASSUME NEW c \in Checks, checks[c].at \in {"begun", "asking"}, closed' = closed,
             NEW e \in {"cancelled", "outdated", "up_to_date", "failed"},
             checks' = [checks EXCEPT ![c] = Told(c, e, "over")],
             e = "cancelled" => checks[c].cancelled,
             e # "cancelled" => checks[c].answer # "none" /\ e = LastWord[checks[c].answer]
      PROVE  ChecksInv'
  <2> DEFINE s == Told(c, e, "over")
  <2>1. /\ s \in CheckStates /\ s.at = "over"
        /\ s.listed = checks[c].listed /\ s.stopped = checks[c].stopped
        /\ s.answer = checks[c].answer
        /\ IF c \in closed THEN s.cancelled /\ s.told = checks[c].told
           ELSE /\ s.cancelled = checks[c].cancelled /\ Len(s.told) = Len(checks[c].told) + 1
                /\ s.told[Len(checks[c].told) + 1] = e
                /\ \A i \in 1..Len(checks[c].told) : s.told[i] = checks[c].told[i]
    BY <1>1, ToldIs
  <2>2. checks' = [checks EXCEPT ![c] = s]
    BY <1>4
  <2> HIDE DEF s
  <2>3. checks'[c] = s => ToldInOrder(c)'
    <3>1. CASE c \in closed
      <4>1. Len(checks[c].told) \in {0, 1} /\ checks[c].listed
        BY <1>1, <1>4 DEF ToldInOrder
      <4>2. s.told = checks[c].told /\ s.listed
        BY <2>1, <3>1, <4>1
      <4> HAVE checks'[c] = s
      <4>3. s.listed <=> s.at \in {"started", "begun", "asking", "over"}
        BY <2>1, <4>2
      <4>4. Len(s.told) \in {0, 1} /\ Len(s.told) # 2
        BY <4>1, <4>2
      <4>5. c \in closed'
        BY <1>4, <3>1
      <4>6. s.at \notin {"none", "refused", "started"} /\ s.at \notin {"begun", "asking"}
        BY <2>1
      <4>7. QED BY <4>3, <4>4, <4>5, <4>6 DEF ToldInOrder
    <3>2. CASE c \notin closed
      <4>1. Len(checks[c].told) = 1 /\ checks[c].told[1] = "started"
        BY <1>1, <1>4, <3>2 DEF ToldInOrder
      <4>2. Len(s.told) = 2 /\ s.told[2] = e /\ s.told[1] = "started"
        BY <2>1, <3>2, <4>1
      <4>3. e = "cancelled" => s.stopped
        BY <1>1, <1>4, <2>1, <3>2 DEF ToldInOrder
      <4>4. s.listed /\ (s.cancelled => s.stopped)
        BY <1>1, <1>4, <2>1, <3>2 DEF ToldInOrder
      <4>5. QED BY <1>4, <2>1, <4>2, <4>3, <4>4 DEF ToldInOrder
    <3>3. QED BY <3>1, <3>2
  <2>4. QED BY <1>4, <2>1, <2>2, <2>3, OneCheckKeeps
<1>5. ASSUME NEW c \in Checks, Begun(c) PROVE ChecksInv'
  <2>1. CASE checks[c].cancelled
    BY <1>4, <1>5, <2>1 DEF Begun
  <2>2. CASE ~checks[c].cancelled
    <3> DEFINE s == [checks[c] EXCEPT !.at = "asking"]
    <3>1. checks[c].at = "begun" /\ checks' = [checks EXCEPT ![c] = s] /\ closed' = closed
      BY <1>5, <2>2 DEF Begun
    <3>2. /\ s \in CheckStates /\ s.at = "asking" /\ s.listed = checks[c].listed
          /\ s.cancelled = checks[c].cancelled /\ s.stopped = checks[c].stopped
          /\ s.answer = checks[c].answer /\ s.told = checks[c].told
      BY <1>1 DEF CheckStates
    <3> HIDE DEF s
    <3>3. checks'[c] = s => ToldInOrder(c)'
      BY <1>1, <3>1, <3>2 DEF ToldInOrder
    <3>4. QED BY <3>1, <3>2, <3>3, OneCheckKeeps
  <2>3. QED BY <2>1, <2>2
<1>6. ASSUME NEW c \in Checks, Answered(c) PROVE ChecksInv'
  <2>1. PICK a \in {"newer", "same", "unreadable", "error"} :
          checks' = [checks EXCEPT ![c].answer = a]
    BY <1>6 DEF Answered, Answers
  <2> DEFINE s == [checks[c] EXCEPT !.answer = a]
  <2>2. checks[c].at = "asking" /\ checks' = [checks EXCEPT ![c] = s] /\ closed' = closed
    BY <1>6, <2>1 DEF Answered
  <2>3. /\ s \in CheckStates /\ s.at = checks[c].at /\ s.listed = checks[c].listed
        /\ s.cancelled = checks[c].cancelled /\ s.stopped = checks[c].stopped
        /\ s.told = checks[c].told
    BY <1>1 DEF CheckStates
  <2> HIDE DEF s
  <2>4. checks'[c] = s => ToldInOrder(c)'
    BY <1>1, <2>2, <2>3 DEF ToldInOrder
  <2>5. QED BY <2>2, <2>3, <2>4, OneCheckKeeps
<1>7. ASSUME NEW c \in Checks, Woken(c) PROVE ChecksInv'
  <2> DEFINE e == IF checks[c].cancelled THEN "cancelled" ELSE LastWord[checks[c].answer]
  <2>1. /\ checks[c].at = "asking" /\ closed' = closed
        /\ checks[c].cancelled \/ checks[c].answer # "none"
        /\ checks' = [checks EXCEPT ![c] = Told(c, e, "over")]
    BY <1>7 DEF Woken
  <2>2. checks[c].answer \in {"none", "newer", "same", "unreadable", "error"}
    BY <1>1 DEF CheckStates
  <2>3. /\ e \in {"cancelled", "outdated", "up_to_date", "failed"}
        /\ e = "cancelled" => checks[c].cancelled
        /\ e # "cancelled" => checks[c].answer # "none" /\ e = LastWord[checks[c].answer]
    BY <2>1, <2>2 DEF LastWord
  <2> HIDE DEF e
  <2>4. QED BY <1>4, <2>1, <2>3
<1>8. ASSUME NEW c \in Checks, TakeOut(c) PROVE ChecksInv'
  <2> DEFINE s == [checks[c] EXCEPT !.at = "gone", !.listed = FALSE]
  <2>1. checks[c].at = "over" /\ checks' = [checks EXCEPT ![c] = s] /\ closed' = closed
    BY <1>8 DEF TakeOut, ChecksInv
  <2>2. /\ s \in CheckStates /\ s.at = "gone" /\ ~s.listed
        /\ s.cancelled = checks[c].cancelled /\ s.stopped = checks[c].stopped
        /\ s.answer = checks[c].answer /\ s.told = checks[c].told
    BY <1>1 DEF CheckStates
  <2> HIDE DEF s
  <2>3. checks'[c] = s => ToldInOrder(c)'
    BY <1>1, <2>1, <2>2 DEF ToldInOrder
  <2>4. QED BY <2>1, <2>2, <2>3, OneCheckKeeps
<1>9. ASSUME NEW S \in SUBSET Checks, Stop(S), closed' = closed PROVE ChecksInv'
  <2>1. ASSUME NEW c \in Checks
        PROVE  /\ checks'[c] \in CheckStates
               /\ checks'[c].at = checks[c].at /\ checks'[c].listed = checks[c].listed
               /\ checks'[c].answer = checks[c].answer /\ checks'[c].told = checks[c].told
               /\ \/ /\ checks'[c].cancelled = checks[c].cancelled
                     /\ checks'[c].stopped = checks[c].stopped
                  \/ checks'[c].stopped
    <3>1. CASE c \in S
      <4> DEFINE b == checks[c].cancelled \/ checks[c].listed
      <4>1. b \in BOOLEAN
        OBVIOUS
      <4>2. checks'[c] = [checks[c] EXCEPT !.cancelled = b, !.stopped = TRUE]
        BY <1>1, <1>9, <3>1 DEF Stop, CheckStates
      <4> HIDE DEF b
      <4>3. QED BY <1>1, <4>1, <4>2 DEF CheckStates
    <3>2. CASE c \notin S
      BY <1>1, <1>9, <3>2 DEF Stop
    <3>3. QED BY <3>1, <3>2
  <2>2. checks' \in [Checks -> CheckStates]
    <3>1. checks' = [c \in Checks |-> checks'[c]]
      BY <1>9 DEF Stop
    <3>2. QED BY <2>1, <3>1
  <2>3. \A c \in Checks : ToldInOrder(c)'
    BY <1>1, <1>9, <2>1 DEF ToldInOrder
  <2>4. QED BY <2>2, <2>3 DEF ChecksInv
<1>10. ASSUME NEW c \in Checks, ClosePage(c) PROVE ChecksInv'
  <2>1. closed \subseteq closed' /\ checks' = checks
    BY <1>10 DEF ClosePage
  <2>2. QED BY <1>1, <2>1 DEF ChecksInv, ToldInOrder
<1>11. CASE UNCHANGED updateVars
  BY <1>1, <1>11 DEF updateVars, ChecksInv, ToldInOrder
<1>12. CancelChecks => ChecksInv'
  BY <1>9 DEF CancelChecks
<1>13. ASSUME NEW c \in Checks, CancelCheck(c) PROVE ChecksInv'
  BY <1>9, <1>13 DEF CancelCheck
<1>14. QED
  BY <1>2, <1>3, <1>5, <1>6, <1>7, <1>8, <1>10, <1>11, <1>12, <1>13 DEF UpdateNext

\* At first no page has asked.
LEMMA ChecksStart == UpdateInit => ChecksInv
<1> SUFFICES ASSUME UpdateInit PROVE ChecksInv
  OBVIOUS
<1>1. <<>> \in Seq({"started", "outdated", "up_to_date", "failed", "cancelled"})
  OBVIOUS
<1>2. checks \in [Checks -> CheckStates]
  BY <1>1 DEF UpdateInit, CheckStates
<1>3. \A c \in Checks : ToldInOrder(c)
  BY DEF UpdateInit, ToldInOrder
<1>4. QED BY <1>2, <1>3 DEF ChecksInv

\* A page that stays hears how its check started and how it ended.
LEMMA ChecksAnswered == ChecksInv => ChecksAreAnswered
<1> SUFFICES ASSUME ChecksInv PROVE ChecksAreAnswered
  OBVIOUS
<1>1. ASSUME NEW c \in Checks, checks[c].at = "refused" PROVE checks[c].told = <<>>
  BY <1>1 DEF ChecksInv, CheckStates, ToldInOrder
<1>2. QED
  BY <1>1 DEF ChecksAreAnswered, ChecksInv, ToldInOrder

-----------------------------------------------------------------------------
\* A word that is sent: the page hears it or the wire stays as it was.
LEMMA SentIs ==
  ASSUME SupervisorTypes, NEW event \in {"ready", "failed", "scan"}, NEW value \in Nat,
         wire' = Emitted(event, value)
  PROVE  /\ wire' \in Seq(EventWords)
         /\ ~Hears(event) => wire' = wire
         /\ Hears(event) =>
              /\ Len(wire') = Len(wire) + 1
              /\ wire'[Len(wire) + 1].event = event /\ wire'[Len(wire) + 1].value = value
              /\ \A i \in 1..Len(wire) : wire'[i] = wire[i]
<1> DEFINE w == [event |-> event, value |-> value]
<1>1. w \in EventWords /\ wire \in Seq(EventWords)
  BY DEF EventWords, SupervisorTypes
<1>2. CASE Hears(event)
  <2>1. wire' = Append(wire, w)
    BY <1>2 DEF Emitted
  <2>2. w.event = event /\ w.value = value
    OBVIOUS
  <2> HIDE DEF w
  <2>3. QED BY <1>1, <1>2, <2>1, <2>2, OneWordMore
<1>3. CASE ~Hears(event)
  BY <1>1, <1>3 DEF Emitted
<1>4. QED BY <1>2, <1>3

\* Then that word is on its way, and those that were are.
LEMMA SentIsOnWire ==
  ASSUME SupervisorTypes, NEW event \in {"ready", "failed", "scan"}, NEW value \in Nat,
         wire' = Emitted(event, value)
  PROVE  \A e \in {"ready", "failed", "scan"} :
           OnWire(e)' <=> OnWire(e) \/ (Hears(event) /\ e = event)
<1>1. wire \in Seq(EventWords)
  BY DEF SupervisorTypes
<1>2. CASE Hears(event)
  <2>1. /\ Len(wire') = Len(wire) + 1 /\ Len(wire) \in Nat
        /\ wire'[Len(wire) + 1].event = event
        /\ \A i \in 1..Len(wire) : wire'[i] = wire[i]
    BY <1>1, <1>2, SentIs
  <2>2. QED BY <1>2, <2>1 DEF OnWire
<1>3. CASE ~Hears(event)
  BY <1>3, SentIs DEF OnWire
<1>4. QED BY <1>2, <1>3

\* The first word arrives and the others move up.
LEMMA FirstArrives ==
  ASSUME SupervisorTypes, Deliver
  PROVE  /\ wire' \in Seq(EventWords) /\ Len(wire) = Len(wire') + 1 /\ wire[1] \in EventWords
         /\ \A i \in 1..Len(wire') : wire'[i] = wire[i + 1]
         /\ \A e : OnWire(e) <=> OnWire(e)' \/ wire[1].event = e
<1>1. wire \in Seq(EventWords) /\ wire # <<>> /\ wire' = Tail(wire)
  BY DEF SupervisorTypes, Deliver
<1>2. /\ wire' \in Seq(EventWords) /\ Len(wire) = Len(wire') + 1 /\ wire[1] \in EventWords
      /\ Len(wire') \in Nat
      /\ \A i \in 1..Len(wire') : wire'[i] = wire[i + 1]
  BY <1>1
<1>3. ASSUME NEW e, OnWire(e) PROVE OnWire(e)' \/ wire[1].event = e
  <2>1. PICK i \in 1..Len(wire) : wire[i].event = e
    BY <1>3 DEF OnWire
  <2>2. CASE i = 1 BY <2>1, <2>2
  <2>3. CASE i # 1
    <3>1. i - 1 \in 1..Len(wire') /\ i = (i - 1) + 1
      BY <1>2, <2>3
    <3>2. wire'[i - 1].event = e
      BY <1>2, <2>1, <3>1
    <3>3. QED BY <3>1, <3>2 DEF OnWire
  <2>4. QED BY <2>2, <2>3
<1>4. ASSUME NEW e, OnWire(e)' PROVE OnWire(e)
  <2>1. PICK i \in 1..Len(wire') : wire'[i].event = e
    BY <1>4 DEF OnWire
  <2>2. i + 1 \in 1..Len(wire) /\ wire[i + 1].event = e
    BY <1>2, <2>1
  <2>3. QED BY <2>2 DEF OnWire
<1>5. ASSUME NEW e, wire[1].event = e PROVE OnWire(e)
  <2>1. 1 \in 1..Len(wire)
    BY <1>2
  <2>2. QED BY <1>5, <2>1 DEF OnWire
<1>6. QED BY <1>2, <1>3, <1>4, <1>5

\* The order in which the states are made and the tasks started.
LEMMA OrderIs ==
  /\ Len(Order) = 13
  /\ \A i \in 1..13 : (Order[i] = "gateway" <=> i = 11) /\ (Order[i] = "scanner" <=> i = 13)
  /\ Order[3] = "metrics" /\ Order[6] = "keys" /\ Order[8] = "pipelines" /\ Order[10] = "provider"
BY DEF Order

\* At first nothing is set up, sent or shown.
LEMMA SupervisorStarts == SupervisorInit => SupervisorInv
<1> SUFFICES ASSUME SupervisorInit PROVE SupervisorInv
  OBVIOUS
<1>1. wire = <<>> /\ Len(wire) = 0
  BY DEF SupervisorInit
<1>2. <<>> \in Seq(EventWords) /\ <<>> \in Seq(Nat \ {0})
  OBVIOUS
<1>3. gateway \in GatewayStates /\ page \in PageStates /\ scans \in ScanStates
  BY <1>2 DEF SupervisorInit, GatewayStates, PageStates, ScanStates, Statuses
<1>4. SupervisorTypes
  <2>1. ready \in 0..13 /\ exiting \in BOOLEAN /\ reply \in Statuses \cup {"none"}
    <3>1. ready = 0 /\ exiting = FALSE /\ reply = "none"
      BY DEF SupervisorInit
    <3>2. reply \in Statuses \cup {"none"}
      BY <3>1
    <3>3. ready \in 0..13
      BY <3>1
    <3>4. exiting \in BOOLEAN
      BY <3>1
    <3>5. QED BY <3>2, <3>3, <3>4
  <2>2. wire \in Seq(EventWords) /\ page.at # "asked"
    BY <1>1, <1>2 DEF SupervisorInit
  <2>3. QED BY <1>3, <2>1, <2>2 DEF SupervisorTypes
<1>5. BuiltInTime
  BY DEF SupervisorInit, BuiltInTime
<1>6. \A e : ~OnWire(e)
  BY <1>1 DEF OnWire
<1>7. ToldOfGateway
  BY <1>1, <1>6 DEF SupervisorInit, ToldOfGateway
<1>8. ToldOfScans
  BY <1>1, <1>6 DEF SupervisorInit, ToldOfScans, LastOnWire
<1>9. QED BY <1>4, <1>5, <1>7, <1>8 DEF SupervisorInv

\* The tasks of the gateway and of the scanner are started in their turn.
LEMMA SetupKeeps ==
  ASSUME SupervisorInv, SetupStep
  PROVE  SupervisorInv'
<1> USE DEF SupervisorInv
<1>1. /\ ready' = ready + 1 /\ ready \in 0..12
      /\ UNCHANGED <<guarded, exiting, wire, page, reply>>
  BY OrderIs DEF SetupStep, SetUp, SupervisorTypes
<1>2. gateway' = IF ready' = 11 THEN [gateway EXCEPT !.run = "bind"] ELSE gateway
  BY <1>1, OrderIs DEF SetupStep
<1>3. /\ gateway' \in GatewayStates /\ gateway'.status = gateway.status
      /\ gateway'.run = IF ready' = 11 THEN "bind" ELSE gateway.run
      /\ gateway'.port = gateway.port
  BY <1>2 DEF SupervisorTypes, GatewayStates
<1>4. /\ scans' \in ScanStates /\ scans'.hand = scans.hand /\ scans'.cache = scans.cache
  BY DEF SetupStep, SupervisorTypes, ScanStates
<1>5. ready' = 11 => gateway.run = "none"
  BY <1>1 DEF BuiltInTime
<1>6. SupervisorTypes'
  BY <1>1, <1>3, <1>4 DEF SupervisorTypes
<1>7. BuiltInTime'
  BY <1>1, <1>3 DEF BuiltInTime
<1>8. ToldOfGateway'
  BY <1>1, <1>3, <1>5 DEF ToldOfGateway, OnWire
<1>9. ToldOfScans'
  BY <1>1, <1>4 DEF ToldOfScans, LastOnWire, OnWire
<1>10. QED BY <1>6, <1>7, <1>8, <1>9

\* The states the router is built with are there when the gateway runs.
LEMMA AllGuards ==
  ASSUME SupervisorTypes, ready >= 11
  PROVE  Managed \cap Guards = Guards
<1>1. {3, 6, 8, 10} \subseteq 1..ready
  BY DEF SupervisorTypes
<1>2. QED BY <1>1, OrderIs DEF Managed, Guards

\* A step of the gateway that tells nobody: those who showed or awaited word of it
\* were told before, or will ask.
LEMMA GatewayKeeps ==
  ASSUME SupervisorInv,
         Bind \/ Listen \/ NoAddress \/ BuildRouter \/ ServeEnds \/ RequestExit
  PROVE  SupervisorInv'
<1> USE DEF SupervisorInv
<1>1. /\ UNCHANGED <<ready, wire, page, reply, scans>> /\ exiting' \in {exiting, TRUE}
      /\ gateway' \in GatewayStates /\ gateway \in GatewayStates
  <2>1. gateway \in GatewayStates
    BY DEF SupervisorTypes
  <2>2. CASE Bind BY <2>1, <2>2 DEF Bind, GatewayStates
  <2>3. CASE Listen BY <2>1, <2>3 DEF Listen, GatewayStates, Statuses
  <2>4. CASE NoAddress BY <2>1, <2>4 DEF NoAddress, GatewayStates
  <2>5. CASE BuildRouter BY <2>1, <2>5 DEF BuildRouter, GatewayStates
  <2>6. CASE ServeEnds BY <2>1, <2>6 DEF ServeEnds, GatewayStates
  <2>7. CASE RequestExit BY <2>1, <2>7 DEF RequestExit, GatewayStates, Statuses
  <2>8. QED BY <2>2, <2>3, <2>4, <2>5, <2>6, <2>7
<1>2. SupervisorTypes'
  BY <1>1 DEF SupervisorTypes
<1>3. ToldOfScans'
  BY <1>1 DEF ToldOfScans, LastOnWire, OnWire
<1>4. CASE Bind
  <2>1. /\ gateway.run = "bind" /\ gateway'.run = "bound" /\ gateway'.status = gateway.status
        /\ exiting' = exiting /\ guarded' = guarded
    BY <1>1, <1>4 DEF Bind, GatewayStates
  <2>2. QED BY <1>1, <1>2, <1>3, <2>1 DEF BuiltInTime, ToldOfGateway, OnWire
<1>5. CASE Listen
  <2>1. /\ gateway.run = "bound" /\ gateway'.run = "announce" /\ gateway'.status = "listening"
        /\ gateway'.port = 1 /\ exiting' = exiting /\ guarded' = guarded
    BY <1>1, <1>5 DEF Listen
  <2>2. QED BY <1>1, <1>2, <1>3, <2>1 DEF BuiltInTime, ToldOfGateway, OnWire
<1>6. CASE NoAddress
  <2>1. /\ gateway.run = "bound" /\ gateway'.run = "over" /\ gateway'.status = gateway.status
        /\ exiting' = exiting /\ guarded' = guarded
    BY <1>1, <1>6 DEF NoAddress, GatewayStates
  <2>2. QED BY <1>1, <1>2, <1>3, <2>1 DEF BuiltInTime, ToldOfGateway, OnWire
<1>7. CASE BuildRouter
  <2>1. /\ gateway.run = "build" /\ gateway'.run = "serve" /\ gateway'.status = gateway.status
        /\ gateway'.port = gateway.port
        /\ exiting' = exiting /\ guarded' = Managed \cap Guards
    BY <1>1, <1>7 DEF BuildRouter, GatewayStates, Guards
  <2>2. guarded' = Guards
    BY <2>1, AllGuards DEF BuiltInTime
  <2>3. QED BY <1>1, <1>2, <1>3, <2>1, <2>2 DEF BuiltInTime, ToldOfGateway, OnWire
<1>8. CASE ServeEnds
  <2>1. /\ gateway.run = "serve" /\ gateway'.run = "over" /\ exiting /\ exiting' = exiting
        /\ guarded' = guarded
    BY <1>1, <1>8 DEF ServeEnds, GatewayStates
  <2>2. QED BY <1>1, <1>2, <1>3, <2>1 DEF BuiltInTime, ToldOfGateway, OnWire
<1>9. CASE RequestExit
  <2>1. /\ gateway'.run = gateway.run /\ gateway'.status = "stopping"
        /\ gateway'.port = gateway.port /\ exiting' /\ guarded' = guarded
    BY <1>1, <1>9 DEF RequestExit, GatewayStates
  <2>2. QED BY <1>1, <1>2, <1>3, <2>1 DEF BuiltInTime, ToldOfGateway, OnWire
<1>10. QED BY <1>4, <1>5, <1>6, <1>7, <1>8, <1>9

\* Words on the gateway leave those on scans in their order.
LEMMA ScansStayInOrder ==
  ASSUME SupervisorInv, NEW event \in {"ready", "failed"}, NEW value \in Nat,
         wire' = Emitted(event, value), UNCHANGED <<page, scans>>
  PROVE  ToldOfScans'
<1> USE DEF SupervisorInv
<1>1. OnWire("scan")' <=> OnWire("scan")
  BY SentIsOnWire
<1>2. LastOnWire => LastOnWire'
  <2>1. CASE ~Hears(event)
    BY <2>1, SentIs DEF LastOnWire
  <2>2. CASE Hears(event)
    <3>1. /\ Len(wire') = Len(wire) + 1 /\ wire'[Len(wire) + 1].event = event
          /\ \A i \in 1..Len(wire) : wire'[i] = wire[i]
      BY <2>2, SentIs
    <3>2. Len(wire) \in Nat /\ event # "scan"
      BY DEF SupervisorTypes
    <3>3. ASSUME LastOnWire, NEW i \in 1..Len(wire'), wire'[i].event = "scan",
                 \A j \in (i + 1)..Len(wire') : wire'[j].event # "scan"
          PROVE  wire'[i].value = scans.cache
      <4>1. i \in 1..Len(wire) /\ wire'[i] = wire[i]
        BY <3>1, <3>2, <3>3
      <4>2. ASSUME NEW j \in (i + 1)..Len(wire) PROVE wire[j].event # "scan"
        <5>1. j \in 1..Len(wire) /\ j \in (i + 1)..Len(wire')
          BY <3>1, <3>2, <4>1
        <5>2. QED BY <3>1, <3>3, <5>1
      <4>3. QED BY <3>3, <4>1, <4>2 DEF LastOnWire
    <3>4. QED BY <3>3 DEF LastOnWire
  <2>3. QED BY <2>1, <2>2
<1>3. QED BY <1>1, <1>2 DEF ToldOfScans

\* The gateway says that it listens, or that it failed.
LEMMA AnnounceKeeps ==
  ASSUME SupervisorInv, Announce \/ (gateway.run \in {"bind", "serve"} /\ Fail)
  PROVE  SupervisorInv'
<1> USE DEF SupervisorInv
<1>1. UNCHANGED <<ready, guarded, exiting, page, reply, scans>>
  BY DEF Announce, Fail
<1>2. CASE Announce
  <2>1. /\ gateway.run = "announce" /\ gateway'.run = "build" /\ gateway' \in GatewayStates
        /\ gateway'.status = gateway.status /\ gateway'.port = gateway.port
        /\ gateway.port = 1 /\ wire' = Emitted("ready", 1)
    BY <1>2 DEF Announce, SupervisorTypes, GatewayStates, ToldOfGateway
  <2>2. wire' \in Seq(EventWords)
    BY <2>1, SentIs
  <2>3. \A e \in {"ready", "failed", "scan"} :
          OnWire(e)' <=> OnWire(e) \/ (Hears("ready") /\ e = "ready")
    BY <2>1, SentIsOnWire
  <2>4. \A i \in 1..Len(wire') : wire'[i].event = "ready" => wire'[i].value = 1
    <3>1. Len(wire) \in Nat
      BY DEF SupervisorTypes
    <3>2. CASE Hears("ready")
      BY <2>1, <3>1, <3>2, SentIs DEF ToldOfGateway
    <3>3. CASE ~Hears("ready")
      BY <2>1, <3>3, SentIs DEF ToldOfGateway
    <3>4. QED BY <3>2, <3>3
  <2>5. Hears("ready") <=> page.at # "load"
    BY DEF Hears
  <2>6. SupervisorTypes'
    BY <1>1, <2>1, <2>2 DEF SupervisorTypes
  <2>7. BuiltInTime'
    BY <1>1, <2>1 DEF BuiltInTime
  <2>8. ToldOfGateway'
    BY <1>1, <2>1, <2>3, <2>4, <2>5 DEF ToldOfGateway
  <2>9. ToldOfScans'
    BY <1>1, <2>1, ScansStayInOrder
  <2>10. QED BY <2>6, <2>7, <2>8, <2>9
<1>3. CASE gateway.run \in {"bind", "serve"} /\ Fail
  <2>1. /\ gateway'.run = "over" /\ gateway' \in GatewayStates /\ gateway'.status = "failed"
        /\ wire' = Emitted("failed", 0)
    BY <1>3 DEF Fail, SupervisorTypes, GatewayStates, Statuses
  <2>2. wire' \in Seq(EventWords)
    BY <2>1, SentIs
  <2>3. \A e \in {"ready", "failed", "scan"} :
          OnWire(e)' <=> OnWire(e) \/ (Hears("failed") /\ e = "failed")
    BY <2>1, SentIsOnWire
  <2>4. \A i \in 1..Len(wire') : wire'[i].event = "ready" => wire'[i].value = 1
    <3>1. Len(wire) \in Nat
      BY DEF SupervisorTypes
    <3>2. CASE Hears("failed")
      BY <2>1, <3>1, <3>2, SentIs DEF ToldOfGateway
    <3>3. CASE ~Hears("failed")
      BY <2>1, <3>3, SentIs DEF ToldOfGateway
    <3>4. QED BY <3>2, <3>3
  <2>5. Hears("failed") <=> page.at \notin {"load", "ready"}
    BY DEF Hears
  <2>6. SupervisorTypes'
    BY <1>1, <2>1, <2>2 DEF SupervisorTypes
  <2>7. BuiltInTime'
    BY <1>1, <1>3, <2>1 DEF BuiltInTime
  <2>8. ToldOfGateway'
    BY <1>1, <2>1, <2>3, <2>4, <2>5 DEF ToldOfGateway
  <2>9. ToldOfScans'
    BY <1>1, <2>1, ScansStayInOrder
  <2>10. QED BY <2>6, <2>7, <2>8, <2>9
<1>4. QED BY <1>2, <1>3

\* The scanner works, and a result is kept before the page is told.
LEMMA ScansKeep ==
  ASSUME SupervisorInv,
         MountScanner \/ Subscribe \/ BeginScan \/ EndScan \/ KeepScan
  PROVE  SupervisorInv'
<1> USE DEF SupervisorInv
<1>1. UNCHANGED <<ready, gateway, guarded, exiting, wire, page, reply>>
  BY DEF MountScanner, Subscribe, BeginScan, EndScan, KeepScan
<1>2. scans \in ScanStates
  BY DEF SupervisorTypes
<1>3. /\ scans' \in ScanStates
      /\ scans'.hand # 0 => scans'.hand = scans'.cache
      /\ scans'.hand = 0 => scans.hand = 0 /\ scans'.cache = scans.cache
  <2>1. CASE MountScanner \/ Subscribe \/ BeginScan
    <3>1. scans' \in ScanStates /\ scans'.hand = scans.hand /\ scans'.cache = scans.cache
      BY <1>2, <2>1 DEF MountScanner, Subscribe, BeginScan, ScanStates
    <3>2. QED BY <3>1 DEF ToldOfScans
  <2>2. CASE EndScan
    <3>1. scans' \in ScanStates /\ scans'.hand = scans.hand /\ scans'.cache = scans.cache
      <4> DEFINE n == scans.ended + 1
      <4>1. n \in Nat \ {0} /\ scans.queue \in Seq(Nat \ {0})
        BY <1>2 DEF ScanStates
      <4>2. Append(scans.queue, n) \in Seq(Nat \ {0}) /\ <<>> \in Seq(Nat \ {0})
        BY <4>1, OneWordMore
      <4> HIDE DEF n
      <4>3. PICK q \in Seq(Nat \ {0}), t \in {scans.task, "lagged"}, m \in {n, scans.ended} :
              scans' = [scans EXCEPT !.busy = FALSE, !.ended = m, !.queue = q, !.task = t]
        <5>1. CASE scans' = [scans EXCEPT !.busy = FALSE]
          BY <1>2, <4>1, <5>1 DEF ScanStates
        <5>2. CASE scans' = [scans EXCEPT !.busy = FALSE, !.ended = n]
          BY <1>2, <4>1, <5>2 DEF ScanStates
        <5>3. CASE scans' = [scans EXCEPT !.busy = FALSE, !.ended = n, !.queue = Append(@, n)]
          BY <1>2, <4>1, <4>2, <5>3 DEF ScanStates
        <5>4. CASE scans' = [scans EXCEPT !.busy = FALSE, !.ended = n, !.task = "lagged",
                                          !.queue = <<>>]
          BY <1>2, <4>1, <4>2, <5>4 DEF ScanStates
        <5>5. QED BY <2>2, <5>1, <5>2, <5>3, <5>4 DEF EndScan, n
      <4>4. QED BY <1>2, <4>1, <4>3 DEF ScanStates
    <3>2. QED BY <3>1 DEF ToldOfScans
  <2>3. CASE KeepScan
    <3> DEFINE h == Head(scans.queue)
    <3>1. scans.queue \in Seq(Nat \ {0}) /\ scans.queue # <<>>
      BY <1>2, <2>3 DEF KeepScan, ScanStates
    <3>2. h \in Nat \ {0} /\ Tail(scans.queue) \in Seq(Nat \ {0})
      BY <3>1
    <3>3. scans' = [scans EXCEPT !.hand = h, !.queue = Tail(scans.queue), !.cache = h]
      BY <1>2, <2>3 DEF KeepScan, ScanStates
    <3> HIDE DEF h
    <3>4. QED BY <1>2, <3>2, <3>3 DEF ScanStates
  <2>4. QED BY <2>1, <2>2, <2>3
<1>4. SupervisorTypes'
  BY <1>1, <1>3 DEF SupervisorTypes
<1>5. BuiltInTime' /\ ToldOfGateway'
  BY <1>1 DEF BuiltInTime, ToldOfGateway, OnWire
<1>6. ToldOfScans'
  BY <1>1, <1>3 DEF ToldOfScans, LastOnWire, OnWire
<1>7. QED BY <1>4, <1>5, <1>6

\* The page is told of a result, or misses it before it listens.
LEMMA TellKeeps ==
  ASSUME SupervisorInv, TellScan
  PROVE  SupervisorInv'
<1> USE DEF SupervisorInv
<1>1. UNCHANGED <<ready, gateway, guarded, exiting, reply>>
  BY DEF TellScan
<1>2. /\ scans.hand \in Nat \ {0} /\ scans.hand = scans.cache
      /\ wire' = Emitted("scan", scans.hand)
  BY DEF TellScan, SupervisorTypes, ScanStates, ToldOfScans
<1>3. scans' \in ScanStates /\ scans'.hand = 0 /\ scans'.cache = scans.cache
  BY DEF TellScan, SupervisorTypes, ScanStates
<1>4. /\ page' \in PageStates /\ page'.at = page.at /\ page'.status = page.status
      /\ page'.port = page.port /\ page'.late = page.late /\ page'.scan = page.scan
      /\ page'.missed = IF Hears("scan") THEN page.missed ELSE scans.hand
  BY <1>2 DEF TellScan, SupervisorTypes, PageStates
<1>5. Hears("scan") <=> page.at = "up"
  BY DEF Hears
<1>6. wire' \in Seq(EventWords) /\ Len(wire) \in Nat
  BY <1>2, SentIs DEF SupervisorTypes
<1>7. \A e \in {"ready", "failed", "scan"} :
        OnWire(e)' <=> OnWire(e) \/ (Hears("scan") /\ e = "scan")
  BY <1>2, SentIsOnWire
<1>8. CASE Hears("scan")
  <2>1. /\ Len(wire') = Len(wire) + 1
        /\ wire'[Len(wire) + 1].event = "scan" /\ wire'[Len(wire) + 1].value = scans.hand
        /\ \A i \in 1..Len(wire) : wire'[i] = wire[i]
    BY <1>2, <1>8, SentIs
  <2>2. \A i \in 1..Len(wire') : wire'[i].event = "ready" => wire'[i].value = 1
    BY <1>6, <2>1 DEF ToldOfGateway
  <2>3. ASSUME NEW i \in 1..Len(wire'),
               \A j \in (i + 1)..Len(wire') : wire'[j].event # "scan"
        PROVE  wire'[i].value = scans.cache
    <3>1. i = Len(wire) + 1
      BY <1>6, <2>1, <2>3
    <3>2. QED BY <1>2, <2>1, <3>1
  <2>4. LastOnWire'
    BY <1>3, <2>3 DEF LastOnWire
  <2>5. SupervisorTypes'
    BY <1>1, <1>3, <1>4, <1>6 DEF SupervisorTypes
  <2>6. BuiltInTime'
    BY <1>1 DEF BuiltInTime
  <2>7. ToldOfGateway'
    BY <1>1, <1>4, <1>7, <2>2 DEF ToldOfGateway
  <2>8. ToldOfScans'
    BY <1>3, <1>4, <1>5, <1>7, <1>8, <2>4 DEF ToldOfScans
  <2>9. QED BY <2>5, <2>6, <2>7, <2>8
<1>9. CASE ~Hears("scan")
  <2>1. wire' = wire
    BY <1>2, <1>9, SentIs
  <2>2. SupervisorTypes'
    BY <1>1, <1>3, <1>4, <1>6 DEF SupervisorTypes
  <2>3. BuiltInTime'
    BY <1>1 DEF BuiltInTime
  <2>4. ToldOfGateway'
    BY <1>1, <1>4, <2>1 DEF ToldOfGateway, OnWire
  <2>5. ~OnWire("scan") /\ ~OnWire("scan")'
    BY <1>5, <1>7, <1>9 DEF ToldOfScans
  <2>6. LastOnWire'
    BY <2>5 DEF OnWire, LastOnWire
  <2>7. ToldOfScans'
    BY <1>2, <1>3, <1>4, <1>9, <2>5, <2>6 DEF ToldOfScans
  <2>8. QED BY <2>2, <2>3, <2>4, <2>7
<1>10. QED BY <1>8, <1>9

\* The page goes on: what it has heard stays, and what it asks for is the state of
\* the moment.
LEMMA PageKeeps ==
  ASSUME SupervisorInv,
         ListenReady \/ ListenFailed \/ AskStatus \/ ShowStatus \/ ShowLastScan \/ ListenScans
  PROVE  SupervisorInv'
<1> USE DEF SupervisorInv
<1>1. UNCHANGED <<ready, gateway, guarded, exiting, wire, scans>>
  BY DEF ListenReady, ListenFailed, AskStatus, ShowStatus, ShowLastScan, ListenScans
<1>2. page \in PageStates /\ reply \in Statuses \cup {"none"} /\ gateway \in GatewayStates
  BY DEF SupervisorTypes
<1>3. BuiltInTime'
  BY <1>1 DEF BuiltInTime
<1>4. \A e : OnWire(e)' <=> OnWire(e)
  BY <1>1 DEF OnWire
<1>5. LastOnWire' <=> LastOnWire
  BY <1>1 DEF LastOnWire
<1>6. CASE ListenReady \/ ListenFailed \/ ListenScans
  <2>1. /\ page' \in PageStates /\ reply' = reply
        /\ page'.status = page.status /\ page'.port = page.port /\ page'.late = page.late
        /\ page'.scan = page.scan /\ page'.missed = page.missed
        /\ \/ page.at \in {"load", "ready"} /\ page'.at \in {"ready", "failed"}
           \/ page.at = "scanned" /\ page'.at = "up"
    BY <1>2, <1>6 DEF ListenReady, ListenFailed, ListenScans, PageTo, PageStates
  <2>2. SupervisorTypes'
    BY <1>1, <2>1 DEF SupervisorTypes
  <2>3. ToldOfGateway'
    BY <1>1, <1>4, <2>1 DEF ToldOfGateway
  <2>4. ToldOfScans'
    BY <1>1, <1>4, <1>5, <2>1 DEF ToldOfScans
  <2>5. QED BY <1>3, <2>2, <2>3, <2>4
<1>7. CASE AskStatus
  <2>1. /\ page' \in PageStates /\ reply' = gateway.status /\ page.at = "failed"
        /\ page'.at = "asked"
        /\ page'.status = page.status /\ page'.port = page.port /\ page'.late = page.late
        /\ page'.scan = page.scan /\ page'.missed = page.missed
    BY <1>2, <1>7 DEF AskStatus, PageTo, PageStates
  <2>2. SupervisorTypes'
    <3>1. gateway.status \in Statuses /\ "none" \notin Statuses
      BY <1>2 DEF GatewayStates, Statuses
    <3>2. QED BY <1>1, <2>1, <3>1 DEF SupervisorTypes
  <2>3. ToldOfGateway'
    BY <1>1, <1>4, <2>1 DEF ToldOfGateway
  <2>4. ToldOfScans'
    BY <1>1, <1>4, <1>5, <2>1 DEF ToldOfScans
  <2>5. QED BY <1>3, <2>2, <2>3, <2>4
<1>8. CASE ShowStatus
  <2> DEFINE lateNow == page.late \/ reply = "failed"
             new == page.late \/ (page.status = "failed" /\ reply # "failed")
             port == IF reply = "listening" THEN 1 ELSE 0
  <2>1. /\ lateNow \in BOOLEAN /\ new \in BOOLEAN /\ port \in Nat /\ reply \in Statuses
        /\ page.at = "asked"
    BY <1>8 DEF ShowStatus, SupervisorTypes
  <2>2. /\ reply' = "none"
        /\ page' = IF page.status = "listening"
                   THEN [page EXCEPT !.at = "status", !.late = lateNow]
                   ELSE [page EXCEPT !.at = "status", !.status = reply, !.port = port,
                                     !.late = new]
    BY <1>2, <1>8 DEF ShowStatus, PageStates
  <2>3. (lateNow <=> page.late \/ reply = "failed") /\ (reply = "listening" => port = 1)
    OBVIOUS
  <2>4. new <=> page.late \/ (page.status = "failed" /\ reply # "failed")
    OBVIOUS
  <2> HIDE DEF lateNow, new, port
  <2>5. /\ page' \in PageStates /\ page'.at = "status"
        /\ page'.scan = page.scan /\ page'.missed = page.missed
        /\ page.status = "listening" =>
             page'.status = "listening" /\ page'.port = page.port /\ page'.late = lateNow
        /\ page.status # "listening" =>
             page'.status = reply /\ page'.port = port /\ page'.late = new
    <3>1. CASE page.status = "listening"
      BY <1>2, <2>1, <2>2, <3>1 DEF PageStates
    <3>2. CASE page.status # "listening"
      BY <1>2, <2>1, <2>2, <3>2 DEF PageStates
    <3>3. QED BY <3>1, <3>2
  <2>6. SupervisorTypes'
    BY <1>1, <2>2, <2>5 DEF SupervisorTypes
  <2>7. ToldOfScans'
    BY <1>1, <1>4, <1>5, <2>1, <2>5 DEF ToldOfScans
  <2>8. ToldOfGateway'
    <3>1. CASE page.status = "listening"
      BY <1>1, <1>4, <2>1, <2>2, <2>3, <2>5, <3>1 DEF ToldOfGateway
    <3>2. CASE page.status # "listening"
      BY <1>1, <1>4, <2>1, <2>2, <2>3, <2>4, <2>5, <3>2 DEF ToldOfGateway
    <3>3. QED BY <3>1, <3>2
  <2>9. QED BY <1>3, <2>6, <2>7, <2>8
<1>9. CASE ShowLastScan
  <2>1. /\ page' \in PageStates /\ reply' = reply /\ page.at = "status"
        /\ page'.at = "scanned"
        /\ page'.status = page.status /\ page'.port = page.port /\ page'.late = page.late
        /\ page'.scan = (IF scans.cache # 0 THEN scans.cache ELSE page.scan)
        /\ page'.missed = 0
    BY <1>2, <1>9 DEF ShowLastScan, PageStates, SupervisorTypes, ScanStates
  <2>2. SupervisorTypes'
    BY <1>1, <2>1 DEF SupervisorTypes
  <2>3. ToldOfGateway'
    BY <1>1, <1>4, <2>1 DEF ToldOfGateway
  <2>4. ToldOfScans'
    BY <1>1, <1>4, <1>5, <2>1 DEF ToldOfScans
  <2>5. QED BY <1>3, <2>2, <2>3, <2>4
<1>10. QED BY <1>6, <1>7, <1>8, <1>9

\* A word arrives: the page shows it, or notes that an older one came after a newer.
LEMMA DeliverKeeps ==
  ASSUME SupervisorInv, Deliver
  PROVE  SupervisorInv'
<1> USE DEF SupervisorInv
<1> DEFINE e == wire[1]
<1>1. UNCHANGED <<ready, gateway, guarded, exiting, reply, scans>>
  BY DEF Deliver
<1>2. /\ wire' \in Seq(EventWords) /\ Len(wire) = Len(wire') + 1 /\ e \in EventWords
      /\ Len(wire') \in Nat
      /\ \A i \in 1..Len(wire') : wire'[i] = wire[i + 1]
      /\ \A x : OnWire(x) <=> OnWire(x)' \/ e.event = x
  BY FirstArrives
<1>3. page \in PageStates /\ e = Head(wire)
  BY DEF SupervisorTypes, Deliver
<1>4. BuiltInTime'
  BY <1>1 DEF BuiltInTime
<1>5. \A i \in 1..Len(wire') : wire'[i].event = "ready" => wire'[i].value = 1
  <2> SUFFICES ASSUME NEW i \in 1..Len(wire'), wire'[i].event = "ready"
               PROVE  wire'[i].value = 1
    OBVIOUS
  <2>1. i + 1 \in 1..Len(wire) /\ wire'[i] = wire[i + 1]
    BY <1>2
  <2>2. QED BY <2>1 DEF ToldOfGateway
<1>6. 1 \in 1..Len(wire)
  BY <1>2
<1>7. e.event = "ready" => e.value = 1
  BY <1>6 DEF ToldOfGateway
<1>8. LastOnWire => LastOnWire'
  <2> SUFFICES ASSUME LastOnWire, NEW i \in 1..Len(wire'), wire'[i].event = "scan",
                      \A j \in (i + 1)..Len(wire') : wire'[j].event # "scan"
               PROVE  wire'[i].value = scans.cache
    BY <1>1 DEF LastOnWire
  <2>1. i + 1 \in 1..Len(wire) /\ wire'[i] = wire[i + 1]
    BY <1>2
  <2>2. ASSUME NEW j \in (i + 2)..Len(wire) PROVE wire[j].event # "scan"
    <3>1. j - 1 \in (i + 1)..Len(wire') /\ j - 1 \in 1..Len(wire') /\ (j - 1) + 1 = j
      BY <1>2
    <3>2. wire'[j - 1] = wire[j]
      BY <1>2, <3>1
    <3>3. QED BY <3>1, <3>2
  <2>3. (i + 1) + 1 = i + 2
    OBVIOUS
  <2>4. QED BY <2>1, <2>2, <2>3 DEF LastOnWire
<1>9. CASE e.event \in {"ready", "failed"}
  <2> DEFINE late == page.late \/ page.status = "failed"
  <2>1. late \in BOOLEAN /\ (late <=> page.late \/ page.status = "failed")
    OBVIOUS
  <2>2. page' = IF e.event = "ready"
                THEN [page EXCEPT !.status = "listening", !.port = e.value, !.late = late]
                ELSE [page EXCEPT !.status = "failed"]
    BY <1>3, <1>9 DEF Deliver, PageStates
  <2> HIDE DEF e, late
  <2>3. /\ page' \in PageStates /\ page'.at = page.at
        /\ page'.scan = page.scan /\ page'.missed = page.missed
        /\ e.event = "ready" =>
             page'.status = "listening" /\ page'.port = 1 /\ page'.late = late
        /\ e.event = "failed" =>
             page'.status = "failed" /\ page'.late = page.late
    <3>1. CASE e.event = "ready"
      <4>1. page' = [page EXCEPT !.status = "listening", !.port = 1, !.late = late]
        BY <1>7, <2>2, <3>1
      <4>2. QED BY <1>3, <2>1, <3>1, <4>1 DEF PageStates, Statuses
    <3>2. CASE e.event = "failed"
      BY <1>3, <2>2, <3>2 DEF PageStates, Statuses
    <3>3. QED BY <1>9, <3>1, <3>2
  <2>4. SupervisorTypes'
    BY <1>1, <1>2, <2>3 DEF SupervisorTypes
  <2>5. OnWire("scan")' <=> OnWire("scan")
    BY <1>2, <1>9
  <2>6. ToldOfScans'
    BY <1>1, <1>8, <2>3, <2>5 DEF ToldOfScans
  <2>7. ToldOfGateway'
    <3>1. CASE e.event = "ready"
      BY <1>1, <1>2, <1>5, <2>1, <2>3, <3>1 DEF ToldOfGateway
    <3>2. CASE e.event = "failed"
      <4>1. OnWire("failed") /\ gateway.run = "over"
        BY <1>2, <3>2 DEF ToldOfGateway
      <4>2. QED BY <1>1, <1>2, <1>5, <2>3, <3>2, <4>1 DEF ToldOfGateway
    <3>3. QED BY <1>9, <3>1, <3>2
  <2>8. QED BY <1>4, <2>4, <2>6, <2>7
<1>10. CASE e.event = "scan"
  <2>1. page' = [page EXCEPT !.scan = e.value, !.missed = 0]
    BY <1>3, <1>10 DEF Deliver
  <2>2. e.value \in Nat /\ OnWire("scan")
    BY <1>2, <1>10 DEF EventWords
  <2> HIDE DEF e
  <2>3. /\ page' \in PageStates /\ page'.at = page.at /\ page'.scan = e.value
        /\ page'.status = page.status /\ page'.port = page.port /\ page'.late = page.late
    BY <1>3, <2>1, <2>2 DEF PageStates
  <2>4. SupervisorTypes'
    BY <1>1, <1>2, <2>3 DEF SupervisorTypes
  <2>5. ASSUME LastOnWire, ~OnWire("scan")' PROVE e.value = scans.cache
    <3>1. ASSUME NEW j \in 2..Len(wire) PROVE wire[j].event # "scan"
      <4>1. j - 1 \in 1..Len(wire') /\ (j - 1) + 1 = j
        BY <1>2
      <4>2. wire'[j - 1] = wire[j]
        BY <1>2, <4>1
      <4>3. QED BY <2>5, <4>1, <4>2 DEF OnWire
    <3>2. 1 + 1 = 2
      OBVIOUS
    <3>3. QED BY <1>6, <1>10, <2>5, <3>1, <3>2 DEF LastOnWire, e
  <2>6. page.at = "up"
    BY <2>2 DEF ToldOfScans
  <2>7. ToldOfScans'
    BY <1>1, <1>8, <2>3, <2>5, <2>6 DEF ToldOfScans
  <2>8. ToldOfGateway'
    BY <1>1, <1>2, <1>5, <1>10, <2>3 DEF ToldOfGateway
  <2>9. QED BY <1>4, <2>4, <2>7, <2>8
<1>11. QED BY <1>2, <1>9, <1>10 DEF EventWords

\* What the pages show agrees with what has happened, however tasks, events and
\* answers overtake each other: for every number of scans and checks, and every
\* number of results that the scanner keeps for a slow receiver.
THEOREM PagesAreRight == SupervisorSpec /\ UpdateSpec => []PagesAreTold
<1>1. SupervisorInv /\ [SupervisorNext]_supervisorVars => SupervisorInv'
  <2> SUFFICES ASSUME SupervisorInv, [SupervisorNext]_supervisorVars PROVE SupervisorInv'
    OBVIOUS
  <2>1. CASE UNCHANGED supervisorVars
    BY <2>1
    DEF supervisorVars, SupervisorInv, SupervisorTypes, BuiltInTime, ToldOfGateway,
        ToldOfScans, LastOnWire, OnWire
  <2>2. BindFails \/ ServeFails => SupervisorInv'
    BY AnnounceKeeps DEF BindFails, ServeFails
  <2>3. QED
    BY <2>1, <2>2, SetupKeeps, GatewayKeeps, AnnounceKeeps, ScansKeep, TellKeeps, PageKeeps,
       DeliverKeeps
    DEF SupervisorNext
<1>2. SupervisorInv => ServesGuarded /\ ListeningIsShown /\ ScansAreShown
  <2> SUFFICES ASSUME SupervisorInv PROVE ServesGuarded /\ ListeningIsShown /\ ScansAreShown
    OBVIOUS
  <2> USE DEF SupervisorInv
  <2>1. Cardinality(Guards) = 4
    <3>1. Guards = ((({} \cup {"keys"}) \cup {"pipelines"}) \cup {"provider"}) \cup {"metrics"}
      BY DEF Guards
    <3>2. Cardinality({} \cup {"keys"}) = 1 /\ IsFiniteSet({} \cup {"keys"})
      BY FS_EmptySet, FS_AddElement
    <3>3. /\ Cardinality(({} \cup {"keys"}) \cup {"pipelines"}) = 2
          /\ IsFiniteSet(({} \cup {"keys"}) \cup {"pipelines"})
      BY <3>2, FS_AddElement
    <3>4. /\ Cardinality((({} \cup {"keys"}) \cup {"pipelines"}) \cup {"provider"}) = 3
          /\ IsFiniteSet((({} \cup {"keys"}) \cup {"pipelines"}) \cup {"provider"})
      BY <3>3, FS_AddElement
    <3>5. QED BY <3>1, <3>4, FS_AddElement
  <2>2. ServesGuarded
    BY <2>1 DEF ServesGuarded, BuiltInTime
  <2>3. wire = <<>> => \A e : ~OnWire(e)
    BY DEF OnWire
  <2>4. ListeningIsShown
    BY <2>3 DEF ListeningIsShown, Settled, ToldOfGateway
  <2>5. ScansAreShown
    BY <2>3 DEF ScansAreShown, Settled, ToldOfScans
  <2>6. QED BY <2>2, <2>4, <2>5
<1>3. SupervisorSpec => []SupervisorInv
  BY <1>1, SupervisorStarts, PTL DEF SupervisorSpec
<1>4. UpdateSpec => []ChecksInv
  BY ChecksStart, ChecksStep, PTL DEF UpdateSpec
<1>5. SupervisorInv /\ ChecksInv => PagesAreTold
  BY <1>2, ChecksAnswered DEF PagesAreTold
<1>6. QED BY <1>3, <1>4, <1>5, PTL

-----------------------------------------------------------------------------
(***************************************************************************)
(* What the desktop reports of itself (Telemetry).                         *)
(***************************************************************************)
Stages == {"none", "submitted", "accepted", "to_queue", "to_keep", "post", "sent",
           "queued", "retained", "refused", "lost"}

TelemetryTypes ==
  /\ dsn \in {"none", "bad", "good"}
  /\ stage \in [Events -> Stages]
  /\ attempt \in [Events -> Nat] /\ received \in [Events -> Nat]
  /\ queue \in Seq(Events) /\ enqueued \in Seq(Events)
  /\ aged \in SUBSET Events

\* The posts of an event, by how far it is.
PostsAreCounted ==
  \A e \in Events :
    /\ attempt[e] <= MaxPosts /\ received[e] <= attempt[e]
    /\ stage[e] \in {"none", "submitted", "accepted", "to_queue", "queued", "refused", "lost"} =>
         attempt[e] = 0
    /\ stage[e] = "post" => dsn = "good" /\ attempt[e] < MaxPosts
    /\ stage[e] = "sent" => received[e] > 0
    /\ dsn # "good" => received[e] = 0

\* Every event is enqueued once, when it is told to be.
EnqueuedOnce ==
  /\ \A i \in 1..Len(enqueued) : stage[enqueued[i]] \in {"queued", "retained"}
  /\ \A i, j \in 1..Len(enqueued) : enqueued[i] = enqueued[j] => i = j

\* What is in the queue was enqueued in this order, and as much after it as is
\* behind it in the queue; the latest events are there.
Queues(q, l) ==
  /\ Len(q) <= QueueCap
  /\ \E g : Places(q, l, Len(l), g)
LatestAreThere(q, l) ==
  \A i \in 1..Len(l) : i + QueueCap > Len(l) => l[i] \in ToSet(q) \cup aged

TelemetryInv ==
  /\ TelemetryTypes /\ PostsAreCounted /\ EnqueuedOnce
  /\ Queues(queue, enqueued) /\ LatestAreThere(queue, enqueued)

\* A step of one event that leaves the queue alone.
Moves(e, s) ==
  /\ stage' = [stage EXCEPT ![e] = s]
  /\ UNCHANGED <<dsn, queue, enqueued, aged>>

\* The stage an event comes from and what its posts come to are told by the action.
LEMMA CountedInStep ==
  ASSUME TelemetryTypes, PostsAreCounted, NEW e \in Events, NEW s \in Stages,
         stage' = [stage EXCEPT ![e] = s], dsn' = dsn,
         NEW a \in Nat, NEW r \in Nat,
         attempt' = [attempt EXCEPT ![e] = a], received' = [received EXCEPT ![e] = r],
         a <= MaxPosts, r <= a,
         s \in {"none", "submitted", "accepted", "to_queue", "queued", "refused", "lost"} => a = 0,
         s = "post" => dsn = "good" /\ a < MaxPosts,
         s = "sent" => r > 0, dsn # "good" => r = 0
  PROVE  /\ PostsAreCounted'
         /\ stage' \in [Events -> Stages] /\ dsn' \in {"none", "bad", "good"}
         /\ attempt' \in [Events -> Nat] /\ received' \in [Events -> Nat]
<1> USE DEF TelemetryTypes
<1>1. /\ stage'[e] = s /\ attempt'[e] = a /\ received'[e] = r
      /\ \A o \in Events \ {e} : stage'[o] = stage[o] /\ attempt'[o] = attempt[o]
                                 /\ received'[o] = received[o]
  OBVIOUS
<1>2. PostsAreCounted'
  BY <1>1 DEF PostsAreCounted
<1>3. QED BY <1>2

\* A step of one event that posts nothing.
LEMMA CountedInMove ==
  ASSUME TelemetryTypes, PostsAreCounted, NEW e \in Events, NEW s \in Stages,
         stage' = [stage EXCEPT ![e] = s], dsn' = dsn, UNCHANGED <<attempt, received>>,
         s \in {"none", "submitted", "accepted", "to_queue", "queued", "refused", "lost"} =>
           attempt[e] = 0,
         s = "post" => dsn = "good" /\ attempt[e] < MaxPosts,
         s # "sent"
  PROVE  /\ PostsAreCounted'
         /\ stage' \in [Events -> Stages] /\ dsn' \in {"none", "bad", "good"}
         /\ attempt' \in [Events -> Nat] /\ received' \in [Events -> Nat]
<1>1. /\ attempt[e] \in Nat /\ received[e] \in Nat
      /\ attempt' = [attempt EXCEPT ![e] = attempt[e]]
      /\ received' = [received EXCEPT ![e] = received[e]]
  BY DEF TelemetryTypes
<1>2. /\ attempt[e] <= MaxPosts /\ received[e] <= attempt[e] /\ (dsn # "good" => received[e] = 0)
  BY DEF PostsAreCounted
<1>3. QED BY <1>1, <1>2, CountedInStep

\* The queue is as it was, and so is everything that is enqueued.
LEMMA QueueAlone ==
  ASSUME TelemetryInv, NEW e \in Events, NEW s \in Stages, stage[e] \notin {"queued", "retained"},
         Moves(e, s)
  PROVE  /\ EnqueuedOnce' /\ Queues(queue, enqueued)' /\ LatestAreThere(queue, enqueued)'
         /\ queue' \in Seq(Events) /\ enqueued' \in Seq(Events) /\ aged' \in SUBSET Events
<1> USE DEF TelemetryInv, TelemetryTypes, Moves
<1>1. \A i \in 1..Len(enqueued) : enqueued[i] \in Events
  OBVIOUS
<1>2. EnqueuedOnce'
  BY <1>1 DEF EnqueuedOnce
<1>3. Queues(queue, enqueued)' /\ LatestAreThere(queue, enqueued)'
  BY DEF Queues, LatestAreThere
<1>4. QED BY <1>2, <1>3

\* A step of one event that posts nothing and leaves the queue alone.
LEMMA InvInMove ==
  ASSUME TelemetryInv, NEW e \in Events, NEW s \in Stages, stage[e] \notin {"queued", "retained"},
         Moves(e, s), UNCHANGED <<attempt, received>>,
         s \in {"none", "submitted", "accepted", "to_queue", "queued", "refused", "lost"} =>
           attempt[e] = 0,
         s = "post" => dsn = "good" /\ attempt[e] < MaxPosts,
         s # "sent"
  PROVE  TelemetryInv'
<1>1. stage' = [stage EXCEPT ![e] = s] /\ dsn' = dsn
  BY DEF Moves
<1>2. /\ PostsAreCounted'
      /\ stage' \in [Events -> Stages] /\ dsn' \in {"none", "bad", "good"}
      /\ attempt' \in [Events -> Nat] /\ received' \in [Events -> Nat]
  BY <1>1, CountedInMove DEF TelemetryInv
<1>3. QED BY <1>2, QueueAlone DEF TelemetryInv, TelemetryTypes

\* A post that is over.
LEMMA InvInPost ==
  ASSUME TelemetryInv, NEW e \in Events, NEW s \in Stages, stage[e] = "post", Moves(e, s),
         attempt' = [attempt EXCEPT ![e] = attempt[e] + 1],
         NEW k \in {0, 1}, received' = [received EXCEPT ![e] = received[e] + k],
         s \in {"sent", "to_keep", "post"}, s = "sent" => k = 1,
         s = "post" => attempt[e] + 1 < MaxPosts
  PROVE  TelemetryInv'
<1>1. stage' = [stage EXCEPT ![e] = s] /\ dsn' = dsn
  BY DEF Moves
<1>2. /\ attempt[e] + 1 \in Nat /\ received[e] + k \in Nat /\ attempt[e] \in Nat
      /\ received[e] \in Nat
  BY DEF TelemetryInv, TelemetryTypes
<1>3. /\ attempt[e] + 1 <= MaxPosts /\ received[e] + k <= attempt[e] + 1 /\ dsn = "good"
      /\ s = "sent" => received[e] + k > 0
  BY <1>2, QueueAssumption DEF TelemetryInv, PostsAreCounted
<1>4. /\ PostsAreCounted'
      /\ stage' \in [Events -> Stages] /\ dsn' \in {"none", "bad", "good"}
      /\ attempt' \in [Events -> Nat] /\ received' \in [Events -> Nat]
  <2>1. TelemetryTypes /\ PostsAreCounted
    BY DEF TelemetryInv
  <2> DEFINE a == attempt[e] + 1
             r == received[e] + k
  <2>2. a \in Nat /\ r \in Nat /\ a <= MaxPosts /\ r <= a /\ (s = "sent" => r > 0)
        /\ attempt' = [attempt EXCEPT ![e] = a] /\ received' = [received EXCEPT ![e] = r]
        /\ (s = "post" => dsn = "good" /\ a < MaxPosts)
    BY <1>2, <1>3
  <2> HIDE DEF a, r
  <2>3. s \notin {"none", "submitted", "accepted", "to_queue", "queued", "refused", "lost"}
    OBVIOUS
  <2>4. QED BY <1>1, <1>3, <2>1, <2>2, <2>3, CountedInStep
<1>5. QED BY <1>4, QueueAlone DEF TelemetryInv, TelemetryTypes

\* An evicted event is a day old.
LEMMA InvInEvict ==
  ASSUME TelemetryInv, NEW e \in Events, EvictExpired(e)
  PROVE  TelemetryInv'
<1> DEFINE q == Kept(queue, Events \ aged)
           s == stage'[e]
<1>1. /\ queue \in Seq(Events) /\ enqueued \in Seq(Events) /\ stage[e] = "accepted"
      /\ dsn \in {"none", "bad", "good"}
  BY DEF EvictExpired, TelemetryInv, TelemetryTypes
<1>2. /\ q \in Seq(Events) /\ ToSet(q) = ToSet(queue) \cap (Events \ aged)
      /\ \E g : Places(q, queue, Len(queue), g)
  BY <1>1, KeptIs, KeptInOrder
<1> HIDE DEF q
<1>3. /\ queue' = q /\ UNCHANGED <<dsn, attempt, received, enqueued, aged>>
      /\ stage' = [stage EXCEPT ![e] = s] /\ s \in Stages
      /\ s \in {"to_queue", "to_keep", "post"} /\ (s = "post" => dsn = "good")
  BY <1>1 DEF EvictExpired, ToStage, q, Stages, TelemetryInv, TelemetryTypes
<1> HIDE DEF s
<1>4. attempt[e] = 0 /\ 0 < MaxPosts
  BY <1>1, QueueAssumption DEF TelemetryInv, PostsAreCounted
<1>5. /\ PostsAreCounted'
      /\ stage' \in [Events -> Stages] /\ dsn' \in {"none", "bad", "good"}
      /\ attempt' \in [Events -> Nat] /\ received' \in [Events -> Nat]
  BY <1>3, <1>4, CountedInMove DEF TelemetryInv
<1>6. EnqueuedOnce'
  <2>1. \A i \in 1..Len(enqueued) : enqueued[i] \in Events
    BY <1>1
  <2>2. QED BY <1>1, <1>3, <2>1 DEF TelemetryInv, TelemetryTypes, EnqueuedOnce
<1>7. Queues(q, enqueued)
  <2>1. PICK g : Places(q, queue, Len(queue), g)
    BY <1>2
  <2>2. PICK h : Places(queue, enqueued, Len(enqueued), h)
    BY DEF TelemetryInv, Queues
  <2>3. Places(q, enqueued, Len(enqueued), [i \in 1..Len(q) |-> h[g[i]]]) /\ Len(q) <= Len(queue)
    BY <1>1, <1>2, <2>1, <2>2, PlacesCompose
  <2>4. Len(queue) <= QueueCap /\ Len(q) \in Nat /\ Len(queue) \in Nat /\ QueueCap \in Nat
    BY <1>1, <1>2, QueueAssumption DEF TelemetryInv, Queues
  <2>5. QED BY <2>3, <2>4 DEF Queues
<1>8. LatestAreThere(q, enqueued)
  <2> SUFFICES ASSUME NEW i \in 1..Len(enqueued), i + QueueCap > Len(enqueued)
               PROVE  enqueued[i] \in ToSet(q) \cup aged
    BY DEF LatestAreThere
  <2>1. enqueued[i] \in ToSet(queue) \cup aged
    BY DEF TelemetryInv, LatestAreThere
  <2>2. enqueued[i] \in Events
    BY <1>1
  <2>3. QED BY <1>2, <2>1, <2>2
<1>9. Queues(queue, enqueued)' /\ LatestAreThere(queue, enqueued)'
  BY <1>3, <1>7, <1>8 DEF Queues, LatestAreThere
<1>10. queue' \in Seq(Events) /\ enqueued' \in Seq(Events) /\ aged' \in SUBSET Events
  BY <1>1, <1>2, <1>3 DEF TelemetryInv, TelemetryTypes
<1>11. QED BY <1>5, <1>6, <1>9, <1>10 DEF TelemetryInv, TelemetryTypes

\* A queue with room for one more, and the events that were dropped for it.
LEMMA OneMore ==
  ASSUME NEW q \in Seq(Events), NEW l \in Seq(Events), NEW e \in Events,
         Queues(q, l), LatestAreThere(q, l),
         \A i, j \in 1..Len(l) : l[i] = l[j] => i = j, NEW p,
         p = IF Len(q) >= QueueCap THEN SubSeq(q, Len(q) - QueueCap + 2, Len(q)) ELSE q
  PROVE  /\ Append(p, e) \in Seq(Events)
         /\ Queues(Append(p, e), Append(l, e)) /\ LatestAreThere(Append(p, e), Append(l, e))
<1> DEFINE n == Len(q)
           N == Len(l)
           d == IF n >= QueueCap THEN 1 ELSE 0
           u == Append(p, e)
           v == Append(l, e)
<1>1. n \in Nat /\ N \in Nat /\ n <= QueueCap /\ QueueCap \in Nat \ {0} /\ d \in {0, 1}
  BY QueueAssumption DEF Queues
<1>2. n - d \in Nat /\ n - d + 1 <= QueueCap
  BY <1>1
<1>3. \A i \in 1..(n - d) : i + d \in 1..n /\ q[i + d] \in Events
  BY <1>1, <1>2
<1>4. p \in Seq(Events) /\ Len(p) = n - d /\ \A i \in 1..(n - d) : p[i] = q[i + d]
  <2>1. CASE d = 0
    BY <1>1, <2>1
  <2>2. CASE d = 1
    <3>1. n = QueueCap /\ p = SubSeq(q, 2, n)
      BY <1>1, <2>2
    <3>2. \A i \in 2..n : q[i] \in Events
      BY <1>1
    <3>3. /\ SubSeq(q, 2, n) \in Seq(Events)
          /\ Len(SubSeq(q, 2, n)) = IF 2 <= n THEN n - 2 + 1 ELSE 0
          /\ \A i \in 1..(n - 2 + 1) : SubSeq(q, 2, n)[i] = q[2 + i - 1]
      <4>1. 2 \in Int /\ n \in Int
        BY <1>1
      <4>2. QED BY <3>2, <4>1, SubSeqProperties
    <3>4. Len(p) = n - 1
      BY <1>1, <3>1, <3>3
    <3>5. ASSUME NEW i \in 1..(n - 1) PROVE p[i] = q[i + 1]
      <4>1. i \in 1..(n - 2 + 1) /\ 2 + i - 1 = i + 1
        BY <1>1
      <4>2. QED BY <3>1, <3>3, <4>1
    <3>6. QED BY <2>2, <3>1, <3>3, <3>4, <3>5
  <2>3. QED BY <1>1, <2>1, <2>2
<1> HIDE DEF n, N, d
<1>5. /\ u \in Seq(Events) /\ Len(u) = n - d + 1
      /\ u[n - d + 1] = e /\ \A i \in 1..(n - d) : u[i] = q[i + d]
  BY <1>2, <1>4
<1>6. /\ v \in Seq(Events) /\ Len(v) = N + 1
      /\ v[N + 1] = e /\ \A i \in 1..N : v[i] = l[i]
  BY <1>1 DEF N
<1> HIDE DEF u, v
<1>7. PICK g : /\ g \in [1..n -> 1..N]
               /\ \A i \in 1..n : l[g[i]] = q[i] /\ n - i <= N - g[i]
               /\ \A i, j \in 1..n : i < j => g[i] < g[j]
  BY DEF Queues, Places, n, N
<1>8. \A i \in 1..n : g[i] \in 1..N
  BY <1>7
<1> DEFINE M == n - d + 1
           h == [i \in 1..M |-> IF i = M THEN N + 1 ELSE g[i + d]]
<1>9. M \in Nat /\ M <= QueueCap /\ \A i \in 1..M : i # M => i \in 1..(n - d)
  BY <1>1, <1>2
<1>10. ASSUME NEW i \in 1..M
       PROVE  h[i] \in 1..(N + 1) /\ v[h[i]] = u[i] /\ M - i <= (N + 1) - h[i]
  <2>1. CASE i = M
    <3>1. h[i] = N + 1 /\ v[N + 1] = u[M]
      BY <1>5, <1>6, <2>1
    <3>2. M - M = 0 /\ (N + 1) - (N + 1) = 0 /\ N + 1 \in 1..(N + 1)
      BY <1>1, <1>9
    <3>3. QED BY <2>1, <3>1, <3>2
  <2>2. CASE i # M
    <3>1. i \in 1..(n - d) /\ i + d \in 1..n /\ h[i] = g[i + d]
      BY <1>3, <1>9, <2>2
    <3>2. g[i + d] \in 1..N /\ l[g[i + d]] = q[i + d] /\ n - (i + d) <= N - g[i + d]
      BY <1>7, <1>8, <3>1
    <3>3. v[h[i]] = u[i]
      BY <1>5, <1>6, <3>1, <3>2
    <3>4. h[i] \in 1..(N + 1) /\ M - i <= (N + 1) - h[i]
      <4>1. /\ i \in Nat /\ d \in Nat /\ n \in Nat /\ N \in Nat
            /\ g[i + d] \in Nat /\ g[i + d] >= 1 /\ g[i + d] <= N
        <5>1. d \in Nat /\ n \in Nat /\ N \in Nat
          BY <1>1
        <5>2. i \in Nat
          OBVIOUS
        <5>3. g[i + d] \in 1..N
          BY <3>2
        <5>4. QED BY <5>1, <5>2, <5>3
      <4>2. M - i = (n - (i + d)) + 1
        BY <4>1
      <4>3. (N + 1) - g[i + d] = (N - g[i + d]) + 1
        BY <4>1
      <4>4. M - i <= (N + 1) - g[i + d]
        BY <3>2, <4>1, <4>2, <4>3
      <4>5. g[i + d] \in 1..(N + 1)
        BY <4>1
      <4>6. QED BY <3>1, <4>4, <4>5
    <3>5. QED BY <3>3, <3>4
  <2>3. QED BY <2>1, <2>2
<1>11. ASSUME NEW i \in 1..M, NEW j \in 1..M, i < j PROVE h[i] < h[j]
  <2>1. i \in 1..(n - d) /\ i + d \in 1..n /\ h[i] = g[i + d] /\ g[i + d] \in 1..N
    <3>1. i # M
      BY <1>9, <1>11
    <3>2. i \in 1..(n - d) /\ i + d \in 1..n /\ h[i] = g[i + d]
      BY <1>3, <1>9, <3>1
    <3>3. QED BY <1>8, <3>2
  <2>2. CASE j = M
    BY <1>1, <2>1, <2>2
  <2>3. CASE j # M
    <3>1. j \in 1..(n - d) /\ j + d \in 1..n /\ h[j] = g[j + d]
      BY <1>3, <1>9, <2>3
    <3>2. i + d < j + d
      BY <1>1, <1>11, <2>1, <3>1
    <3>3. QED BY <1>7, <2>1, <3>1, <3>2
  <2>4. QED BY <2>2, <2>3
<1>12. h \in [1..M -> 1..(N + 1)]
  BY <1>10
<1> HIDE DEF M, h
<1>13. Len(u) = M /\ Len(v) = N + 1
  BY <1>5, <1>6 DEF M
<1>14. Places(u, v, N + 1, h)
  <2>1. 1..Len(u) = 1..M /\ \A i \in 1..M : Len(u) - i = M - i
    <3>1. Len(u) = M /\ M \in Nat
      BY <1>9, <1>13
    <3>2. QED BY <3>1
  <2>2. h \in [1..Len(u) -> 1..(N + 1)]
    BY <1>12, <2>1
  <2>3. \A i \in 1..Len(u) : v[h[i]] = u[i] /\ Len(u) - i <= (N + 1) - h[i]
    BY <1>10, <2>1
  <2>4. \A i, j \in 1..Len(u) : i < j => h[i] < h[j]
    BY <1>11, <2>1
  <2>5. QED BY <2>2, <2>3, <2>4 DEF Places
<1>15. Queues(u, v)
  BY <1>9, <1>13, <1>14 DEF Queues
<1>16. ASSUME NEW i \in 1..(N + 1), i + QueueCap > N + 1 PROVE v[i] \in ToSet(u) \cup aged
  <2>1. CASE i = N + 1
    <3>1. M \in DOMAIN u /\ u[M] = e
      BY <1>2, <1>5, <1>9, <1>13 DEF M
    <3>2. QED BY <1>6, <2>1, <3>1 DEF ToSet
  <2>2. CASE i # N + 1
    <3>1. i \in 1..N /\ i + QueueCap > N /\ v[i] = l[i]
      BY <1>1, <1>6, <1>16, <2>2
    <3>2. l[i] \in ToSet(q) \cup aged
      BY <3>1 DEF LatestAreThere, N
    <3>3. CASE l[i] \in aged
      BY <3>1, <3>3
    <3>4. CASE l[i] \in ToSet(q)
      <4>1. PICK j \in 1..n : q[j] = l[i]
        BY <3>4 DEF ToSet, n
      <4>2. g[j] \in 1..N /\ l[g[j]] = l[i] /\ n - j <= N - g[j]
        BY <1>7, <1>8, <4>1
      <4>3. g[j] = i
        BY <3>1, <4>2 DEF N
      <4>4. n - j <= N - i /\ N - i < QueueCap
        BY <1>1, <3>1, <4>2, <4>3
      <4>5. n - j <= N - i /\ N + 1 - i < QueueCap
        BY <1>1, <1>16, <4>4
      <4>6. j > d
        BY <1>1, <4>5 DEF d
      <4>7. j - d \in 1..(n - d) /\ (j - d) + d = j
        BY <1>1, <4>6
      <4>8. u[j - d] = q[j] /\ j - d \in DOMAIN u
        <5>1. u[j - d] = q[(j - d) + d]
          BY <1>5, <4>7
        <5>2. j - d \in 1..M /\ DOMAIN u = 1..M
          BY <1>1, <1>5, <1>13, <4>7 DEF M
        <5>3. QED BY <4>7, <5>1, <5>2
      <4>9. QED BY <3>1, <4>1, <4>8 DEF ToSet
    <3>5. QED BY <3>1, <3>2, <3>3, <3>4
  <2>3. QED BY <2>1, <2>2
<1>17. QED BY <1>5, <1>13, <1>15, <1>16 DEF LatestAreThere, u, v

\* An event that is enqueued is one more.
LEMMA InvInEnqueue ==
  ASSUME TelemetryInv, NEW e \in Events, Enqueue(e)
  PROVE  TelemetryInv'
<1> DEFINE p == IF Len(queue) >= QueueCap
                THEN SubSeq(queue, Len(queue) - QueueCap + 2, Len(queue)) ELSE queue
           s == stage'[e]
<1>1. /\ queue \in Seq(Events) /\ enqueued \in Seq(Events)
      /\ stage[e] \in {"to_queue", "to_keep"} /\ Len(enqueued) \in Nat
  BY DEF Enqueue, Enqueued, TelemetryInv, TelemetryTypes
<1>2. /\ queue' = Append(p, e) /\ enqueued' = Append(enqueued, e)
      /\ UNCHANGED <<dsn, attempt, received, aged>>
      /\ stage' = [stage EXCEPT ![e] = s] /\ s \in Stages
      /\ s \in {"queued", "retained"} /\ (s = "queued" => stage[e] = "to_queue")
  BY <1>1 DEF Enqueue, Enqueued, ToStage, Stages, TelemetryInv, TelemetryTypes
<1>3. p = IF Len(queue) >= QueueCap
          THEN SubSeq(queue, Len(queue) - QueueCap + 2, Len(queue)) ELSE queue
  OBVIOUS
<1> HIDE DEF p, s
<1>4. /\ PostsAreCounted'
      /\ stage' \in [Events -> Stages] /\ dsn' \in {"none", "bad", "good"}
      /\ attempt' \in [Events -> Nat] /\ received' \in [Events -> Nat]
  <2>1. s = "queued" => attempt[e] = 0
    BY <1>2 DEF TelemetryInv, PostsAreCounted
  <2>2. QED BY <1>2, <2>1, CountedInMove DEF TelemetryInv
<1>5. \A i \in 1..Len(enqueued) : enqueued[i] \in Events /\ enqueued[i] # e
                                  /\ stage'[enqueued[i]] = stage[enqueued[i]]
  <2>1. \A i \in 1..Len(enqueued) : enqueued[i] \in Events /\ enqueued[i] # e
    BY <1>1 DEF TelemetryInv, EnqueuedOnce
  <2>2. QED BY <1>2, <2>1 DEF TelemetryInv, TelemetryTypes
<1>6. EnqueuedOnce'
  <2> DEFINE v == Append(enqueued, e)
             N == Len(enqueued)
  <2>1. /\ Len(v) = N + 1 /\ N \in Nat
        /\ v[N + 1] = e /\ \A i \in 1..N : v[i] = enqueued[i]
    BY <1>1
  <2>2. stage'[e] \in {"queued", "retained"}
    BY <1>2 DEF s
  <2>3. /\ \A i \in 1..N : stage'[enqueued[i]] \in {"queued", "retained"} /\ enqueued[i] # e
        /\ \A i, j \in 1..N : enqueued[i] = enqueued[j] => i = j
    BY <1>5 DEF TelemetryInv, EnqueuedOnce
  <2> HIDE DEF v, N
  <2>4. \A i \in 1..(N + 1) : i = N + 1 \/ i \in 1..N
    BY <2>1
  <2>5. /\ \A i \in 1..(N + 1) : stage'[v[i]] \in {"queued", "retained"}
        /\ \A i, j \in 1..(N + 1) : v[i] = v[j] => i = j
    BY <2>1, <2>2, <2>3, <2>4
  <2>6. enqueued' = v /\ Len(enqueued') = N + 1
    BY <1>2, <2>1 DEF v
  <2>7. QED BY <2>5, <2>6 DEF EnqueuedOnce
<1>7. /\ Append(p, e) \in Seq(Events)
      /\ Queues(Append(p, e), Append(enqueued, e))
      /\ LatestAreThere(Append(p, e), Append(enqueued, e))
  BY <1>1, <1>3, OneMore DEF TelemetryInv, EnqueuedOnce
<1>8. Queues(queue, enqueued)' /\ LatestAreThere(queue, enqueued)'
  BY <1>2, <1>7 DEF Queues, LatestAreThere
<1>9. queue' \in Seq(Events) /\ enqueued' \in Seq(Events) /\ aged' \in SUBSET Events
  BY <1>1, <1>2, <1>7 DEF TelemetryInv, TelemetryTypes
<1>10. QED BY <1>4, <1>6, <1>8, <1>9 DEF TelemetryInv, TelemetryTypes

\* No event has moved; some may have grown old.
LEMMA InvAtRest ==
  ASSUME TelemetryInv, UNCHANGED <<dsn, stage, attempt, received, queue, enqueued>>,
         aged \subseteq aged', aged' \subseteq Events
  PROVE  TelemetryInv'
<1>1. TelemetryTypes' /\ PostsAreCounted' /\ EnqueuedOnce'
  BY DEF TelemetryInv, TelemetryTypes, PostsAreCounted, EnqueuedOnce
<1>2. Queues(queue, enqueued)' /\ LatestAreThere(queue, enqueued)'
  BY DEF TelemetryInv, Queues, LatestAreThere
<1>3. QED BY <1>1, <1>2 DEF TelemetryInv

\* Every step keeps the invariant.
LEMMA TelemetryStep ==
  ASSUME TelemetryInv, [TelemetryNext]_telemetryVars
  PROVE  TelemetryInv'
<1>1. CASE InstallHook \/ AttachTelemetry \/ SetConsent \/ UNCHANGED telemetryVars
  BY <1>1, InvAtRest
     DEF InstallHook, AttachTelemetry, SetConsent, telemetryVars, TelemetryInv, TelemetryTypes
<1>2. ASSUME NEW e \in Events, Panic(e) \/ SubmitEvent(e) \/ ReadConsent(e) PROVE TelemetryInv'
  <2>1. PICK s \in {"submitted", "lost", "refused", "accepted"} :
          stage' = [stage EXCEPT ![e] = s]
    BY <1>2 DEF Panic, SubmitEvent, ReadConsent, ToStage
  <2>2. Moves(e, s) /\ UNCHANGED <<attempt, received>> /\ stage[e] \in {"none", "submitted"}
    BY <1>2, <2>1 DEF Panic, SubmitEvent, ReadConsent, Moves
  <2>3. attempt[e] = 0 /\ s \in Stages
    BY <2>2 DEF TelemetryInv, PostsAreCounted, Stages
  <2>4. QED BY <2>2, <2>3, InvInMove
<1>3. ASSUME NEW e \in Events, PostSucceeds(e) PROVE TelemetryInv'
  BY <1>3, InvInPost DEF PostSucceeds, ToStage, Moves, Stages
<1>4. ASSUME NEW e \in Events, PostRefused(e) PROVE TelemetryInv'
  <2>1. received' = [received EXCEPT ![e] = received[e] + 0]
    BY <1>4 DEF PostRefused, TelemetryInv, TelemetryTypes
  <2>2. QED BY <1>4, <2>1, InvInPost DEF PostRefused, ToStage, Moves, Stages
<1>5. ASSUME NEW e \in Events, PostFails(e) PROVE TelemetryInv'
  <2> DEFINE s == IF attempt[e] + 1 < MaxPosts THEN "post" ELSE "to_keep"
  <2>1. /\ stage[e] = "post" /\ Moves(e, s) /\ attempt' = [attempt EXCEPT ![e] = attempt[e] + 1]
        /\ \E k \in {0, 1} : received' = [received EXCEPT ![e] = received[e] + k]
    BY <1>5 DEF PostFails, ToStage, Moves
  <2>2. s \in {"to_keep", "post"} /\ s \in Stages /\ (s = "post" => attempt[e] + 1 < MaxPosts)
    BY DEF Stages
  <2> HIDE DEF s
  <2>3. QED BY <2>1, <2>2, InvInPost
<1>6. ASSUME NEW e \in Events, GrowOld(e) PROVE TelemetryInv'
  BY <1>6, InvAtRest DEF GrowOld, TelemetryInv, TelemetryTypes
<1>7. QED BY <1>1, <1>2, <1>3, <1>4, <1>5, <1>6, InvInEvict, InvInEnqueue DEF TelemetryNext

\* The queue holds the latest events that could not be sent and are not a day old,
\* each once and in order; none is posted too often or after it was refused: for
\* every number of events, size of the queue and number of posts.
THEOREM EventsKept == TelemetrySpec => []EventsAreKept
<1>1. TelemetryInit => TelemetryInv
  <2> SUFFICES ASSUME TelemetryInit PROVE TelemetryInv
    OBVIOUS
  <2>1. TelemetryTypes /\ PostsAreCounted
    BY QueueAssumption DEF TelemetryInit, TelemetryTypes, PostsAreCounted, Stages
  <2>2. queue = <<>> /\ enqueued = <<>> /\ Len(queue) = 0 /\ Len(enqueued) = 0
    BY DEF TelemetryInit
  <2>3. EnqueuedOnce /\ LatestAreThere(queue, enqueued)
    BY <2>2 DEF EnqueuedOnce, LatestAreThere
  <2>4. Places(queue, enqueued, 0, [i \in 1..0 |-> i])
    BY <2>2 DEF Places
  <2>5. Queues(queue, enqueued)
    BY <2>2, <2>4, QueueAssumption DEF Queues
  <2>6. QED BY <2>1, <2>3, <2>5 DEF TelemetryInv
<1>2. TelemetryInv /\ [TelemetryNext]_telemetryVars => TelemetryInv'
  BY TelemetryStep
<1>3. TelemetryInv => EventsAreKept
  <2> SUFFICES ASSUME TelemetryInv PROVE EventsAreKept
    OBVIOUS
  <2>1. /\ queue \in Seq(Events) /\ enqueued \in Seq(Events)
        /\ DOMAIN queue = 1..Len(queue) /\ DOMAIN enqueued = 1..Len(enqueued)
    BY DEF TelemetryInv, TelemetryTypes
  <2>2. PICK g : Places(queue, enqueued, Len(enqueued), g)
    BY DEF TelemetryInv, Queues
  <2>3. \A i \in DOMAIN queue : g[i] \in DOMAIN enqueued /\ enqueued[g[i]] = queue[i]
    BY <2>1, <2>2 DEF Places
  <2>4. \A i, j \in DOMAIN queue : i < j => g[i] < g[j]
    BY <2>1, <2>2 DEF Places
  <2>5. ToSet(queue) = InQueue
    BY DEF ToSet, InQueue
  <2>6. \A i \in DOMAIN queue : queue[i] \in Events /\ stage[queue[i]] \in {"queued", "retained"}
    BY <2>1, <2>3 DEF TelemetryInv, EnqueuedOnce
  <2>7. InQueue \subseteq {e \in Events : stage[e] \in {"queued", "retained"}}
    BY <2>6 DEF InQueue
  <2>8. /\ Len(queue) <= QueueCap
        /\ \A i \in DOMAIN enqueued : i + QueueCap > Len(enqueued) => enqueued[i] \in InQueue \cup aged
    BY <2>1, <2>5 DEF TelemetryInv, Queues, LatestAreThere
  <2>9. \A i, j \in DOMAIN queue : i < j =>
          \E m, n \in DOMAIN enqueued : m < n /\ enqueued[m] = queue[i] /\ enqueued[n] = queue[j]
    BY <2>3, <2>4
  <2>10. \A e \in Events :
           /\ attempt[e] <= MaxPosts /\ received[e] <= attempt[e]
           /\ stage[e] = "sent" => received[e] > 0
           /\ stage[e] \in {"refused", "lost"} => attempt[e] = 0
           /\ dsn # "good" => received[e] = 0
    BY DEF TelemetryInv, PostsAreCounted
  <2>11. QED BY <2>7, <2>8, <2>9, <2>10 DEF EventsAreKept
<1>4. QED BY <1>1, <1>2, <1>3, PTL DEF TelemetrySpec

-----------------------------------------------------------------------------
(***************************************************************************)
(* The downloader of the installer: its types, and that a known hash is    *)
(* never published over by another content.                                *)
(***************************************************************************)
\* The digest is checked between the stream and the rename.
VerifiedBeforeRename ==
  phase = "rename" /\ Expected # NoHash => hasher = Content(Expected)

\* The inductive invariant: FinalIsVerified rests on the digest standing for
\* the bytes of .partial, and on the check that precedes the rename.
DownloadInv == HasherMatchesPartial /\ VerifiedBeforeRename /\ FinalIsVerified

\* A file of any version is a byte string.
LEMMA ContentIsBytes == \A v \in FileVersion : Content(v) \in Bytes
  BY ConstantsAssumption DEF Content, Bytes

\* The type invariant holds initially and is kept by every step.
THEOREM DownloadTypesCorrect == DownloadSpec => []DownloadTypes
<1>1. DownloadInit => DownloadTypes
  <2>1. <<>> \in Bytes
    BY DEF Bytes
  <2>2. 0 \in 0..MaxRetries
    BY ConstantsAssumption
  <2>3. DownloadInit => final \in SUBSET Bytes
    BY DEF DownloadInit
  <2>4. DownloadInit => phase \in Running \cup {"idle"} /\ outcome \in Fatal \cup {"none", "ok"}
    BY DEF DownloadInit
  <2>5. QED
    BY <2>1, <2>2, <2>3, <2>4 DEF DownloadInit, DownloadTypes
<1>2. DownloadTypes /\ [DownloadNext]_downloadVars => DownloadTypes'
  <2> SUFFICES ASSUME DownloadTypes, [DownloadNext]_downloadVars PROVE DownloadTypes'
    OBVIOUS
  <2> USE ConstantsAssumption DEF DownloadTypes, Running, Fatal, Bytes
  <2>0. ASSUME UNCHANGED partial \/ LastWriteLost PROVE partial' \in Bytes
    <3>1. CASE UNCHANGED partial BY <3>1
    <3>2. CASE Len(partial) > resumeFrom /\ partial' = SubSeq(partial, 1, Len(partial) - 1)
      BY <3>2
    <3>3. QED BY <2>0, <3>1, <3>2 DEF LastWriteLost
  <2>1. CASE Start BY <2>1 DEF Start
  <2>2. CASE Probe BY <2>2 DEF Probe
  <2>3. CASE RespondPartial BY <2>3 DEF RespondPartial
  <2>4. CASE RespondFull BY <2>4, ContentIsBytes DEF RespondFull
  <2>5. CASE RespondRangeNotSatisfiable BY <2>5 DEF RespondRangeNotSatisfiable, EndCall
  <2>6. CASE RespondClientError BY <2>6 DEF RespondClientError, EndCall
  <2>7. CASE TransientError BY <2>7 DEF TransientError
  <2>8. CASE ReceiveChunk BY <2>8 DEF ReceiveChunk
  <2>9. CASE EndOfBody BY <2>9 DEF EndOfBody
  <2>10. CASE StreamFails
    <3>1. partial' \in Bytes
      BY <2>10, <2>0 DEF StreamFails
    <3>2. (\E e \in {"http_body", "io"} : EndCall(e)) /\ UNCHANGED <<final, served>>
      BY <2>10 DEF StreamFails
    <3>3. QED BY <3>1, <3>2 DEF EndCall
  <2>11. CASE SeeCancel BY <2>11 DEF SeeCancel, EndCall
  <2>12. CASE Retry
    <3>1. CASE retries < MaxRetries BY <2>12, <3>1 DEF Retry
    <3>2. CASE ~(retries < MaxRetries) BY <2>12, <3>2 DEF Retry, EndCall
    <3>3. QED BY <3>1, <3>2
  <2>13. CASE Verify
    <3>1. CASE HashDiffers BY <2>13, <3>1 DEF Verify, EndCall
    <3>2. CASE ~HashDiffers BY <2>13, <3>2 DEF Verify
    <3>3. QED BY <3>1, <3>2
  <2>14. CASE Persist BY <2>14 DEF Persist, EndCall
  <2>15. CASE PersistFails BY <2>15 DEF PersistFails, EndCall
  <2>16. CASE Cancel BY <2>16 DEF Cancel
  <2>17. CASE Crash
    <3>1. partial' \in Bytes
      BY <2>17, <2>0 DEF Crash
    <3>2. QED BY <2>17, <3>1 DEF Crash, EndCall
  <2>18. CASE Republish BY <2>18 DEF Republish, taskVars
  <2>19. CASE UNCHANGED downloadVars BY <2>19 DEF downloadVars, taskVars
  <2>20. CASE PartialUnusable
    <3>1. partial' \in Bytes
      <4>1. partial' = partial \/ partial' = <<>>
        BY <2>20 DEF PartialUnusable
      <4>2. CASE partial' = partial BY <4>2
      <4>3. CASE partial' = <<>> BY <4>3
      <4>4. QED BY <4>1, <4>2, <4>3
    <3>2. QED BY <2>20, <3>1 DEF PartialUnusable, EndCall
  <2>21. QED
    BY <2>1, <2>2, <2>3, <2>4, <2>5, <2>6, <2>7, <2>8, <2>9, <2>10, <2>11, <2>12,
       <2>13, <2>14, <2>15, <2>16, <2>17, <2>18, <2>19, <2>20 DEF DownloadNext, CallStep
<1>3. QED
  BY <1>1, <1>2, PTL DEF DownloadSpec

\* Steps that leave the task idle, or nothing to be checked, keep the digest
\* invariants; the others copy .partial and the hasher side by side.
LEMMA DigestKept ==
  ASSUME DownloadTypes, HasherMatchesPartial, VerifiedBeforeRename, [DownloadNext]_downloadVars
  PROVE  HasherMatchesPartial' /\ VerifiedBeforeRename'
<1> USE DEF HasherMatchesPartial, VerifiedBeforeRename
<1>1. CASE Start BY <1>1 DEF Start
<1>2. CASE Probe \/ PartialUnusable BY <1>2 DEF Probe, PartialUnusable, EndCall
<1>3. CASE RespondPartial BY <1>3 DEF RespondPartial
<1>4. CASE RespondFull BY <1>4 DEF RespondFull
<1>5. CASE RespondRangeNotSatisfiable BY <1>5 DEF RespondRangeNotSatisfiable, EndCall
<1>6. CASE RespondClientError BY <1>6 DEF RespondClientError, EndCall
<1>7. CASE TransientError BY <1>7 DEF TransientError
<1>8. CASE ReceiveChunk BY <1>8 DEF ReceiveChunk
<1>9. CASE EndOfBody BY <1>9 DEF EndOfBody
<1>10. CASE StreamFails BY <1>10 DEF StreamFails, EndCall
<1>11. CASE SeeCancel BY <1>11 DEF SeeCancel, EndCall
<1>12. CASE Retry BY <1>12 DEF Retry, EndCall
<1>13. CASE Verify BY <1>13 DEF Verify, HashDiffers, EndCall
<1>14. CASE Persist BY <1>14 DEF Persist, EndCall
<1>15. CASE PersistFails BY <1>15 DEF PersistFails, EndCall
<1>16. CASE Cancel BY <1>16 DEF Cancel
<1>17. CASE Crash BY <1>17 DEF Crash, EndCall
<1>18. CASE Republish BY <1>18 DEF Republish, taskVars
<1>19. CASE UNCHANGED downloadVars BY <1>19 DEF downloadVars, taskVars
<1>20. QED
  BY <1>1, <1>2, <1>3, <1>4, <1>5, <1>6, <1>7, <1>8, <1>9, <1>10, <1>11, <1>12,
     <1>13, <1>14, <1>15, <1>16, <1>17, <1>18, <1>19 DEF DownloadNext, CallStep

\* Only Persist writes the final path.
LEMMA OnlyPersistWrites ==
  ASSUME [DownloadNext]_downloadVars, ~Persist
  PROVE  final' = final
  BY DEF DownloadNext, CallStep, Start, Probe, RespondPartial, RespondFull,
         RespondRangeNotSatisfiable, RespondClientError, TransientError,
         ReceiveChunk, EndOfBody, PartialUnusable, StreamFails, SeeCancel, Retry, Verify,
         PersistFails, Cancel, Crash, Republish, downloadVars

\* The inductive invariant holds in every reachable state.
LEMMA DownloadInvCorrect == DownloadSpec => []DownloadInv
<1>1. DownloadInit => DownloadInv
  BY DEF DownloadInit, DownloadInv, HasherMatchesPartial, VerifiedBeforeRename, FinalIsVerified
<1>2. DownloadTypes /\ DownloadInv /\ [DownloadNext]_downloadVars => DownloadInv'
  <2> SUFFICES ASSUME DownloadTypes, DownloadInv, [DownloadNext]_downloadVars PROVE DownloadInv'
    OBVIOUS
  <2>1. HasherMatchesPartial' /\ VerifiedBeforeRename'
    BY DigestKept DEF DownloadInv
  <2>2. FinalIsVerified'
    <3>1. CASE Persist
      BY <3>1 DEF Persist, DownloadInv, HasherMatchesPartial, VerifiedBeforeRename, FinalIsVerified
    <3>2. CASE ~Persist
      BY <3>2, OnlyPersistWrites DEF DownloadInv, FinalIsVerified
    <3>3. QED BY <3>1, <3>2
  <2>3. QED BY <2>1, <2>2 DEF DownloadInv
<1>3. QED
  BY <1>1, <1>2, DownloadTypesCorrect, PTL DEF DownloadSpec

\* The running digest stands for .partial whenever it will be relied on.
THEOREM HasherMatches == DownloadSpec => []HasherMatchesPartial
<1>1. DownloadInv => HasherMatchesPartial
  BY DEF DownloadInv
<1>2. QED
  BY <1>1, DownloadInvCorrect, PTL

\* Whatever is served, resumed, cancelled, retried or interrupted, a download
\* with a known hash never leaves another content at the final path.
THEOREM FinalVerified == DownloadSpec => []FinalIsVerified
<1>1. DownloadInv => FinalIsVerified
  BY DEF DownloadInv
<1>2. QED
  BY <1>1, DownloadInvCorrect, PTL

\* The steps that leave .partial alone give no byte up.
LEMMA UntouchedIsKept ==
  ASSUME [DownloadNext]_downloadVars, ~RespondFull, ~ReceiveChunk, ~Verify, ~Persist, ~Crash,
         ~PartialUnusable, ~StreamFails
  PROVE  partial' = partial
  BY DEF DownloadNext, CallStep, Start, Probe, RespondPartial, RespondRangeNotSatisfiable,
         RespondClientError, TransientError, EndOfBody, SeeCancel, Retry,
         PersistFails, Cancel, Republish, downloadVars

\* A byte string without its last byte.
LEMMA OneByteLess ==
  ASSUME NEW S, NEW s \in Seq(S), Len(s) > 0
  PROVE  Len(SubSeq(s, 1, Len(s) - 1)) = Len(s) - 1
<1> DEFINE n == Len(s) - 1
<1>1. n \in Nat
  OBVIOUS
<1>2. \A i \in 1..n : s[i] \in S
  OBVIOUS
<1> HIDE DEF n
<1>3. Len(SubSeq(s, 1, n)) = IF 1 <= n THEN n - 1 + 1 ELSE 0
  <2>1. 1 \in Int /\ n \in Int
    BY <1>1
  <2>2. QED BY <1>2, <2>1, SubSeqProperties
<1>4. Len(SubSeq(s, 1, n)) = n
  BY <1>1, <1>3
<1>5. QED BY <1>4 DEF n

\* Bytes downloaded once are given up only for a wrong hash, a restart, a rename
\* or a last write that was lost, whatever the size and the number of retries.
THEOREM ProgressKept == DownloadSpec => ProgressIsKept
<1> DEFINE NoByteLost ==
      Len(partial') < Len(partial) =>
        \/ phase = "verify" /\ outcome' = "hash_mismatch"
        \/ phase = "rename" /\ outcome' = "ok"
        \/ phase = "request" /\ (phase' = "stream" \/ outcome' = "io")
        \/ phase = "stream" /\ outcome' \in {"killed", "io"} /\ Len(partial') = Len(partial) - 1
<1>1. DownloadTypes /\ [DownloadNext]_downloadVars => NoByteLost
  <2> SUFFICES ASSUME DownloadTypes, [DownloadNext]_downloadVars PROVE NoByteLost
    OBVIOUS
  <2>1. CASE RespondFull BY <2>1 DEF RespondFull
  <2>2. CASE ReceiveChunk BY <2>2 DEF ReceiveChunk, DownloadTypes, Bytes
  <2>3. CASE Verify
    <3>1. CASE HashDiffers BY <2>3, <3>1 DEF Verify, EndCall
    <3>2. CASE ~HashDiffers BY <2>3, <3>2 DEF Verify, DownloadTypes, Bytes
    <3>3. QED BY <3>1, <3>2
  <2>4. CASE Persist BY <2>4 DEF Persist, EndCall
  <2>5. CASE PartialUnusable BY <2>5 DEF PartialUnusable, EndCall, DownloadTypes, Bytes
  <2>6. CASE StreamFails \/ Crash
    <3>1. CASE partial' = partial BY <3>1 DEF DownloadTypes, Bytes
    <3>2. CASE partial' # partial
      <4>1. outcome' \in {"killed", "io"} /\ LastWriteLost
        BY <2>6, <3>2 DEF StreamFails, Crash, EndCall
      <4>2. Len(partial') = Len(partial) - 1
        <5>1. partial \in Seq(FileVersion) /\ Len(partial) > 0
          BY <4>1 DEF LastWriteLost, DownloadTypes, Bytes
        <5>2. QED BY <4>1, <5>1, OneByteLess DEF LastWriteLost
      <4>3. QED BY <4>1, <4>2 DEF LastWriteLost
    <3>3. QED BY <3>1, <3>2
  <2>7. CASE /\ ~RespondFull /\ ~ReceiveChunk /\ ~Verify /\ ~Persist
             /\ ~PartialUnusable /\ ~StreamFails /\ ~Crash
    BY <2>7, UntouchedIsKept DEF DownloadTypes, Bytes
  <2>8. QED BY <2>1, <2>2, <2>3, <2>4, <2>5, <2>6, <2>7
<1>2. QED
  BY <1>1, DownloadTypesCorrect, PTL DEF DownloadSpec, ProgressIsKept
=============================================================================
