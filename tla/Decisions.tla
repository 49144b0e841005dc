------------------------------- MODULE Decisions -------------------------------
(***************************************************************************)
(* What the desktop computes from data alone: which models it recommends,  *)
(* what is installed and what the machine can do, which trending models    *)
(* are queued, how results are cleaned up, how streams, documents, samples *)
(* and reports are cut into parts, and the small rules of module Rules.    *)
(* A behaviour is one such computation: Init chooses what is given, Decide *)
(* computes the answer the way the code does, and DecidedAsPromised says   *)
(* what a good answer is.                                                  *)
(***************************************************************************)
EXTENDS Rules

VARIABLES topic, given, answer, decided

decideVars == <<topic, given, answer, decided>>

-----------------------------------------------------------------------------
\* recommend: the models of the catalogue for this machine.  Memory in MB.

Model(id, cat, purpose, mat, lang, vram, ram, size, tier) ==
  [id |-> id, cat |-> cat, purpose |-> purpose, mat |-> mat, lang |-> lang,
   minV |-> vram[1], recV |-> vram[2], minR |-> ram[1], recR |-> ram[2],
   size |-> size, verified |-> tier = "verified", domain |-> 10 * id, meant |-> id = 3]

Catalogue ==
  { Model(1, "agent", "chat", "stable", 7, <<4000, 8000>>, <<8000, 16000>>, 4000, "verified"),
    Model(2, "agent", "chat", "stable", 7, <<4000, 8000>>, <<8000, 16000>>, 4000, "verified"),
    Model(3, "coding", "chat", "beta", 3, <<Nil, 6000>>, <<8000, 8000>>, 6000, "community"),
    Model(4, "slm", "chat", "stable", 5, <<Nil, Nil>>, <<4000, 8000>>, 1000, "community"),
    Model(5, "roleplay", "chat", "experimental", 9, <<12000, 16000>>, <<32000, 32000>>, 15000, "verified"),
    Model(6, "agent", "retrieval", "stable", 9, <<Nil, Nil>>, <<1000, 1000>>, 500, "verified"),
    Model(7, "agent", "chat", "deprecated", 9, <<Nil, Nil>>, <<1000, 1000>>, 500, "verified") }

Hosts == [vram : {Nil, 4000, 8000, 12000}, ram : {8000, 32000}]
Recommendable ==
  [entries : {s \in UpTo(Catalogue, 3) : IsInjective(s)}, host : Hosts,
   target : {"agent", "coding"}, intent : BOOLEAN]

\* ExclusionReason: the first that applies.
Reason(e, h) ==
  IF e.mat = "deprecated" THEN "deprecated"
  ELSE IF e.purpose # "chat" THEN "purpose"
  ELSE IF e.minV # Nil /\ h.vram < e.minV THEN "vram"
  ELSE IF h.ram < e.minR THEN "ram"
  ELSE "none"

ForCategory(a, b) ==
  IF a = b THEN 20 ELSE IF "agent" \in {a, b} THEN 5 ELSE 0
ForMaturity(m) == CASE m = "stable" -> 10 [] m = "beta" -> 5 [] OTHER -> 0

ForVram(e, h) ==
  IF e.recV = Nil THEN IF h.vram = Nil THEN 15 ELSE 5
  ELSE IF h.vram = Nil THEN 0
  ELSE IF h.vram >= (e.recV * 13) \div 10 THEN 35
  ELSE IF h.vram >= e.recV THEN 30
  ELSE IF (h.vram * 13) \div 10 >= e.recV THEN 10
  ELSE 0

\* The strength in coding or roleplay counts in place of the language's; these
\* entries have none.
Fitness(e, g) ==
  ForCategory(e.cat, g.target) + 2 * e.lang
  + (IF g.target = "coding" THEN 0 ELSE e.lang)
  + ForVram(e, g.host)
  + (IF g.host.ram >= e.recR THEN 15 ELSE 5)
  + ForMaturity(e.mat) + (IF e.verified THEN 5 ELSE 0)
  + (IF g.intent THEN (e.domain * 4) \div 10 + (IF e.meant THEN 5 ELSE 0) ELSE 0)

Rank(m) == CASE m = "stable" -> 3 [] m = "beta" -> 2 [] m = "experimental" -> 1 [] OTHER -> 0

\* (fault) models that score the same keep the order of the catalogue
BeforeByScore(a, b, g) == Fitness(a, g) > Fitness(b, g)

Before(a, b, g) ==
  LET key(e) == <<-Fitness(e, g), -Rank(e.mat), e.size, e.id>>
      i == CHOOSE k \in 1..4 : key(a)[k] # key(b)[k] /\ \A n \in 1..k-1 : key(a)[n] = key(b)[n]
  IN a # b /\ key(a)[i] < key(b)[i]

FirstId(s) == IF s = <<>> THEN Nil ELSE s[1].id

\* Balanced: the middle one by size of the best 30%, rounded up.
Recommend(g) ==
  LET fit == Where(g.entries, LAMBDA e : Reason(e, g.host) = "none")
      ranked == Sorted(fit, LAMBDA a, b : Before(a, b, g))
      top == Sorted(SubSeq(ranked, 1, (3 * Len(fit) + 9) \div 10), LAMBDA a, b : a.size < b.size)
      stable == Where(g.entries, LAMBDA e : e.mat = "stable")
  IN [best |-> FirstId(ranked),
      balanced |-> IF top = <<>> THEN Nil ELSE top[Len(top) \div 2 + 1].id,
      light |-> FirstId(Where(ranked, LAMBDA e : e.size <= 5000)),
      fallback |-> FirstId(Sorted(stable, LAMBDA a, b : a.size < b.size)),
      excluded |-> {<<e.id, Reason(e, g.host)>> :
                      e \in {x \in Elements(g.entries) : Reason(x, g.host) # "none"}}]

\* The choices do not depend on the order the entries come in, but for the
\* fallback among models of one size; a choice is never a model that was excluded,
\* and with entries that fit there is one; more memory excludes nothing.
SoundRecommendation(g, a) ==
  LET back == Recommend([g EXCEPT !.entries = Reverse(@)])
      out == {x[1] : x \in a.excluded}
      fit == {e.id : e \in Elements(g.entries)} \ out
      more == Recommend([g EXCEPT !.host = [vram |-> 12000, ram |-> 32000]])
  IN /\ [back EXCEPT !.fallback = 0] = [a EXCEPT !.fallback = 0]
     /\ {a.best, a.balanced} \subseteq (IF fit = {} THEN {Nil} ELSE fit)
     /\ a.light \in fit \cup {Nil}
     /\ {x[1] : x \in more.excluded} \subseteq out

-----------------------------------------------------------------------------
\* detect: is a program there?  The rules of its manifest, one after the other.

Version == {Nil, 1}
DetectRules ==
  [how : {"http.get", "registry.read"}, on : {"any", "windows"},
   says : {"default", "running", "installed"}, finds : {"hit", "miss", "error"},
   version : Version]
  \cup [how : {"shell.which", "fs.exists"}, on : {"any", "windows"},
        says : {"default", "running", "installed"}, finds : {"hit", "miss"}, version : {Nil}]
Detectable == [rules : UpTo(DetectRules, 2), platform : {"windows", "linux"}]

\* An answer of another status counts as a miss, and so do a connection refused
\* and a timeout; without "indicates" an http answer means running.
Outcome(r, platform) ==
  IF r.on \notin {"any", platform} \/ (r.how = "registry.read" /\ platform # "windows")
    THEN "skipped"
  ELSE IF r.finds # "hit" THEN r.finds
  ELSE IF r.says # "default" THEN r.says
  ELSE IF r.how = "http.get" THEN "running"
  ELSE "installed"

\* The first rule that says running decides at once; the first that says
\* installed is named, and the first version that is known is kept.
Detect_(g) ==
  LET step(s, i) ==
        LET o == Outcome(g.rules[i], g.platform)
        IN IF s.status = "running" \/ o \notin {"running", "installed"} THEN s
           ELSE IF o = "running" THEN [status |-> o, by |-> i, version |-> g.rules[i].version]
           ELSE [status |-> o, by |-> IF s.by = 0 THEN i ELSE s.by,
                 version |-> IF s.version = Nil THEN g.rules[i].version ELSE s.version]
  IN FoldLeft(step, [status |-> "not-installed", by |-> 0, version |-> Nil],
              [i \in DOMAIN g.rules |-> i])

\* A rule of another system or one that fails changes nothing, and neither does
\* the order of rules what is found of a program that runs: only the status
\* counts, running before installed.
SoundDetection(g, a) ==
  LET said == {Outcome(g.rules[i], g.platform) : i \in DOMAIN g.rules}
      known == {r \in Elements(g.rules) : Outcome(r, g.platform) = a.status}
  IN /\ a.status = IF "running" \in said THEN "running"
                    ELSE IF "installed" \in said THEN "installed" ELSE "not-installed"
     /\ a.status = Detect_([g EXCEPT !.rules = Reverse(@)]).status
     /\ a.version \in {r.version : r \in known} \cup {Nil}
     /\ a.status = "installed" /\ a.version = Nil => \A r \in known : r.version = Nil

-----------------------------------------------------------------------------
\* gpus: one list of the graphics cards, from what several libraries tell.

Card(pci, vendor, mem) == [pci |-> pci, vendor |-> vendor, mem |-> mem]
Cards == {Card("a", "nvidia", 24), Card("b", "nvidia", 6), Card("c", "amd", 16), Card("d", "intel", 1)}
Software == Card("s", "microsoft", 0)

\* The cards in the order Windows lists them.  The NVIDIA library lists its own,
\* in an order of its own, or is not there; it may not know their memory.
Probeable ==
  [cards : UpTo(Cards, 3), platform : {"windows", "linux"}, nvml : {"none", "same", "reversed"},
   sizes : BOOLEAN, dxgi : BOOLEAN, vulkan : BOOLEAN]

ByVendor(s, v) == Where(s, LAMBDA c : c.vendor = v)
FromNvml(g) ==
  LET own == ByVendor(g.cards, "nvidia")
      all == CASE g.nvml = "none" -> <<>> [] g.nvml = "same" -> own [] OTHER -> Reverse(own)
  IN [i \in DOMAIN all |-> Card("none", "nvidia", IF g.sizes THEN all[i].mem ELSE Nil)]

FirstWhere(s, P(_)) ==
  LET at == {i \in DOMAIN s : P(s[i])} IN IF at = {} THEN 0 ELSE Min(at)

\* An NVIDIA card of Windows's list is taken for the first of the library's that
\* has no place on the bus yet; a card that is listed already is not added.
AddCard(list, c) ==
  LET open == FirstWhere(list, LAMBDA l : l.vendor = "nvidia" /\ l.pci = "none")
  IN IF c.vendor # "nvidia" THEN Append(list, c)
     ELSE IF open # 0 THEN [list EXCEPT ![open].pci = c.pci,
                                        ![open].mem = IF @ = Nil THEN c.mem ELSE @]
     ELSE IF \E l \in Elements(list) : l.vendor = "nvidia" /\ l.pci = c.pci THEN list
     ELSE Append(list, c)

\* On Linux the NVIDIA library and the AMD driver, one entry per kind of card.
AddAmd(list, c) ==
  IF \E l \in Elements(list) : l.vendor = "amd" /\ l.pci = c.pci THEN list ELSE Append(list, c)

\* Vulkan fills in the memory of cards that have none yet.
FilledIn(list, cards) ==
  [i \in DOMAIN list |->
     LET same == {c \in Elements(cards) : c.pci = list[i].pci}
     IN IF list[i].mem = Nil /\ same # {}
        THEN [list[i] EXCEPT !.mem = (CHOOSE c \in same : TRUE).mem] ELSE list[i]]

Probe_(g) ==
  LET list == IF g.platform = "linux"
              THEN FoldLeft(AddAmd, FromNvml(g), ByVendor(g.cards, "amd"))
              ELSE FoldLeft(AddCard, FromNvml(g),
                            IF g.dxgi THEN Append(g.cards, Software) ELSE <<>>)
  IN IF g.vulkan THEN FilledIn(list, g.cards) ELSE list

\* The largest card of the machine is the largest of the list, so that the checks
\* judge by it: on Windows always, and on Linux if the NVIDIA library, wherever it is
\* there, knows the memory of its cards.  No card is listed that is not there.
SoundProbe(g, a) ==
  LET seen == {c \in Elements(g.cards) :
                 IF g.platform = "linux" THEN c.vendor = "amd" \/ (c.vendor = "nvidia" /\ g.nvml # "none")
                 ELSE g.dxgi}
      largest(S) == Max({c.mem : c \in S} \cup {0})
  IN /\ g.sizes \/ g.platform = "windows" => largest(Elements(a)) >= largest(seen)
     /\ \A l \in Elements(a) : l.mem \in {c.mem : c \in Elements(g.cards)} \cup {Nil, 0}
     /\ \A v \in {"nvidia", "amd"} : Len(ByVendor(a, v)) <= Len(ByVendor(g.cards, v))

-----------------------------------------------------------------------------
\* checks: what the environment lacks.  0 nothing to say, 1 info, 2 warn, 3 error.

Gpus == {Card("x", "nvidia", m) : m \in {2, 6, 12}} \cup {Card("x", "apple", 8), Card("x", "amd", 8)}
Checkable ==
  [windows : BOOLEAN, ram : {4, 16, 32}, free : {Nil, 10, 30, 100},
   gpus : UpTo(Gpus, 1) \cup {<<Card("x", "nvidia", 6), Card("y", "amd", 8)>>,
                              <<Card("y", "amd", 8), Card("x", "nvidia", 6)>>},
   driver : {Nil, 470, 530}, webview2 : BOOLEAN, vcredist : BOOLEAN,
   cuda : BOOLEAN, vulkan : BOOLEAN, runtime : {"running", "error"}]

\* Of two largest cards the later one decides.
Primary(s) == LET m == Max({c.mem : c \in Elements(s)})
              IN s[Max({i \in DOMAIN s : s[i].mem = m})]

CheckGpu(g) ==
  IF g.gpus # <<>> /\ Primary(g.gpus).vendor = "nvidia" /\ Primary(g.gpus).mem < 8 THEN 2 ELSE 1

CheckDriver(g) ==
  IF ByVendor(g.gpus, "nvidia") = <<>> THEN 0
  ELSE IF g.driver = Nil \/ (g.windows /\ g.driver < 530) THEN 2
  ELSE 1

Missing(there, severity) == IF there THEN 0 ELSE severity

Check(g) ==
  [ram |-> IF g.ram < 8 THEN 2 ELSE 1,
   disk |-> IF g.free = Nil \/ g.free >= 50 THEN 0 ELSE IF g.free < 20 THEN 2 ELSE 1,
   gpu |-> CheckGpu(g),
   webview2 |-> Missing(g.webview2 \/ ~g.windows, 3),
   vcredist |-> Missing(g.vcredist \/ ~g.windows, 3),
   driver |-> CheckDriver(g),
   cuda |-> Missing(g.cuda \/ ByVendor(g.gpus, "nvidia") = <<>>, 1),
   vulkan |-> Missing(g.vulkan, 1),
   runtime |-> IF g.runtime = "error" THEN 2 ELSE 1]

\* More memory, more room, a newer driver or one more component makes no verdict
\* worse, and what is told as an error is a component Windows lacks.
SoundChecks(g, a) ==
  LET better == {[g EXCEPT !.ram = 32], [g EXCEPT !.free = IF @ = Nil THEN @ ELSE 100],
                 [g EXCEPT !.driver = 530], [g EXCEPT !.cuda = TRUE], [g EXCEPT !.vulkan = TRUE],
                 [g EXCEPT !.gpus = [i \in DOMAIN @ |-> [@[i] EXCEPT !.mem = 12]]]}
  IN /\ \A h \in better : \A c \in DOMAIN a : Check(h)[c] <= a[c]
     /\ (\E c \in DOMAIN a : a[c] = 3) <=> (g.windows /\ ~(g.webview2 /\ g.vcredist))

\* summary: who words the result of a scan.  A reply that is empty, too long, not
\* Korean or shows the template's tokens is not used.
Replies == {"good", "empty", "long", "foreign", "leak", "refused", "timeout"}
Cascade == <<"exaone", "qwen", "llama">>
Summable == [llm : BOOLEAN, chosen : {"none", "qwen"}, tags : {"ok", "down"},
             installed : UpTo({"exaone", "qwen", "phi"}, 2), reply : Replies]

\* The choice of the last hour stays, whether it is still installed or not.
PickModel(g) ==
  LET there == Where(Cascade, LAMBDA m : m \in Elements(g.installed))
  IN IF g.chosen # "none" THEN g.chosen
     ELSE IF g.tags = "down" \/ there = <<>> THEN "none" ELSE there[1]

Summarise(g) ==
  IF g.llm /\ PickModel(g) # "none" /\ g.reply = "good"
  THEN [source |-> "llm", model |-> PickModel(g)]
  ELSE [source |-> "deterministic", model |-> "none"]

\* A scan always has a summary, and one by a model names it.
SoundSummary(g, a) ==
  /\ a.source = "llm" <=> a.model \in Elements(Cascade)
  /\ a.source = "llm" => g.reply = "good"

-----------------------------------------------------------------------------
\* trending: models of the hub, ranked and sorted into what is queued, only shown,
\* or refused.  A row of the leaderboard tells a model's licence and size.

Hub == [author : {"x", "y"}, name : {"m", "n"}]
Row(a, n, licence, size, average) ==
  [author |-> a, name |-> n, licence |-> licence, size |-> size, average |-> average]
Board == {Row("x", "m", 10, 7, 5), Row("y", "m", 0, 7, 9), Row("y", "n", 7, 70, 6)}
Rankable ==
  [models : {s \in UpTo(Hub, 3) : IsInjective(s)}, downloads : {500, 10000},
   rows : {s \in UpTo(Board, 3) : IsInjective(s)}, gguf : BOOLEAN, korean : 0..3]

\* A row fits by its whole id or by the name alone; the first that fits is taken.
RowOf(m, rows) ==
  LET fits == {i \in DOMAIN rows : rows[i].name = m.name}
  IN IF fits = {} THEN Row(m.author, m.name, 0, 0, 0) ELSE rows[Min(fits)]

\* In thousandths; downloads count from a thousand on.
ScoreOf(m, g) ==
  35 * RowOf(m, g.rows).average + 15 * RowOf(m, g.rows).licence
  + (IF g.downloads < 1000 THEN 0 ELSE 67)
  + (IF g.korean = 0 THEN 0 ELSE IF g.korean <= 2 THEN 120 ELSE 180)
  + (IF g.gguf THEN 100 ELSE 0)

Disposition(m, g) ==
  LET row == RowOf(m, g.rows)
  IN IF row.licence = 0 THEN "reject"
     ELSE IF (row.size > 0 /\ row.size \notin 3..14) \/ g.downloads < 1000 THEN "info"
     ELSE "queue"

Name(m) == (IF m.author = "x" THEN 0 ELSE 2) + (IF m.name = "m" THEN 0 ELSE 1)
RankCandidates(g) ==
  LET first(a, b) == \/ ScoreOf(a, g) > ScoreOf(b, g)
                     \/ ScoreOf(a, g) = ScoreOf(b, g) /\ Name(a) < Name(b)
      ranked == Sorted(g.models, first)
  IN [i \in DOMAIN ranked |-> [model |-> ranked[i], as |-> Disposition(ranked[i], g)]]

\* The ranking does not depend on the order models come in; and none is queued
\* whose own row of the leaderboard has no licence of the list, unless the row of
\* another author's model of the same name comes first.
SoundRanking(g, a) ==
  /\ a = RankCandidates([g EXCEPT !.models = Reverse(@)])
  /\ \A x \in Elements(a), r \in Elements(g.rows) :
       x.as = "queue" /\ r.author = x.model.author /\ r.name = x.model.name =>
         r.licence > 0 \/ \E o \in Elements(g.rows) : o.name = r.name /\ o.author # r.author

-----------------------------------------------------------------------------
\* import: training data of four formats becomes lists of messages.  A message is
\* its role and whether its content is text.

Said == [role : {"human", "assistant", "function", "narrator", "missing"}, text : BOOLEAN]
Importable ==
  [messages : {"absent", "list"}, conversations : {"absent", "list"}, list : UpTo(Said, 2),
   alpaca : {"absent", "output only", "whole"}, korean : BOOLEAN]

NormalizeRole(r) ==
  CASE r = "human" -> "user" [] r = "function" -> "tool" [] OTHER -> r

\* A list with a message that lacks its role or its text is refused: the formats
\* that come after it are not tried.
FromList(list) ==
  IF \E i \in DOMAIN list : list[i].role = "missing" \/ ~list[i].text
  THEN [ok |-> FALSE, messages |-> <<>>]
  ELSE [ok |-> TRUE, messages |-> [i \in DOMAIN list |-> NormalizeRole(list[i].role)]]

ParseLine(g) ==
  IF "list" \in {g.messages, g.conversations} THEN FromList(g.list)
  ELSE IF g.alpaca = "whole" \/ g.korean THEN [ok |-> TRUE, messages |-> <<"user", "assistant">>]
  ELSE [ok |-> FALSE, messages |-> <<>>]

ToLine(a) ==
  [messages |-> "list", conversations |-> "absent", alpaca |-> "absent", korean |-> FALSE,
   list |-> [i \in DOMAIN a.messages |-> [role |-> a.messages[i], text |-> TRUE]]]

\* What was imported and written is read back as the same messages.
SoundImport(g, a) == a.ok => ParseLine(ToLine(a)) = a

\* eval: the answers to a suite of cases, up to a cancel or an error.
Case == [category : {"factuality", "tone"}, expected : BOOLEAN, forbidden : BOOLEAN]
Evaluable == [cases : UpTo(Case, 3), ends : {"all", "cancelled", "failed"}]

Passed(c) == c.expected /\ ~c.forbidden
Counts(s, n) == [passed |-> Cardinality({i \in DOMAIN s : n \in {s[i].category, "all"} /\ Passed(s[i])}),
                 total |-> Cardinality({i \in DOMAIN s : n \in {s[i].category, "all"}})]
RunSuite(g) ==
  IF g.ends # "all" /\ g.cases # <<>> THEN [report |-> FALSE, all |-> Counts(<<>>, "all"), by |-> <<>>]
  ELSE [report |-> TRUE, all |-> Counts(g.cases, "all"),
        by |-> <<Counts(g.cases, "factuality"), Counts(g.cases, "tone")>>]

\* A report is about every case, and its categories add up.
SoundSuite(g, a) ==
  a.report => /\ a.all.total = Len(g.cases)
              /\ Total([i \in 1..2 |-> a.by[i].passed]) = a.all.passed
              /\ Total([i \in 1..2 |-> a.by[i].total]) = a.all.total

-----------------------------------------------------------------------------
\* retention: the results of the workbench, removed by age and then by size.

Dirs == [age : {1, 20, 40}, size : {3, 6}, kept : BOOLEAN]
Bytes(s) == Total([i \in DOMAIN s |-> s[i].size])
Retainable == [dirs : UpTo(Dirs, 3), maxAge : {0, 30}, cap : {0, 8}]

ByAge(dirs, maxAge) == Where(dirs, LAMBDA d : d.kept \/ maxAge = 0 \/ d.age <= maxAge)

\* Oldest first, as long as what is left is above the cap.
BySize(dirs, cap) ==
  LET step(s, d) ==
        IF s.total <= cap \/ d.kept THEN [s EXCEPT !.left = Append(@, d)]
        ELSE [left |-> s.left, total |-> s.total - d.size]
      oldest == Sorted(dirs, LAMBDA a, b : a.age > b.age)
  IN FoldLeft(step, [left |-> <<>>, total |-> Bytes(dirs)], oldest).left

\* A directory that cannot be removed counts as removed, and stays.
Cleanup(g) ==
  LET young == ByAge(g.dirs, g.maxAge)
      left == IF g.cap = 0 THEN young ELSE BySize(young, g.cap)
  IN [left |-> left, remaining |-> Bytes(left), removed |-> Len(g.dirs) - Len(left)]

\* No result of a running job is removed; when the rest is above the cap it is all
\* such results; and no younger result is removed in place of an older one.
SoundCleanup(g, a) ==
  LET count(s, d) == Cardinality({i \in DOMAIN s : s[i] = d})
      gone == {d \in Elements(g.dirs) : count(a.left, d) < count(g.dirs, d)}
  IN /\ \A d \in gone : ~d.kept
     /\ g.cap > 0 /\ a.remaining > g.cap => \A d \in Elements(a.left) : d.kept
     /\ \A d \in gone, e \in Elements(a.left) : ~e.kept => e.age <= d.age

-----------------------------------------------------------------------------
\* frames: a stream of events arrives in pieces that end anywhere.  "d" is a
\* character of a data line that is one byte, "h" and "t" the bytes of one that is
\* more, "r" and "n" end a line; "?" is the replacement character.

Data == {"d", "h", "t", "?"}
Coded(x, crlf) ==
  CASE x = "d" -> <<"d">> [] x = "k" -> <<"h", "t">>
    [] OTHER -> IF crlf THEN <<"r", "n">> ELSE <<"n">>
StreamOf(t, crlf) == FlattenSeq([i \in DOMAIN t |-> Coded(t[i], crlf)])
Streams == {StreamOf(t, c) : t \in UpTo({"d", "k", "end"}, 4), c \in BOOLEAN}
Cuttable == UNION {[stream : {s}, cuts : SUBSET (1..Len(s) - 1)] : s \in Streams}

\* parse reads each piece as text for itself: from_utf8_lossy puts a replacement
\* character for what a cut leaves of a character, on either side of the cut.
AsText(g) ==
  [i \in DOMAIN g.stream |->
     IF (g.stream[i] = "h" /\ i \in g.cuts) \/ (g.stream[i] = "t" /\ i - 1 \in g.cuts)
     THEN "?" ELSE g.stream[i]]

Pieces(g) ==
  LET at == g.cuts \cup {Len(g.stream)}
      ends == [i \in 1..Cardinality(at) |-> CHOOSE c \in at : Cardinality({b \in at : b <= c}) = i]
  IN [i \in DOMAIN ends |->
        SubSeq(g.stream, IF i = 1 THEN 1 ELSE ends[i - 1] + 1, ends[i])]

PositionOf(s, what) == FirstWhere([i \in 1..Len(s) - Len(what) + 1 |-> SubSeq(s, i, i + Len(what) - 1)],
                                  LAMBDA w : w = what)

\* drain_complete: the end of an event is looked for as \n\n in the whole buffer,
\* and as \r\n\r\n only if there is none; an event without a byte is left out.
Event(frame) == Where(frame, LAMBDA b : b # "r")
Blank(frame) == Data \cap Elements(frame) = {}

DrainOne(s) ==
  LET lf == PositionOf(s.buf, <<"n", "n">>)
      crlf == PositionOf(s.buf, <<"r", "n", "r", "n">>)
      at == IF lf # 0 THEN lf ELSE crlf
      frame == SubSeq(s.buf, 1, at - 1)
      rest == SubSeq(s.buf, at + (IF lf # 0 THEN 2 ELSE 4), Len(s.buf))
  IN IF at = 0 THEN s
     ELSE [buf |-> rest, events |-> IF Blank(frame) THEN s.events ELSE Append(s.events, Event(frame))]

\* As long as there is one; a buffer has fewer events than bytes.
Drained(buf, events) ==
  FoldLeft(LAMBDA s, b : DrainOne(s), [buf |-> buf, events |-> events], buf)

\* flush: what is left at the end is an event, complete or not.
Flushed(s) == IF Blank(s.buf) THEN s.events ELSE Append(s.events, Event(s.buf))
ParseText(g) ==
  Flushed(FoldLeft(LAMBDA s, piece : Drained(s.buf \o piece, s.events),
                   [buf |-> <<>>, events |-> <<>>], Pieces(g)))
ParseStream(g) == ParseText([g EXCEPT !.stream = AsText(g)])

\* However a stream is cut the events are those of its text in one piece, as long
\* as it ends its lines one way; every character is in one event, and none spans an
\* empty line.  No cut changes anything unless it goes through a character.
SoundFrames(g, a) ==
  LET data(s) == Where(s, LAMBDA b : b \in Data)
      text == AsText(g)
  IN /\ a = ParseText([stream |-> text, cuts |-> {}])
     /\ data(FlattenSeq(a)) = data(text)
     /\ \A i \in DOMAIN a : PositionOf(a[i], <<"n", "n">>) = 0
     /\ (\A c \in g.cuts : g.stream[c] # "h" /\ g.stream[c+1] # "t") => a = ParseStream([g EXCEPT !.cuts = {}])

-----------------------------------------------------------------------------
\* chunks: a paragraph, sentence by sentence, as overlapping parts.  A character is
\* its sentence and its place in it; 0 is a space that was put in between.

Chunkable == [lengths : UpTo({1, 2, 4, 9}, 3) \ {<<>>}, target : {3, 4, 6}, overlap : {0, 1, 2, 5}]
Sentence(g, i) == [k \in 1..g.lengths[i] |-> <<i, k>>]
Space == <<0, 0>>
Tail_(s, n) == SubSeq(s, Len(s) - n + 1, Len(s))

\* A part is closed before the sentence that would make it too long; its tail
\* begins the next one.
GroupSentences(g) ==
  LET step(s, i) ==
        LET full == Len(s.buf) + g.lengths[i] + 1 > g.target /\ s.buf # <<>>
            head == IF full THEN Tail_(s.buf, Min({g.overlap, Len(s.buf)})) ELSE s.buf
            gap == IF head = <<>> \/ head[Len(head)] = Space THEN <<>> ELSE <<Space>>
        IN [out |-> IF full THEN Append(s.out, s.buf) ELSE s.out,
            buf |-> head \o gap \o Sentence(g, i)]
      end == FoldLeft(step, [out |-> <<>>, buf |-> <<>>], [i \in DOMAIN g.lengths |-> i])
  IN Append(end.out, end.buf)

\* push_chunk: a part neither begins nor ends with a space.
Trimmed(s) ==
  SubSeq(s, IF s[1] = Space THEN 2 ELSE 1, IF s[Len(s)] = Space THEN Len(s) - 1 ELSE Len(s))

\* char_window: a part that is still too long, in steps of the target less the
\* overlap; what is only a space is dropped.
Windows(s, g) ==
  LET stride == Max({g.target - g.overlap, 1})
      needed == (Len(s) - g.target + stride - 1) \div stride + 1
      window(w) == SubSeq(s, (w - 1) * stride + 1, Min({(w - 1) * stride + g.target, Len(s)}))
  IN Where([w \in 1..needed |-> Trimmed(window(w))], LAMBDA s1 : s1 # <<>>)

ChunkParagraph(g) ==
  LET whole == FlattenSeq([i \in DOMAIN g.lengths |->
                 (IF i = 1 THEN <<>> ELSE <<Space>>) \o Sentence(g, i)])
      part(s) == IF Len(s) > g.target + Max({g.overlap, 1}) THEN Windows(s, g) ELSE <<s>>
      groups == GroupSentences(g)
  IN IF Len(whole) <= g.target THEN <<whole>>
     ELSE FlattenSeq([i \in DOMAIN groups |-> part(Trimmed(groups[i]))])

\* No character is lost, none of the parts is longer than the target and its overlap,
\* and they are in the order of the text: two sentences that begin in two parts in
\* the other order both begin in both.  With an overlap longer than the target the
\* next part may begin before the last window of the one before it.
SoundChunks(g, a) ==
  /\ \A i \in DOMAIN g.lengths : \A k \in 1..g.lengths[i] :
       \E n \in DOMAIN a : <<i, k>> \in Elements(a[n])
  /\ \A n \in DOMAIN a : Len(a[n]) <= g.target + Max({g.overlap, 1})
  /\ g.overlap <= g.target => \A n, m \in DOMAIN a : n < m =>
       \A i, k \in DOMAIN g.lengths : <<i, 1>> \in Elements(a[m]) /\ <<k, 1>> \in Elements(a[n])
         => k <= i \/ (<<i, 1>> \in Elements(a[n]) /\ <<k, 1>> \in Elements(a[m]))

-----------------------------------------------------------------------------
\* report: the questions of a survey, packed into prompts of a limited size.

Packable == [tokens : UpTo({1, 3, 5, 9}, 4), limit : {5, 8}]
Usable(g) == (g.limit * 80) \div 100

Pack(g) ==
  LET step(s, t) ==
        IF s.now # <<>> /\ Total(s.now) + t > Usable(g)
        THEN [groups |-> Append(s.groups, s.now), now |-> <<t>>]
        ELSE [s EXCEPT !.now = Append(@, t)]
      end == FoldLeft(step, [groups |-> <<>>, now |-> <<>>], g.tokens)
      groups == IF end.now = <<>> /\ end.groups # <<>> THEN end.groups
                ELSE Append(end.groups, end.now)
  IN [groups |-> groups, synthesis |-> Len(groups) > 1]

\* Every question is in one prompt, in the order of the survey; only a question
\* too large by itself makes a prompt too large; no two prompts could have been one.
SoundPlan(g, a) ==
  /\ FlattenSeq(a.groups) = g.tokens
  /\ \A i \in DOMAIN a.groups : Total(a.groups[i]) > Usable(g) => Len(a.groups[i]) = 1
  /\ \A i \in 1..Len(a.groups) - 1 : Total(a.groups[i]) + a.groups[i + 1][1] > Usable(g)
  /\ a.synthesis <=> Len(a.groups) > 1

\* sample: the personas a survey asks, those that match, shuffled and cut.  An empty
\* word in a list matches nobody, an empty list everybody.
Persona == [sex : {"m", "f"}, age : {0, 40}, words : SUBSET {"u"}]
Samplable == [people : UpTo(Persona, 2), sex : {"any", "m"}, min : {Nil, 20}, max : {Nil, 30},
              any : SUBSET {"u", ""}, size : 0..2, shuffled : BOOLEAN]

Matches(p, g) ==
  /\ g.sex \in {"any", p.sex}
  /\ g.min # Nil => p.age >= g.min
  /\ g.max # Nil => p.age <= g.max
  /\ g.any # {} => g.any \cap p.words # {}

Sample(g) ==
  LET fit == Where(g.people, LAMBDA p : Matches(p, g))
      order == IF g.shuffled THEN Reverse(fit) ELSE fit
  IN [people |-> SubSeq(order, 1, Min({g.size, Len(fit)})), of |-> Len(fit)]

\* Nobody is asked who does not match, and as many as were wanted if there are.
SoundSample(g, a) ==
  /\ \A p \in Elements(a.people) : Matches(p, g)
  /\ Len(a.people) < g.size => Len(a.people) = a.of
  /\ Sample([g EXCEPT !.any = {}]).of >= a.of

-----------------------------------------------------------------------------
Topics == {"recommend", "detect", "gpus", "checks", "summary", "trending", "import", "eval",
           "retention", "frames", "chunks", "report", "sample"} \cup RuleTopics

Givens(t) ==
  CASE t = "recommend" -> Recommendable [] t = "detect" -> Detectable [] t = "gpus" -> Probeable
    [] t = "checks" -> Checkable [] t = "summary" -> Summable [] t = "trending" -> Rankable
    [] t = "import" -> Importable [] t = "eval" -> Evaluable [] t = "retention" -> Retainable
    [] t = "frames" -> Cuttable [] t = "chunks" -> Chunkable [] t = "report" -> Packable
    [] t = "sample" -> Samplable [] OTHER -> RuleGivens(t)

Computed(t, g) ==
  CASE t = "recommend" -> Recommend(g) [] t = "detect" -> Detect_(g) [] t = "gpus" -> Probe_(g)
    [] t = "checks" -> Check(g) [] t = "summary" -> Summarise(g) [] t = "trending" -> RankCandidates(g)
    [] t = "import" -> ParseLine(g) [] t = "eval" -> RunSuite(g) [] t = "retention" -> Cleanup(g)
    [] t = "frames" -> ParseStream(g) [] t = "chunks" -> ChunkParagraph(g) [] t = "report" -> Pack(g)
    [] t = "sample" -> Sample(g) [] OTHER -> Ruled(t, g)

DecideInit ==
  /\ topic \in Topics /\ given \in Givens(topic)
  /\ answer = <<>> /\ decided = FALSE

Decide ==
  /\ ~decided /\ decided' = TRUE
  /\ answer' = Computed(topic, given)
  /\ UNCHANGED <<topic, given>>

\* Each computation keeps what it promises, stated above next to it: for all of the
\* inputs that are given, whatever their order.
DecidedAsPromised ==
  decided =>
    CASE topic = "recommend" -> SoundRecommendation(given, answer)
      [] topic = "detect" -> SoundDetection(given, answer)
      [] topic = "gpus" -> SoundProbe(given, answer)
      [] topic = "checks" -> SoundChecks(given, answer)
      [] topic = "summary" -> SoundSummary(given, answer)
      [] topic = "trending" -> SoundRanking(given, answer)
      [] topic = "import" -> SoundImport(given, answer)
      [] topic = "eval" -> SoundSuite(given, answer)
      [] topic = "retention" -> SoundCleanup(given, answer)
      [] topic = "frames" -> SoundFrames(given, answer)
      [] topic = "chunks" -> SoundChunks(given, answer)
      [] topic = "report" -> SoundPlan(given, answer)
      [] topic = "sample" -> SoundSample(given, answer)
      [] OTHER -> SoundRule(topic, given, answer)

-----------------------------------------------------------------------------
\* The event streams alone.
FramesSpec == topic = "frames" /\ DecideInit /\ [][Decide]_decideVars

\* What the parser says of itself: "even if a chunk arrives across the boundary of
\* TCP segments it is gathered in the buffer and given out as a complete event":
\* no cut, inside a character or not, shows in the events.
CutsAreHidden ==
  decided => answer = ParseStream([given EXCEPT !.cuts = {}])
=============================================================================
